-------------------------- MODULE MdnsBridgeProofs --------------------------
(***************************************************************************)
(* What MdnsBridge promises, for every set of services, instances, hosts,  *)
(* messages and settings, whatever their number and however long it runs.  *)
(*                                                                         *)
(* Each promise has an invariant of its own, over the shape of the state   *)
(* (Shaped): which listener runs (ListenerInv), what the table's entries   *)
(* were derived from (ServedInv), when each was last announced (HeardInv), *)
(* when it was last asked for (AskedInv), and how the clock of a browse    *)
(* runs against the table's (KnownInv).                                    *)
(***************************************************************************)
EXTENDS MdnsBridge, CommonFacts

---------------------------------------------------------------------------
(* Maps. *)

\* What writes to a map leave in it.
LEMMA Overwritten ==
    ASSUME NEW w, NEW f
    PROVE  /\ DOMAIN Over(w, f) = DOMAIN w \cup DOMAIN f
           /\ \A k \in DOMAIN w : Over(w, f)[k] = w[k]
           /\ \A k \in DOMAIN f \ DOMAIN w : Over(w, f)[k] = f[k]
  BY DEF Over

---------------------------------------------------------------------------
(* The operations of the table. *)

\* Derived looks at the addresses and the approval of an entry only.
LEMMA RederivedServed ==
    ASSUME NEW cfg, NEW k, NEW e,
           DOMAIN e = {"addrs", "ttl", "manual", "lastSeen", "served"}
    PROVE  LET r == Rederive(cfg, k, e)
           IN /\ DOMAIN r = DOMAIN e
              /\ r.ttl = e.ttl /\ r.lastSeen = e.lastSeen
              /\ r.addrs = e.addrs /\ r.manual = e.manual
              /\ r.served = Derived(cfg, k, r)
<1> DEFINE r == Rederive(cfg, k, e)
<1>1. /\ DOMAIN r = DOMAIN e
      /\ r.ttl = e.ttl /\ r.lastSeen = e.lastSeen
      /\ r.addrs = e.addrs /\ r.manual = e.manual
      /\ r.served = Derived(cfg, k, e)
  BY DEF Rederive
<1>2. Derived(cfg, k, r) = Derived(cfg, k, e)
  BY <1>1 DEF Derived
<1> QED
  BY <1>1, <1>2

\* Upsert: the entry is seen now, with the TTL it came with.
LEMMA Upserted ==
    ASSUME NEW t, TableShaped(t), NEW k \in Key, NEW b, b.ttl \in Nat, now \in Nat
    PROVE  LET u == Upsert(t, k, b)
           IN /\ TableShaped(u)
              /\ u.cfg = t.cfg
              /\ DOMAIN u.entries = DOMAIN t.entries \cup {k}
              /\ \A j \in DOMAIN t.entries \ {k} : u.entries[j] = t.entries[j]
              /\ u.entries[k].lastSeen = now
              /\ b.ttl > 0 => u.entries[k].ttl = b.ttl
              /\ u.entries[k].served = Derived(u.cfg, k, u.entries[k])
<1> DEFINE old == IF k \in DOMAIN t.entries THEN t.entries[k]
                  ELSE [addrs |-> {}, ttl |-> 0, manual |-> FALSE, lastSeen |-> 0, served |-> <<>>]
           met == [old EXCEPT !.addrs = @ \cup b.addrs, !.lastSeen = now,
                              !.ttl = IF b.ttl > 0 THEN b.ttl ELSE @]
           u == Upsert(t, k, b)
           e == Rederive(t.cfg, k, met)
           w == [j \in {k} |-> e]
<1>1. /\ DOMAIN old = {"addrs", "ttl", "manual", "lastSeen", "served"}
      /\ old.ttl \in Nat
  BY DEF TableShaped
<1>2. /\ DOMAIN met = {"addrs", "ttl", "manual", "lastSeen", "served"}
      /\ met.lastSeen = now /\ met.ttl \in Nat
      /\ b.ttl > 0 => met.ttl = b.ttl
  <2> HIDE DEF old
  <2> QED
    BY <1>1
<1>3. /\ DOMAIN e = {"addrs", "ttl", "manual", "lastSeen", "served"}
      /\ e.lastSeen = now /\ e.ttl \in Nat
      /\ b.ttl > 0 => e.ttl = b.ttl
      /\ e.served = Derived(t.cfg, k, e)
  <2> HIDE DEF met
  <2> QED
    BY <1>2, RederivedServed
<1>4. u = [t EXCEPT !.entries = Over(w, t.entries)]
  BY DEF Upsert
<1> HIDE DEF e, met, old, u
<1>5. DOMAIN u = {"cfg", "entries"} /\ u.cfg = t.cfg /\ u.entries = Over(w, t.entries)
  BY <1>4 DEF TableShaped
<1>w. DOMAIN w = {k} /\ w[k] = e
  OBVIOUS
<1> HIDE DEF w
<1>o. /\ DOMAIN Over(w, t.entries) = DOMAIN w \cup DOMAIN t.entries
      /\ \A j \in DOMAIN w : Over(w, t.entries)[j] = w[j]
      /\ \A j \in DOMAIN t.entries \ DOMAIN w : Over(w, t.entries)[j] = t.entries[j]
  BY Overwritten, Zenon
<1>6. /\ DOMAIN u.entries = DOMAIN t.entries \cup {k}
      /\ \A j \in DOMAIN t.entries \ {k} : u.entries[j] = t.entries[j]
      /\ u.entries[k] = e
  BY <1>5, <1>w, <1>o
<1>7. TableShaped(u)
  BY <1>3, <1>5, <1>6 DEF TableShaped
<1> QED
  BY <1>3, <1>5, <1>6, <1>7 DEF u

\* Remove, Expire and an emptied table only lose entries.
LEMMA Lost ==
    ASSUME NEW t, TableShaped(t), NEW S, S \subseteq DOMAIN t.entries
    PROVE  LET u == [t EXCEPT !.entries = Restrict(t.entries, S)]
           IN /\ TableShaped(u) /\ u.cfg = t.cfg /\ DOMAIN u.entries = S
              /\ \A j \in S : u.entries[j] = t.entries[j]
<1> DEFINE u == [t EXCEPT !.entries = Restrict(t.entries, S)]
<1>1. DOMAIN u = {"cfg", "entries"} /\ u.cfg = t.cfg /\ u.entries = Restrict(t.entries, S)
  BY DEF TableShaped
<1>2. DOMAIN u.entries = S /\ \A j \in S : u.entries[j] = t.entries[j]
  BY <1>1 DEF Restrict
<1> HIDE DEF u
<1>3. TableShaped(u)
  BY <1>1, <1>2 DEF TableShaped
<1> QED
  BY <1>1, <1>2, <1>3 DEF u

\* SetConfig derives every entry again, and changes nothing else of it.
LEMMA Configured ==
    ASSUME NEW t, TableShaped(t), NEW cfg
    PROVE  LET u == SetConfig(t, cfg)
           IN /\ TableShaped(u) /\ u.cfg = cfg /\ DOMAIN u.entries = DOMAIN t.entries
              /\ EntriesDerived(u)
              /\ \A k \in DOMAIN t.entries : /\ u.entries[k].ttl = t.entries[k].ttl
                                             /\ u.entries[k].lastSeen = t.entries[k].lastSeen
<1> DEFINE u == SetConfig(t, cfg)
<1>1. /\ DOMAIN u = {"cfg", "entries"} /\ u.cfg = cfg /\ DOMAIN u.entries = DOMAIN t.entries
      /\ \A k \in DOMAIN t.entries : u.entries[k] = Rederive(cfg, k, t.entries[k])
  BY DEF SetConfig
<1> HIDE DEF u
<1>2. ASSUME NEW k \in DOMAIN t.entries
      PROVE  /\ DOMAIN u.entries[k] = {"addrs", "ttl", "manual", "lastSeen", "served"}
             /\ u.entries[k].ttl = t.entries[k].ttl
             /\ u.entries[k].lastSeen = t.entries[k].lastSeen
             /\ u.entries[k].served = Derived(cfg, k, u.entries[k])
  <2>1. DOMAIN t.entries[k] = {"addrs", "ttl", "manual", "lastSeen", "served"}
    BY DEF TableShaped
  <2> DEFINE e == t.entries[k]
  <2>2. u.entries[k] = Rederive(cfg, k, e)
    BY <1>1
  <2> HIDE DEF e
  <2>3. DOMAIN e = {"addrs", "ttl", "manual", "lastSeen", "served"}
    BY <2>1 DEF e
  <2> QED
    BY <2>2, <2>3, RederivedServed DEF e
<1>3. TableShaped(u)
  BY <1>1, <1>2 DEF TableShaped
<1> QED
  BY <1>1, <1>2, <1>3 DEF EntriesDerived, u

---------------------------------------------------------------------------
(* What a message and a poll do to a browse. *)

\* There are finitely many thresholds; a record is past one of them exactly when
\* it is past the first.
LEMMA Thresholds ==
    /\ IsFiniteSet(refreshThresholds) /\ Cardinality(refreshThresholds) \in Nat
    /\ \A r \in CacheRecord, n \in Nat :
        /\ Crossed(r, n) \in 0 .. Cardinality(refreshThresholds)
        /\ Crossed(r, n) > 0 <=> 100 * Elapsed(r, n) >= 80 * r.ttl
<1>1. IsFiniteSet({80}) /\ IsFiniteSet({80, 85}) /\ IsFiniteSet({80, 85, 90})
  <2>1. IsFiniteSet({80})
    BY FS_Singleton
  <2>2. IsFiniteSet({80} \cup {85})
    BY <2>1, FS_AddElement
  <2>3. IsFiniteSet({80, 85} \cup {90})
    BY <2>2, FS_AddElement, {80, 85} = {80} \cup {85}
  <2> QED
    BY <2>1, <2>2, <2>3, {80, 85} = {80} \cup {85}, {80, 85, 90} = {80, 85} \cup {90}
<1>2. IsFiniteSet(refreshThresholds)
  <2>1. IsFiniteSet({80, 85, 90} \cup {95})
    BY <1>1, FS_AddElement
  <2> QED
    BY <2>1, {80, 85, 90, 95} = {80, 85, 90} \cup {95} DEF refreshThresholds
<1>3. Cardinality(refreshThresholds) \in Nat
  BY <1>2, FS_CardinalityType
<1>4. ASSUME NEW r \in CacheRecord, NEW n \in Nat
      PROVE  /\ Crossed(r, n) \in 0 .. Cardinality(refreshThresholds)
             /\ Crossed(r, n) > 0 <=> 100 * Elapsed(r, n) >= 80 * r.ttl
  <2> DEFINE C == {p \in refreshThresholds : 100 * Elapsed(r, n) >= p * r.ttl}
  <2>1. r.ttl \in Nat /\ Elapsed(r, n) \in Int
    <3>1. r.ttl \in TTL /\ r.storedAt \in Nat
      BY DEF CacheRecord
    <3>2. r.ttl \in Nat
      BY <3>1, TTLAssumption
    <3>3. n - r.storedAt \in Int
      BY <3>1
    <3> QED
      BY <3>2, <3>3 DEF Elapsed
  <2>2. C \in SUBSET refreshThresholds
    OBVIOUS
  <2>3. IsFiniteSet(C) /\ Cardinality(C) \in Nat /\ Cardinality(C) <= Cardinality(refreshThresholds)
    BY <1>2, <2>2, FS_Subset, FS_CardinalityType
  <2>4. Cardinality(C) > 0 <=> C # {}
    BY <2>3, FS_EmptySet
  <2>5. C # {} <=> 100 * Elapsed(r, n) >= 80 * r.ttl
    <3>1. ASSUME NEW p \in C PROVE 100 * Elapsed(r, n) >= 80 * r.ttl
      <4>1. p = 80 \/ p = 85 \/ p = 90 \/ p = 95
        BY DEF refreshThresholds
      <4>2. 100 * Elapsed(r, n) >= p * r.ttl
        OBVIOUS
      <4> QED
        BY <2>1, <4>1, <4>2
    <3>2. ASSUME 100 * Elapsed(r, n) >= 80 * r.ttl PROVE 80 \in C
      BY <3>2 DEF refreshThresholds
    <3> QED
      BY <3>1, <3>2
  <2> QED
    BY <1>3, <2>3, <2>4, <2>5 DEF Crossed
<1> QED
  BY <1>2, <1>3, <1>4

\* A message: an instance it says nothing of is as it was, one it says something
\* of is reported if it can be, and one it says goodbye to is forgotten.
LEMMA Ingested ==
    ASSUME NEW state, StateShaped(state, now), now \in Nat, NEW m, Parsed(m)
    PROVE  LET r == Ingest(state, m, now)
           IN /\ StateShaped(r.state, now)
              /\ r.added \subseteq DOMAIN r.state.entries
              /\ \A i \in r.added : Resolvable(r.state.entries[i])
              /\ r.removed \subseteq DOMAIN state.entries \ DOMAIN r.state.entries
              /\ \A i \in DOMAIN r.state.cache :
                    \/ i \in DOMAIN state.cache \ DOMAIN m.ptr /\ r.state.cache[i] = state.cache[i]
                    \/ i \in DOMAIN m.ptr /\ r.state.cache[i] = Stored(m.ptr[i], now)
                         /\ r.state.cache[i].ttl > 0
              /\ \A i \in DOMAIN r.state.entries \ r.added : Resolvable(r.state.entries[i]) =>
                    i \in DOMAIN state.entries /\ r.state.entries[i] = state.entries[i]
                        /\ r.state.cache[i] = state.cache[i]
<1> DEFINE met == DOMAIN m.ptr \ Goodbyes(m)
           known == (DOMAIN state.entries \cup met) \ Goodbyes(m)
           fresh == [i \in met |-> Stored(m.ptr[i], now)]
           kept == Restrict(state.cache, DOMAIN state.cache \ Goodbyes(m))
           ptr == AfterPtr(state, m, now)
           named == AfterSrv(ptr.entries, m)
           entries == AfterAddrs(named, m)
           r == Ingest(state, m, now)
<1>1. /\ DOMAIN m.ptr \subseteq Instance /\ \A i \in met : m.ptr[i] \in TTL /\ m.ptr[i] \in Nat \ {0}
      /\ \A i \in DOMAIN m.srv : m.srv[i] \in Host
      /\ m.a \subseteq Host \X Addr
  BY TTLAssumption DEF Parsed, Goodbyes
<1>2. ptr.cache = Over(fresh, kept)
  BY DEF AfterPtr
<1>3. /\ DOMAIN fresh = met /\ \A i \in met : fresh[i] = Stored(m.ptr[i], now)
      /\ DOMAIN kept = DOMAIN state.cache \ Goodbyes(m)
      /\ \A i \in DOMAIN kept : kept[i] = state.cache[i]
  BY DEF Restrict
<1>4. /\ DOMAIN ptr.cache = met \cup (DOMAIN state.cache \ Goodbyes(m))
      /\ \A i \in met : ptr.cache[i] = Stored(m.ptr[i], now)
      /\ \A i \in (DOMAIN state.cache \ Goodbyes(m)) \ met : ptr.cache[i] = state.cache[i]
  <2> HIDE DEF fresh, kept, met, ptr
  <2>1. /\ DOMAIN Over(fresh, kept) = DOMAIN fresh \cup DOMAIN kept
        /\ \A i \in DOMAIN fresh : Over(fresh, kept)[i] = fresh[i]
        /\ \A i \in DOMAIN kept \ DOMAIN fresh : Over(fresh, kept)[i] = kept[i]
    BY Overwritten, Zenon
  <2> QED
    BY <1>2, <1>3, <2>1
<1>5. /\ DOMAIN ptr.entries = known
      /\ \A i \in met : ptr.entries[i] = [EnsureEntry(state.entries, i) EXCEPT !.ttl = m.ptr[i]]
      /\ \A i \in known \ met : ptr.entries[i] = state.entries[i]
  BY DEF AfterPtr
<1>6. ASSUME NEW i \in known
      PROVE  ptr.entries[i] \in Entry /\ ptr.entries[i].ttl = ptr.cache[i].ttl
  <2>1. CASE i \in met
    <3>1. EnsureEntry(state.entries, i) \in Entry
      BY DEF EnsureEntry, StateShaped, Entry
    <3>2. [EnsureEntry(state.entries, i) EXCEPT !.ttl = m.ptr[i]] \in Entry
      BY <1>1, <2>1, <3>1 DEF Entry
    <3>3. [EnsureEntry(state.entries, i) EXCEPT !.ttl = m.ptr[i]].ttl = m.ptr[i]
      BY <3>1 DEF Entry
    <3>4. Stored(m.ptr[i], now).ttl = m.ptr[i]
      BY DEF Stored
    <3> HIDE DEF ptr, met, known
    <3> QED
      BY <1>4, <1>5, <2>1, <3>2, <3>3, <3>4
  <2>2. CASE i \notin met
    BY <1>4, <1>5, <2>2 DEF StateShaped
  <2> QED
    BY <2>1, <2>2
<1>7. ASSUME NEW i \in known
      PROVE  /\ named[i] \in Entry /\ named[i].ttl = ptr.entries[i].ttl
             /\ i \notin DOMAIN m.srv => named[i] = ptr.entries[i]
  <2>1. named[i] = IF i \in DOMAIN m.srv THEN [ptr.entries[i] EXCEPT !.host = m.srv[i]] ELSE ptr.entries[i]
    BY <1>5 DEF AfterSrv
  <2> HIDE DEF named, ptr, known
  <2> QED
    BY <1>1, <1>6, <2>1 DEF Entry
<1>8. DOMAIN named = known
  BY <1>5 DEF AfterSrv
<1>9. ASSUME NEW i \in known
      PROVE  /\ entries[i] \in Entry /\ entries[i].ttl = named[i].ttl
             /\ AddrsFor(m, named[i]) = {} => entries[i] = named[i]
             /\ entries[i].host = named[i].host
  <2>1. entries[i] = [named[i] EXCEPT !.addrs = @ \cup AddrsFor(m, named[i])]
    BY <1>8 DEF AfterAddrs
  <2>2. AddrsFor(m, named[i]) \subseteq Addr
    BY <1>1 DEF AddrsFor
  <2> HIDE DEF named, entries, known
  <2> DEFINE e == named[i]
  <2>3. e \in Entry
    BY <1>7
  <2> HIDE DEF e
  <2>4. ASSUME NEW A, A \subseteq Addr
        PROVE  LET f == [e EXCEPT !.addrs = @ \cup A]
               IN f \in Entry /\ f.ttl = e.ttl /\ f.host = e.host /\ (A = {} => f = e)
    <3>1. [e EXCEPT !.addrs = @ \cup A] = [host |-> e.host, addrs |-> e.addrs \cup A, ttl |-> e.ttl]
      BY <2>3 DEF Entry
    <3>2. e = [host |-> e.host, addrs |-> e.addrs, ttl |-> e.ttl]
      BY <2>3 DEF Entry
    <3>3. e.host \in Host \cup {NoHost} /\ e.addrs \subseteq Addr /\ e.ttl \in TTL \cup {0}
      BY <2>3 DEF Entry
    <3> QED
      BY <2>4, <3>1, <3>2, <3>3 DEF Entry
  <2> QED
    BY <2>1, <2>2, <2>4 DEF e
<1>10. DOMAIN entries = known
  BY <1>8 DEF AfterAddrs
<1>11. /\ r.state = [cache |-> ptr.cache, entries |-> entries]
       /\ r.added = {i \in Touched(entries, m) : Resolvable(entries[i])}
       /\ r.removed = Goodbyes(m) \cap DOMAIN state.entries
  BY DEF Ingest
<1> HIDE DEF r, entries, named, ptr
<1>12. /\ DOMAIN r.state = {"cache", "entries"}
       /\ r.state.cache = ptr.cache /\ r.state.entries = entries
  BY <1>11
<1>13. DOMAIN ptr.cache = known /\ known \subseteq Instance /\ DOMAIN state.entries = DOMAIN state.cache
  BY <1>1, <1>4 DEF StateShaped, Goodbyes
<1>14. ASSUME NEW i \in known
       PROVE  ptr.cache[i] \in CacheRecord /\ ptr.cache[i].storedAt <= now
  <2>1. CASE i \in met
    <3>1. 0 \in 0 .. Cardinality(refreshThresholds)
      BY Thresholds
    <3>2. m.ptr[i] \in TTL
      BY <1>1, <2>1
    <3>3. /\ Stored(m.ptr[i], now) \in CacheRecord
          /\ Stored(m.ptr[i], now).storedAt = now
      BY <3>1, <3>2 DEF Stored, CacheRecord
    <3> QED
      BY <1>4, <2>1, <3>3
  <2>2. CASE i \notin met
    BY <1>4, <1>13, <2>2 DEF StateShaped
  <2> QED
    BY <2>1, <2>2
<1>15. StateShaped(r.state, now)
  BY <1>6, <1>7, <1>9, <1>10, <1>12, <1>13, <1>14 DEF StateShaped
<1>16. /\ r.added \subseteq DOMAIN r.state.entries
       /\ \A i \in r.added : Resolvable(r.state.entries[i])
  BY <1>11, <1>12 DEF Touched
<1>17. r.removed \subseteq DOMAIN state.entries \ DOMAIN r.state.entries
  BY <1>10, <1>11, <1>12
<1>18. ASSUME NEW i \in DOMAIN r.state.cache
       PROVE  \/ i \in DOMAIN state.cache \ DOMAIN m.ptr /\ r.state.cache[i] = state.cache[i]
              \/ i \in DOMAIN m.ptr /\ r.state.cache[i] = Stored(m.ptr[i], now) /\ r.state.cache[i].ttl > 0
  <2>1. CASE i \in met
    BY <1>1, <1>4, <1>12, <2>1 DEF Stored
  <2>2. CASE i \notin met
    BY <1>4, <1>12, <1>13, <2>2
  <2> QED
    BY <2>1, <2>2
<1>19. ASSUME NEW i \in DOMAIN r.state.entries \ r.added, Resolvable(r.state.entries[i])
       PROVE  i \in DOMAIN state.entries /\ r.state.entries[i] = state.entries[i]
                  /\ r.state.cache[i] = state.cache[i]
  <2>1. i \in known /\ i \notin Touched(entries, m)
    BY <1>10, <1>11, <1>12, <1>19
  <2>2. i \notin DOMAIN m.ptr \cup DOMAIN m.srv /\ AddrsFor(m, entries[i]) = {}
    BY <1>10, <2>1 DEF Touched
  <2>3. AddrsFor(m, named[i]) = {}
    BY <1>9, <2>1, <2>2 DEF AddrsFor
  <2> QED
    BY <1>4, <1>5, <1>7, <1>9, <1>12, <1>13, <2>1, <2>2, <2>3
<1> QED
  BY <1>15, <1>16, <1>17, <1>18, <1>19 DEF r

\* A poll: what expired is forgotten, everything else is as it was but for its
\* count of refreshes, and what is past a threshold was asked for.
LEMMA Polled ==
    ASSUME NEW state, StateShaped(state, now), now \in Nat
    PROVE  LET r == Poll(state, now)
           IN /\ StateShaped(r.state, now)
              /\ r.removed \subseteq DOMAIN state.entries \ DOMAIN r.state.entries
              /\ \A i \in DOMAIN r.state.cache :
                    /\ i \in DOMAIN state.cache
                    /\ r.state.entries[i] = state.entries[i]
                    /\ r.state.cache[i].ttl = state.cache[i].ttl
                    /\ r.state.cache[i].storedAt = state.cache[i].storedAt
                    /\ ~Expired(state.cache[i], now)
                    /\ \/ r.state.cache[i].refreshesSent > 0
                       \/ 100 * Elapsed(r.state.cache[i], now) >= 80 * r.state.cache[i].ttl
                       => i \in r.asked \/ state.cache[i].refreshesSent > 0
<1> DEFINE expired == ExpiredKeys(state.cache, now)
           cache == CacheAfterTick(state.cache, now)
           r == Poll(state, now)
<1>1. /\ r.state = [cache |-> cache, entries |-> Restrict(state.entries, DOMAIN state.entries \ expired)]
      /\ r.removed = expired \cap DOMAIN state.entries
      /\ r.asked = IF DueKeys(state.cache, now) = {} THEN {} ELSE DOMAIN cache \ KnownAnswers(cache, now)
  BY DEF Poll
<1>2. DOMAIN cache = DOMAIN state.cache \ expired
  BY DEF CacheAfterTick
<1>3. ASSUME NEW i \in DOMAIN cache
      PROVE  /\ i \in DOMAIN state.cache /\ ~Expired(state.cache[i], now)
             /\ cache[i] \in CacheRecord
             /\ cache[i].ttl = state.cache[i].ttl /\ cache[i].storedAt = state.cache[i].storedAt
             /\ cache[i].refreshesSent > 0 <=>
                    state.cache[i].refreshesSent > 0 \/ Crossed(state.cache[i], now) > 0
  <2> DEFINE o == state.cache[i]
             x == Crossed(o, now)
             y == Max({o.refreshesSent, x})
  <2>1. i \in DOMAIN state.cache /\ ~Expired(o, now)
    BY <1>2 DEF ExpiredKeys
  <2>2. o \in CacheRecord
    BY <2>1 DEF StateShaped
  <2>3. cache[i] = [o EXCEPT !.refreshesSent = y]
    BY <1>2 DEF CacheAfterTick
  <2> HIDE DEF o, cache
  <2>4. /\ x \in 0 .. Cardinality(refreshThresholds)
        /\ o.refreshesSent \in 0 .. Cardinality(refreshThresholds)
        /\ o.ttl \in TTL /\ o.storedAt \in Nat
    BY <2>2, Thresholds DEF CacheRecord
  <2> HIDE DEF x
  <2>5. y = IF o.refreshesSent >= x THEN o.refreshesSent ELSE x
    BY <2>4, Thresholds DEF Max
  <2>6. y \in 0 .. Cardinality(refreshThresholds) /\ (y > 0 <=> o.refreshesSent > 0 \/ x > 0)
    BY <2>4, <2>5, Thresholds
  <2> HIDE DEF y
  <2>7. cache[i] = [ttl |-> o.ttl, storedAt |-> o.storedAt, refreshesSent |-> y]
    BY <2>2, <2>3 DEF CacheRecord
  <2>8. cache[i] \in CacheRecord
    BY <2>4, <2>6, <2>7 DEF CacheRecord
  <2> QED
    BY <2>1, <2>6, <2>7, <2>8 DEF o, x
<1> HIDE DEF cache, expired, r
<1>4. /\ DOMAIN r.state = {"cache", "entries"} /\ r.state.cache = cache
      /\ DOMAIN r.state.entries = DOMAIN cache /\ DOMAIN state.entries = DOMAIN state.cache
      /\ \A i \in DOMAIN cache : r.state.entries[i] = state.entries[i]
  BY <1>1, <1>2 DEF Restrict, StateShaped
<1>5. StateShaped(r.state, now)
  BY <1>3, <1>4 DEF StateShaped
<1>6. r.removed \subseteq DOMAIN state.entries \ DOMAIN r.state.entries
  BY <1>1, <1>2, <1>4
<1>7. ASSUME NEW i \in DOMAIN cache,
             cache[i].refreshesSent > 0 \/ 100 * Elapsed(cache[i], now) >= 80 * cache[i].ttl
      PROVE  i \in r.asked \/ state.cache[i].refreshesSent > 0
  <2> DEFINE o == state.cache[i]
  <2>1. i \in DOMAIN state.cache /\ ~Expired(o, now) /\ o \in CacheRecord
    BY <1>3 DEF StateShaped
  <2>2. Elapsed(cache[i], now) = Elapsed(o, now) /\ cache[i].ttl = o.ttl
    BY <1>3 DEF Elapsed
  <2>3. SUFFICES ASSUME ~(o.refreshesSent > 0) PROVE i \in r.asked
    OBVIOUS
  <2>4. Crossed(o, now) > 0 /\ 100 * Elapsed(o, now) >= 80 * o.ttl
    BY <1>3, <1>7, <2>1, <2>2, <2>3, Thresholds
  <2>5. o.refreshesSent \in Nat /\ Crossed(o, now) \in Nat /\ o.ttl \in Nat \ {0} /\ Elapsed(o, now) \in Int
    <3>1. o.refreshesSent \in 0 .. Cardinality(refreshThresholds) /\ o.ttl \in TTL /\ o.storedAt \in Nat
      BY <2>1 DEF CacheRecord
    <3>2. Crossed(o, now) \in 0 .. Cardinality(refreshThresholds)
      BY <2>1, Thresholds
    <3>3. now - o.storedAt \in Int
      BY <3>1
    <3>4. o.ttl \in Nat \ {0}
      BY <3>1, TTLAssumption
    <3> QED
      BY <3>1, <3>2, <3>3, <3>4, Thresholds DEF Elapsed
  <2>6. DueThreshold(o, now)
    BY <2>3, <2>4, <2>5 DEF DueThreshold
  <2>7. i \in DueKeys(state.cache, now)
    BY <2>1, <2>6 DEF DueKeys
  <2>8. ~(2 * (o.ttl - Elapsed(o, now)) > o.ttl)
    BY <2>4, <2>5
  <2>9. i \notin KnownAnswers(cache, now)
    BY <2>2, <2>8 DEF KnownAnswers
  <2> QED
    BY <1>1, <2>7, <2>9
<1> QED
  BY <1>3, <1>4, <1>5, <1>6, <1>7 DEF r

---------------------------------------------------------------------------
(* Types. *)

\* The clock, the files and the phase of the save.
LEMMA FilesStep == Shaped /\ [Next]_vars => FilesShaped'
<1> SUFFICES ASSUME Shaped, [Next]_vars PROVE FilesShaped'
  OBVIOUS
<1> USE DEF Shaped, FilesShaped, SavePhases, Idle
<1>1. CASE UNCHANGED <<now, disk, save>>
  BY <1>1
<1>2. ASSUME NEW x \in Setting, SaveSettings(x) PROVE FilesShaped'
  BY <1>2 DEF SaveSettings
<1>3. ASSUME NEW promoted, DOMAIN promoted \subseteq Name, ApplyRecords(promoted) PROVE FilesShaped'
  BY <1>3 DEF ApplyRecords
<1>4. ASSUME NEW n \in Name, PromoteMDNS(n) PROVE FilesShaped'
  <2>1. PICK k : LET sel == [service |-> Service, instance |-> Instance, host |-> {k[3]}, family |-> "", vlan |-> ""]
                 IN ApplyRecords(Over([m \in {n} |-> sel], disk.promoted))
    BY <1>4 DEF PromoteMDNS
  <2> DEFINE sel == [service |-> Service, instance |-> Instance, host |-> {k[3]}, family |-> "", vlan |-> ""]
             w == [m \in {n} |-> sel]
  <2>2. DOMAIN Over(w, disk.promoted) = DOMAIN w \cup DOMAIN disk.promoted /\ DOMAIN w = {n}
    BY DEF Over
  <2>3. DOMAIN Over(w, disk.promoted) \subseteq Name
    BY <2>2
  <2> QED
    BY <1>3, <2>1, <2>3
<1>5. ASSUME NEW n \in Name, DeleteRecord(n) PROVE FilesShaped'
  <2>1. DOMAIN Restrict(disk.promoted, DOMAIN disk.promoted \ {n}) \subseteq Name
    BY DEF Restrict
  <2> QED
    BY <1>3, <1>5, <2>1 DEF DeleteRecord
<1>6. CASE RestartEngine
  BY <1>6 DEF RestartEngine
<1>7. ASSUME NEW ok \in BOOLEAN, Reload(ok) PROVE FilesShaped'
  <2>1. save \in [at : {"reload"}, kind : {"settings", "records", "restart"}]
    BY <1>7 DEF Reload
  <2>2. save' \in SavePhases
    BY <1>7, <2>1 DEF Reload
  <2> QED
    BY <1>7, <2>2 DEF Reload
<1>8. CASE RefreshMDNS \/ StopMDNS \/ FirstStart \/ RestartListener
  BY <1>8 DEF RefreshMDNS, StopMDNS, FirstStart, RestartListener
<1>9. CASE Tick
  BY <1>9, BoundsAssumption DEF Tick, serviceVars
<1>10. ASSUME NEW b \in DOMAIN browses, BrowseStep(b) PROVE UNCHANGED <<now, disk, save>>
  BY <1>10 DEF BrowseStep, Hear, PollBrowse, AddInstance, RemoveInstance, BrowseFails, BrowseLeaves, serviceVars
<1>11. ASSUME NEW l \in DOMAIN listeners, ListenerStep(l) PROVE UNCHANGED <<now, disk, save>>
  BY <1>11 DEF ListenerStep, HearType, TypesLeave, ExpireTable, serviceVars
<1>12. ASSUME NEW x \in Setting, RejectSettings(x) PROVE UNCHANGED <<now, disk, save>>
  BY <1>12 DEF RejectSettings
<1>13. ASSUME NEW n, NEW approve, SetPublished(n, approve) PROVE UNCHANGED <<now, disk, save>>
  BY <1>13 DEF SetPublished, serviceVars
<1>14. ASSUME UNCHANGED vars PROVE UNCHANGED <<now, disk, save>>
  BY <1>14 DEF vars, serviceVars
<1> QED
  BY <1>1, <1>2, <1>4, <1>5, <1>6, <1>7, <1>8, <1>9, <1>10, <1>11, <1>12, <1>13, <1>14
     DEF Next, ServiceStep

\* A table that is replaced by another.
LEMMA TableReplaced ==
    ASSUME TablesShaped, NEW t \in DOMAIN tables, NEW u, TableShaped(u),
           tables' = [tables EXCEPT ![t] = u]
    PROVE  /\ tables' \in Seq(Range(tables')) /\ Len(tables') = Len(tables)
           /\ DOMAIN tables' = DOMAIN tables
           /\ \A d \in DOMAIN tables' : TableShaped(tables'[d])
           /\ tables'[t] = u /\ \A d \in DOMAIN tables \ {t} : tables'[d] = tables[d]
<1>1. tables \in Seq(Range(tables))
  BY DEF TablesShaped
<1>2. /\ tables' \in Seq(Range(tables')) /\ Len(tables') = Len(tables)
      /\ DOMAIN tables' = DOMAIN tables
      /\ tables'[t] = u /\ \A d \in DOMAIN tables \ {t} : tables'[d] = tables[d]
  BY <1>1, SeqReplaced
<1> QED
  BY <1>2 DEF TablesShaped

\* The table that is in use is one.
LEMMA TableInUse ==
    ASSUME TablesShaped
    PROVE  Len(tables) \in Nat /\ DOMAIN tables = 1 .. Len(tables) /\ (gui # 0 => gui \in DOMAIN tables)
<1>1. tables \in Seq(Range(tables)) /\ gui \in 0 .. Len(tables)
  BY DEF TablesShaped
<1> QED
  BY <1>1

\* A report of a browse names a key and a TTL, and its listener a table.
LEMMA ReportTyped ==
    ASSUME Shaped, NEW b \in DOMAIN browses
    PROVE  /\ b[1] \in DOMAIN listeners /\ b[2] \in Service
           /\ listeners[b[1]].table \in DOMAIN tables
           /\ \A c \in browses[b].add : \E i \in DOMAIN browses[b].state.entries :
                 /\ c = Call(b, i, browses[b].state.entries[i])
                 /\ c.key = <<b[2], i, browses[b].state.entries[i].host>> /\ c.key \in Key
                 /\ c.entry.ttl = browses[b].state.cache[i].ttl /\ c.entry.ttl \in Nat \ {0}
           /\ \A c \in browses[b].rmv : \E i \in Instance \ DOMAIN browses[b].state.entries :
                 c.key[1] = b[2] /\ c.key[2] = i
<1>1. b[1] \in DOMAIN listeners /\ b[2] \in Service /\ listeners[b[1]].table \in DOMAIN tables
  BY DEF Shaped, BrowsesShaped, ListenersShaped, ListenerShaped, Browse
<1> DEFINE w == browses[b]
<1>2. StateShaped(w.state, now) /\ BrowseShaped(b, w)
  BY DEF Shaped, BrowsesShaped
<1> HIDE DEF w
<1>3. ASSUME NEW c \in w.add
      PROVE  \E i \in DOMAIN w.state.entries :
                 /\ c = Call(b, i, w.state.entries[i])
                 /\ c.key = <<b[2], i, w.state.entries[i].host>> /\ c.key \in Key
                 /\ c.entry.ttl = w.state.cache[i].ttl /\ c.entry.ttl \in Nat \ {0}
  <2>1. PICK i \in DOMAIN w.state.entries :
                 c = Call(b, i, w.state.entries[i]) /\ Resolvable(w.state.entries[i])
    BY <1>2 DEF BrowseShaped
  <2>2. /\ i \in Instance /\ w.state.entries[i] \in Entry /\ w.state.cache[i] \in CacheRecord
        /\ w.state.entries[i].ttl = w.state.cache[i].ttl
    BY <1>2 DEF StateShaped
  <2>3. w.state.entries[i].host \in Host /\ w.state.cache[i].ttl \in TTL
    BY <2>1, <2>2 DEF Entry, CacheRecord, Resolvable
  <2>4. c.key = <<b[2], i, w.state.entries[i].host>> /\ c.entry = w.state.entries[i]
    BY <2>1 DEF Call
  <2>5. c.key \in Key
    BY <1>1, <2>2, <2>3, <2>4 DEF Key
  <2>6. w.state.cache[i].ttl \in Nat \ {0}
    BY <2>3, TTLAssumption
  <2> QED
    BY <2>1, <2>2, <2>4, <2>5, <2>6
<1>4. ASSUME NEW c \in w.rmv
      PROVE  \E i \in Instance \ DOMAIN w.state.entries : c.key[1] = b[2] /\ c.key[2] = i
  <2>1. PICK i \in Instance \ DOMAIN w.state.entries, e \in Entry : c = Call(b, i, e)
    BY <1>2 DEF BrowseShaped
  <2> QED
    BY <2>1 DEF Call
<1> QED
  BY <1>1, <1>3, <1>4 DEF w

\* What the GUI's approval does to its table.
LEMMA PublishedSet ==
    ASSUME Shaped, NEW n, NEW approve, SetPublished(n, approve)
    PROVE  \E u : /\ gui \in DOMAIN tables /\ TableShaped(u)
                  /\ tables' = [tables EXCEPT ![gui] = u]
                  /\ u.cfg = tables[gui].cfg
                  /\ DOMAIN u.entries = DOMAIN tables[gui].entries
                  /\ \A k \in DOMAIN u.entries :
                        /\ u.entries[k].ttl = tables[gui].entries[k].ttl
                        /\ u.entries[k].lastSeen = tables[gui].entries[k].lastSeen
                        /\ \/ u.entries[k] = tables[gui].entries[k]
                           \/ u.entries[k].served = Derived(u.cfg, k, u.entries[k])
<1> DEFINE t == tables[gui]
           hit == {k \in DOMAIN t.entries : t.entries[k].served.name = n}
           with(k) == [t.entries[k] EXCEPT !.manual = approve]
           approved(k) == Rederive(t.cfg, k, with(k))
           w == [k \in hit |-> approved(k)]
           u == [t EXCEPT !.entries = Over(w, t.entries)]
<1>1. gui \in DOMAIN tables /\ TableShaped(t)
  BY TableInUse DEF SetPublished, Shaped, TablesShaped
<1>2. tables' = [tables EXCEPT ![gui] = u]
  BY DEF SetPublished
<1>3. DOMAIN u = {"cfg", "entries"} /\ u.cfg = t.cfg /\ u.entries = Over(w, t.entries)
  BY <1>1 DEF TableShaped
<1>4. DOMAIN w = hit /\ \A k \in hit : w[k] = approved(k)
  OBVIOUS
<1>5. ASSUME NEW k \in hit
      PROVE  /\ DOMAIN approved(k) = {"addrs", "ttl", "manual", "lastSeen", "served"}
             /\ approved(k).ttl = t.entries[k].ttl /\ approved(k).lastSeen = t.entries[k].lastSeen
             /\ approved(k).served = Derived(t.cfg, k, approved(k))
  <2> DEFINE e == t.entries[k]
             f == [e EXCEPT !.manual = approve]
  <2>1. DOMAIN e = {"addrs", "ttl", "manual", "lastSeen", "served"}
    BY <1>1 DEF TableShaped
  <2>2. approved(k) = Rederive(t.cfg, k, f)
    OBVIOUS
  <2> HIDE DEF e, approved
  <2>3. DOMAIN f = {"addrs", "ttl", "manual", "lastSeen", "served"} /\ f.ttl = e.ttl /\ f.lastSeen = e.lastSeen
    BY <2>1
  <2> HIDE DEF f
  <2> QED
    BY <2>2, <2>3, RederivedServed DEF e
<1> HIDE DEF u, w, approved, t
<1>6. /\ DOMAIN Over(w, t.entries) = DOMAIN w \cup DOMAIN t.entries
      /\ \A j \in DOMAIN w : Over(w, t.entries)[j] = w[j]
      /\ \A j \in DOMAIN t.entries \ DOMAIN w : Over(w, t.entries)[j] = t.entries[j]
  BY Overwritten, Zenon
<1>7. /\ DOMAIN u.entries = DOMAIN t.entries
      /\ \A k \in hit : u.entries[k] = approved(k)
      /\ \A k \in DOMAIN t.entries \ hit : u.entries[k] = t.entries[k]
  BY <1>3, <1>4, <1>6
<1> HIDE DEF hit
<1>8. TableShaped(u)
  BY <1>1, <1>3, <1>5, <1>7 DEF TableShaped
<1>9. \A k \in DOMAIN u.entries :
         /\ u.entries[k].ttl = t.entries[k].ttl
         /\ u.entries[k].lastSeen = t.entries[k].lastSeen
         /\ \/ u.entries[k] = t.entries[k]
            \/ u.entries[k].served = Derived(u.cfg, k, u.entries[k])
  BY <1>3, <1>5, <1>7
<1> QED
  BY <1>1, <1>2, <1>3, <1>7, <1>8, <1>9 DEF t

\* What a step may do to a table: an entry it has afterwards it had before, seen
\* when it was, or is one a browse reports, seen now.
EntriesKept(t, u) ==
    \A k \in DOMAIN u.entries :
        \/ /\ k \in DOMAIN t.entries
           /\ u.entries[k].ttl = t.entries[k].ttl /\ u.entries[k].lastSeen = t.entries[k].lastSeen
        \/ /\ u.entries[k].lastSeen = now
           /\ \E b \in DOMAIN browses : \E c \in browses[b].add : c.key = k

TablesMove ==
    /\ Len(tables) <= Len(tables')
    /\ \A t \in DOMAIN tables' :
        IF t \in DOMAIN tables THEN EntriesKept(tables[t], tables'[t]) ELSE DOMAIN tables'[t].entries = {}

\* Every step leaves tables of discovered entries, and moves them so.
LEMMA TablesStep == Shaped /\ ListenerInv /\ [Next]_vars => TablesShaped' /\ TablesMove
<1> SUFFICES ASSUME Shaped, ListenerInv, [Next]_vars PROVE TablesShaped' /\ TablesMove
  OBVIOUS
<1>0. TablesShaped /\ Len(tables) \in Nat /\ DOMAIN tables = 1 .. Len(tables) /\ now \in Nat
  BY TableInUse, BoundsAssumption DEF Shaped, FilesShaped
<1>1. ASSUME tables' = tables, {gui', handler'} \subseteq {gui, handler, 0} PROVE TablesShaped' /\ TablesMove
  <2>1. TablesShaped'
    BY <1>0, <1>1 DEF TablesShaped
  <2>2. \A t \in DOMAIN tables : EntriesKept(tables[t], tables[t])
    BY DEF EntriesKept
  <2> QED
    BY <1>0, <1>1, <2>1, <2>2 DEF TablesMove
<1>2. ASSUME NEW t \in DOMAIN tables, NEW u, TableShaped(u), tables' = [tables EXCEPT ![t] = u],
             EntriesKept(tables[t], u), UNCHANGED <<gui, handler>>
      PROVE  TablesShaped' /\ TablesMove
  <2>1. /\ tables' \in Seq(Range(tables')) /\ Len(tables') = Len(tables)
        /\ DOMAIN tables' = DOMAIN tables
        /\ \A d \in DOMAIN tables' : TableShaped(tables'[d])
        /\ tables'[t] = u /\ \A d \in DOMAIN tables \ {t} : tables'[d] = tables[d]
    BY <1>0, <1>2, TableReplaced
  <2>2. TablesShaped'
    BY <1>0, <1>2, <2>1 DEF TablesShaped
  <2>3. \A d \in DOMAIN tables : EntriesKept(tables[d], tables[d])
    BY DEF EntriesKept
  <2>4. \A d \in DOMAIN tables : EntriesKept(tables[d], tables'[d])
    BY <1>2, <2>1, <2>3
  <2> QED
    BY <1>0, <2>1, <2>2, <2>4 DEF TablesMove
<1>3. ASSUME NEW b \in DOMAIN browses, AddInstance(b) PROVE TablesShaped' /\ TablesMove
  <2> DEFINE t == listeners[b[1]].table
  <2>1. PICK c \in browses[b].add : tables' = [tables EXCEPT ![t] = Upsert(@, c.key, c.entry)]
    BY <1>3 DEF AddInstance
  <2>2. t \in DOMAIN tables /\ c.key \in Key /\ c.entry.ttl \in Nat
    BY ReportTyped
  <2> HIDE DEF t
  <2> DEFINE T == tables[t]
             u == Upsert(T, c.key, c.entry)
  <2>3. TableShaped(T)
    BY <1>0, <2>2 DEF TablesShaped
  <2> HIDE DEF T
  <2>4. /\ TableShaped(u) /\ DOMAIN u.entries = DOMAIN T.entries \cup {c.key}
        /\ \A j \in DOMAIN T.entries \ {c.key} : u.entries[j] = T.entries[j]
        /\ u.entries[c.key].lastSeen = now
    BY <1>0, <2>2, <2>3, Upserted
  <2>5. tables' = [tables EXCEPT ![t] = u]
    BY <2>1 DEF T
  <2> HIDE DEF u
  <2>6. EntriesKept(T, u)
    BY <2>4 DEF EntriesKept
  <2>7. UNCHANGED <<gui, handler>>
    BY <1>3 DEF AddInstance, serviceVars
  <2> QED
    BY <1>2, <2>2, <2>4, <2>5, <2>6, <2>7 DEF T
<1>4. ASSUME NEW t \in DOMAIN tables, NEW S, S \subseteq DOMAIN tables[t].entries,
             tables' = [tables EXCEPT ![t] = [tables[t] EXCEPT !.entries = Restrict(tables[t].entries, S)]],
             UNCHANGED <<gui, handler>>
      PROVE  TablesShaped' /\ TablesMove
  <2> DEFINE T == tables[t]
             u == [T EXCEPT !.entries = Restrict(T.entries, S)]
  <2>1. TableShaped(T) /\ S \subseteq DOMAIN T.entries /\ tables' = [tables EXCEPT ![t] = u]
    BY <1>0, <1>4 DEF TablesShaped
  <2> HIDE DEF T
  <2>2. TableShaped(u) /\ DOMAIN u.entries = S /\ \A j \in S : u.entries[j] = T.entries[j]
    BY <2>1, Lost
  <2> HIDE DEF u
  <2>3. EntriesKept(T, u)
    BY <2>1, <2>2 DEF EntriesKept
  <2> QED
    BY <1>2, <1>4, <2>1, <2>2, <2>3 DEF T
<1>5. ASSUME NEW b \in DOMAIN browses, RemoveInstance(b) PROVE TablesShaped' /\ TablesMove
  <2> DEFINE t == listeners[b[1]].table
  <2>1. PICK c \in browses[b].rmv : tables' = [tables EXCEPT ![t] = Remove(@, c.key)]
    BY <1>5 DEF RemoveInstance
  <2> DEFINE S == DOMAIN tables[t].entries \ {c.key}
  <2>2. t \in DOMAIN tables /\ S \subseteq DOMAIN tables[t].entries
    BY ReportTyped
  <2>3. tables' = [tables EXCEPT ![t] = [tables[t] EXCEPT !.entries = Restrict(tables[t].entries, S)]]
    BY <2>1 DEF Remove
  <2>4. UNCHANGED <<gui, handler>>
    BY <1>5 DEF RemoveInstance, serviceVars
  <2> HIDE DEF t, S
  <2> QED
    BY <1>4, <2>2, <2>3, <2>4
<1>6. ASSUME NEW l \in DOMAIN listeners, ExpireTable(l) PROVE TablesShaped' /\ TablesMove
  <2> DEFINE t == listeners[l].table
  <2>1. tables' = [tables EXCEPT ![t] = [tables[t] EXCEPT !.entries = Restrict(tables[t].entries, Live(tables[t]))]]
    BY <1>6 DEF ExpireTable, Expire
  <2>2. t \in DOMAIN tables /\ Live(tables[t]) \subseteq DOMAIN tables[t].entries
    BY DEF Shaped, ListenersShaped, ListenerShaped, Live
  <2>3. UNCHANGED <<gui, handler>>
    BY <1>6 DEF ExpireTable, serviceVars
  <2> HIDE DEF t
  <2> QED
    BY <1>4, <2>1, <2>2, <2>3
<1>7. ASSUME NEW x \in Setting, SaveSettings(x) PROVE TablesShaped' /\ TablesMove
  <2>1. CASE ~(x.enabled /\ gui = 0)
    BY <1>1, <1>7, <2>1 DEF SaveSettings
  <2>2. CASE x.enabled /\ gui = 0
    <3> DEFINE u == NewTable(Build(disk'))
    <3>1. tables' = Append(tables, u) /\ gui' = Len(tables) + 1 /\ handler' = handler
      BY <1>7, <2>2 DEF SaveSettings
    <3>2. TableShaped(u) /\ DOMAIN u.entries = {}
      BY DEF NewTable, TableShaped
    <3> HIDE DEF u
    <3>3. /\ tables' \in Seq(Range(tables')) /\ Len(tables') = Len(tables) + 1
          /\ DOMAIN tables' = DOMAIN tables \cup {Len(tables) + 1}
          /\ \A d \in DOMAIN tables : tables'[d] = tables[d]
          /\ tables'[Len(tables) + 1] = u
      BY <1>0, <3>1, SeqAppended DEF TablesShaped
    <3>4. TablesShaped'
      BY <1>0, <3>1, <3>2, <3>3 DEF TablesShaped
    <3>5. \A d \in DOMAIN tables : EntriesKept(tables[d], tables[d])
      BY DEF EntriesKept
    <3> QED
      BY <1>0, <3>2, <3>3, <3>4, <3>5 DEF TablesMove
  <2> QED
    BY <2>1, <2>2
<1>8. CASE RefreshMDNS
  <2>1. CASE gui = 0
    BY <1>1, <1>8, <2>1 DEF RefreshMDNS
  <2>2. CASE gui # 0
    <3> DEFINE T == tables[gui]
               u == SetConfig(T, Build(disk))
    <3>1. gui \in DOMAIN tables /\ TableShaped(T)
      BY <1>0, <2>2, TableInUse DEF TablesShaped
    <3>2. tables' = [tables EXCEPT ![gui] = u] /\ UNCHANGED <<gui, handler>>
      BY <1>8, <2>2 DEF RefreshMDNS
    <3> HIDE DEF T
    <3>3. /\ TableShaped(u) /\ DOMAIN u.entries = DOMAIN T.entries
          /\ \A k \in DOMAIN T.entries : /\ u.entries[k].ttl = T.entries[k].ttl
                                         /\ u.entries[k].lastSeen = T.entries[k].lastSeen
      BY <3>1, Configured
    <3> HIDE DEF u
    <3>4. EntriesKept(T, u)
      BY <3>3 DEF EntriesKept
    <3> QED
      BY <1>2, <3>1, <3>2, <3>3, <3>4 DEF T
  <2> QED
    BY <2>1, <2>2
<1>9. CASE RestartListener
  <2> DEFINE T == tables[gui]
             u == [T EXCEPT !.entries = <<>>]
  <2>1. tables' = [tables EXCEPT ![gui] = u] /\ UNCHANGED <<gui, handler>> /\ gui # 0
    BY <1>9 DEF RestartListener, ListenerInv
  <2>2. gui \in DOMAIN tables /\ TableShaped(T)
    BY <1>0, <2>1, TableInUse DEF TablesShaped
  <2> HIDE DEF T
  <2>3. TableShaped(u) /\ EntriesKept(T, u)
    BY <2>2 DEF TableShaped, EntriesKept
  <2> HIDE DEF u
  <2> QED
    BY <1>2, <2>1, <2>2, <2>3 DEF T
<1>10. ASSUME NEW n, NEW approve, SetPublished(n, approve) PROVE TablesShaped' /\ TablesMove
  <2>1. PICK u : /\ gui \in DOMAIN tables /\ TableShaped(u)
                 /\ tables' = [tables EXCEPT ![gui] = u]
                 /\ DOMAIN u.entries = DOMAIN tables[gui].entries
                 /\ \A k \in DOMAIN u.entries :
                       /\ u.entries[k].ttl = tables[gui].entries[k].ttl
                       /\ u.entries[k].lastSeen = tables[gui].entries[k].lastSeen
    BY <1>10, PublishedSet
  <2>2. EntriesKept(tables[gui], u)
    BY <2>1 DEF EntriesKept
  <2>3. UNCHANGED <<gui, handler>>
    BY <1>10 DEF SetPublished, serviceVars
  <2> QED
    BY <1>2, <2>1, <2>2, <2>3
<1>11. ASSUME NEW ok \in BOOLEAN, Reload(ok) PROVE TablesShaped' /\ TablesMove
  <2>1. tables' = tables /\ gui' = gui /\ handler' \in {gui, handler, 0}
    BY <1>11 DEF Reload
  <2> QED
    BY <1>1, <2>1
<1>12. CASE StopMDNS
  BY <1>1, <1>12 DEF StopMDNS
<1>13. ASSUME NEW b, NEW m, Hear(b, m) \/ PollBrowse(b) \/ BrowseFails(b) \/ BrowseLeaves(b)
       PROVE  UNCHANGED <<tables, gui, handler>>
  BY <1>13 DEF Hear, PollBrowse, BrowseFails, BrowseLeaves, serviceVars
<1>14. ASSUME NEW l, NEW z, HearType(l, z) \/ TypesLeave(l) PROVE UNCHANGED <<tables, gui, handler>>
  BY <1>14 DEF HearType, TypesLeave, serviceVars
<1>15. ASSUME NEW x, NEW n, RejectSettings(x) \/ PromoteMDNS(n) \/ DeleteRecord(n) \/ RestartEngine \/ FirstStart
       PROVE  UNCHANGED <<tables, gui, handler>>
  BY <1>15 DEF RejectSettings, PromoteMDNS, DeleteRecord, ApplyRecords, RestartEngine, FirstStart
<1>16. ASSUME Tick \/ UNCHANGED vars PROVE UNCHANGED <<tables, gui, handler>>
  BY <1>16 DEF Tick, vars, serviceVars
<1> QED
  BY <1>1, <1>3, <1>5, <1>6, <1>7, <1>8, <1>9, <1>10, <1>11, <1>12, <1>13, <1>14, <1>15, <1>16
     DEF Next, BrowseStep, ListenerStep, ServiceStep

\* Every step leaves listeners that feed a table, and never drops one.
LEMMA ListenersStep ==
    Shaped /\ ListenerInv /\ [Next]_vars =>
        /\ ListenersShaped' /\ Len(listeners) <= Len(listeners')
        /\ DOMAIN listeners \subseteq DOMAIN listeners'
<1> DEFINE Goal == /\ ListenersShaped' /\ Len(listeners) <= Len(listeners')
                   /\ DOMAIN listeners \subseteq DOMAIN listeners'
<1> SUFFICES ASSUME Shaped, ListenerInv, [Next]_vars PROVE Goal
  OBVIOUS
<1>0. /\ ListenersShaped /\ Len(listeners) \in Nat /\ DOMAIN listeners = 1 .. Len(listeners)
      /\ listeners \in Seq(Range(listeners)) /\ current \in 0 .. Len(listeners)
  BY DEF Shaped, ListenersShaped
<1>1. DOMAIN tables \subseteq DOMAIN tables' /\ (gui # 0 => gui \in DOMAIN tables)
  <2>1. TablesShaped /\ TablesShaped' /\ Len(tables) <= Len(tables')
    BY TablesStep DEF Shaped, TablesMove
  <2>2. DOMAIN tables = 1 .. Len(tables) /\ DOMAIN tables' = 1 .. Len(tables')
        /\ Len(tables) \in Nat /\ Len(tables') \in Nat
    BY <2>1 DEF TablesShaped
  <2> QED
    BY <2>1, <2>2, TableInUse
<1>3. ASSUME UNCHANGED <<listeners, current>> PROVE Goal
  <2>1. \A l \in DOMAIN listeners' : ListenerShaped(listeners[l])'
    BY <1>0, <1>1, <1>3 DEF ListenersShaped, ListenerShaped
  <2>2. ListenersShaped'
    BY <1>0, <1>3, <2>1 DEF ListenersShaped
  <2> QED
    BY <1>0, <1>3, <2>2
<1>4. ASSUME NEW s, NEW l \in DOMAIN listeners, NEW x, s = [listeners EXCEPT ![l] = x],
             DOMAIN x = {"table", "params", "types", "on"}, x.table = listeners[l].table
      PROVE  /\ s \in Seq(Range(s)) /\ Len(s) = Len(listeners) /\ DOMAIN s = DOMAIN listeners
             /\ \A k \in DOMAIN s : DOMAIN s[k] = {"table", "params", "types", "on"} /\ s[k].table \in DOMAIN tables
  <2>1. /\ s \in Seq(Range(s)) /\ Len(s) = Len(listeners) /\ DOMAIN s = DOMAIN listeners
        /\ s[l] = x /\ \A j \in DOMAIN listeners \ {l} : s[j] = listeners[j]
    BY <1>0, <1>4, SeqReplaced
  <2> QED
    BY <1>0, <1>4, <2>1 DEF ListenersShaped, ListenerShaped
<1>5. ASSUME current # 0
      PROVE  LET s == Cancel(current)
             IN /\ s \in Seq(Range(s)) /\ Len(s) = Len(listeners) /\ DOMAIN s = DOMAIN listeners
                /\ \A k \in DOMAIN s : DOMAIN s[k] = {"table", "params", "types", "on"} /\ s[k].table \in DOMAIN tables
  <2> DEFINE o == listeners[current]
             x == [o EXCEPT !.on = FALSE]
  <2>1. current \in DOMAIN listeners /\ Cancel(current) = [listeners EXCEPT ![current] = x]
    BY <1>0, <1>5 DEF Cancel
  <2>2. DOMAIN o = {"table", "params", "types", "on"}
    BY <1>0, <2>1 DEF ListenersShaped, ListenerShaped
  <2> HIDE DEF o
  <2>3. DOMAIN x = {"table", "params", "types", "on"} /\ x.table = o.table
    BY <2>2
  <2> HIDE DEF x
  <2> QED
    BY <1>4, <2>1, <2>3 DEF o
<1>6. ASSUME NEW l, TypesLeave(l) PROVE Goal
  <2> DEFINE o == listeners[l]
             x == [o EXCEPT !.types = FALSE]
  <2>1. l \in DOMAIN listeners /\ listeners' = [listeners EXCEPT ![l] = x] /\ current' = current
    BY <1>6 DEF TypesLeave
  <2>2. DOMAIN o = {"table", "params", "types", "on"}
    BY <1>0, <2>1 DEF ListenersShaped, ListenerShaped
  <2> HIDE DEF o
  <2>3. DOMAIN x = {"table", "params", "types", "on"} /\ x.table = o.table
    BY <2>2
  <2> HIDE DEF x
  <2>4. /\ listeners' \in Seq(Range(listeners')) /\ Len(listeners') = Len(listeners)
        /\ DOMAIN listeners' = DOMAIN listeners
        /\ \A k \in DOMAIN listeners' : /\ DOMAIN listeners'[k] = {"table", "params", "types", "on"}
                                        /\ listeners'[k].table \in DOMAIN tables
    BY <1>4, <2>1, <2>3 DEF o
  <2> QED
    BY <1>0, <1>1, <2>1, <2>4 DEF ListenersShaped, ListenerShaped
<1>7. CASE StopMDNS
  <2>1. CASE current = 0
    BY <1>3, <1>7, <2>1 DEF StopMDNS
  <2>2. CASE current # 0
    <3>1. listeners' = Cancel(current) /\ current' = 0
      BY <1>7, <2>2 DEF StopMDNS
    <3> QED
      BY <1>0, <1>1, <1>5, <2>2, <3>1 DEF ListenersShaped, ListenerShaped
  <2> QED
    BY <2>1, <2>2
<1>8. ASSUME NEW s, s \in Seq(Range(s)), Len(s) = Len(listeners), DOMAIN s = DOMAIN listeners,
             \A k \in DOMAIN s : DOMAIN s[k] = {"table", "params", "types", "on"} /\ s[k].table \in DOMAIN tables,
             gui # 0, StartMDNS(gui, disk.settings, s)
      PROVE  Goal
  <2> DEFINE x == [table |-> gui, params |-> BrowseParams(disk.settings), types |-> disk.settings.dynamic, on |-> TRUE]
  <2>1. listeners' = Append(s, x) /\ current' = Len(s) + 1
    BY <1>8 DEF StartMDNS
  <2>2. DOMAIN x = {"table", "params", "types", "on"} /\ x.table = gui
    OBVIOUS
  <2> HIDE DEF x
  <2>3. /\ listeners' \in Seq(Range(listeners')) /\ Len(listeners') = Len(s) + 1
        /\ DOMAIN listeners' = DOMAIN s \cup {Len(s) + 1}
        /\ \A i \in DOMAIN s : listeners'[i] = s[i]
        /\ listeners'[Len(s) + 1] = x
    BY <1>8, <2>1, SeqAppended
  <2> QED
    BY <1>0, <1>1, <1>8, <2>1, <2>2, <2>3 DEF ListenersShaped, ListenerShaped
<1>9. CASE FirstStart
  <2>1. StartMDNS(gui, disk.settings, listeners) /\ save # Idle /\ disk.settings.enabled
    BY <1>9 DEF FirstStart, Idle
  <2>2. gui # 0
    BY <2>1 DEF ListenerInv
  <2>3. \A k \in DOMAIN listeners : /\ DOMAIN listeners[k] = {"table", "params", "types", "on"}
                                    /\ listeners[k].table \in DOMAIN tables
    BY <1>0 DEF ListenersShaped, ListenerShaped
  <2> QED
    BY <1>0, <1>8, <2>1, <2>2, <2>3
<1>10. CASE RestartListener
  <2>1. StartMDNS(gui, disk.settings, Cancel(current)) /\ current # 0 /\ gui # 0
    BY <1>10 DEF RestartListener, ListenerInv
  <2> DEFINE s == Cancel(current)
  <2>2. /\ s \in Seq(Range(s)) /\ Len(s) = Len(listeners) /\ DOMAIN s = DOMAIN listeners
        /\ \A k \in DOMAIN s : DOMAIN s[k] = {"table", "params", "types", "on"} /\ s[k].table \in DOMAIN tables
    BY <1>5, <2>1
  <2> HIDE DEF s
  <2> QED
    BY <1>8, <2>1, <2>2 DEF s
<1>11. ASSUME NEW b, BrowseStep(b) PROVE UNCHANGED <<listeners, current>>
  BY <1>11 DEF BrowseStep, Hear, PollBrowse, AddInstance, RemoveInstance, BrowseFails, BrowseLeaves, serviceVars
<1>12. ASSUME NEW l, NEW z, HearType(l, z) \/ ExpireTable(l) PROVE UNCHANGED <<listeners, current>>
  BY <1>12 DEF HearType, ExpireTable, serviceVars
<1>13. ASSUME NEW x, NEW n, SaveSettings(x) \/ RejectSettings(x) \/ PromoteMDNS(n) \/ DeleteRecord(n) \/ RestartEngine
       PROVE  UNCHANGED <<listeners, current>>
  BY <1>13 DEF SaveSettings, RejectSettings, PromoteMDNS, DeleteRecord, ApplyRecords, RestartEngine
<1>14. ASSUME NEW n, NEW q, Reload(q) \/ RefreshMDNS \/ SetPublished(n, q) \/ Tick \/ UNCHANGED vars
       PROVE  UNCHANGED <<listeners, current>>
  BY <1>14 DEF Reload, RefreshMDNS, SetPublished, Tick, vars, serviceVars
<1> HIDE DEF Goal
<1> QED
  BY <1>3, <1>6, <1>7, <1>9, <1>10, <1>11, <1>12, <1>13, <1>14 DEF Next, ListenerStep, ServiceStep

\* A message that is taken by a browse.
LEMMA Heard ==
    ASSUME Shaped, NEW b \in DOMAIN browses, NEW m \in Message, Hear(b, m)
    PROVE  LET w == browses[b]
               v == browses'[b]
               r == Ingest(w.state, m, now)
           IN /\ v = [w EXCEPT !.state = r.state, !.add = {Call(b, i, r.state.entries[i]) : i \in r.added},
                               !.rmv = {Call(b, i, w.state.entries[i]) : i \in r.removed}]
              /\ browses' = [browses EXCEPT ![b] = v]
              /\ v.at = w.at /\ v.polled = w.polled /\ v.state = r.state
              /\ v.add = {Call(b, i, r.state.entries[i]) : i \in r.added}
              /\ StateShaped(v.state, now) /\ BrowseShaped(b, v)
              /\ w.at = "run" /\ w.add = {} /\ w.rmv = {}
<1> DEFINE w == browses[b]
           r == Ingest(w.state, m, now)
           add == {Call(b, i, r.state.entries[i]) : i \in r.added}
           rmv == {Call(b, i, w.state.entries[i]) : i \in r.removed}
           v == [w EXCEPT !.state = r.state, !.add = add, !.rmv = rmv]
<1>1. browses' = [browses EXCEPT ![b] = v]
  BY DEF Hear
<1>2. w.at = "run" /\ w.add = {} /\ w.rmv = {}
  BY DEF Hear, Waiting
<1>3. StateShaped(w.state, now) /\ DOMAIN w = {"at", "state", "add", "rmv", "polled"} /\ now \in Nat
  BY BoundsAssumption DEF Shaped, BrowsesShaped, BrowseShaped, FilesShaped
<1>4. Parsed(m)
  BY MessageAssumption
<1> DEFINE st == w.state
<1> HIDE DEF w, st
<1>5. /\ StateShaped(r.state, now)
      /\ r.added \subseteq DOMAIN r.state.entries
      /\ \A i \in r.added : Resolvable(r.state.entries[i])
      /\ r.removed \subseteq DOMAIN w.state.entries \ DOMAIN r.state.entries
  <2>1. StateShaped(st, now)
    BY <1>3 DEF st
  <2> QED
    BY <1>3, <1>4, <2>1, Ingested DEF st
<1>6. \A i \in r.removed : i \in Instance /\ w.state.entries[i] \in Entry
  BY <1>3, <1>5 DEF StateShaped
<1> HIDE DEF r, add, rmv
<1>7. /\ DOMAIN v = {"at", "state", "add", "rmv", "polled"}
      /\ v.at = w.at /\ v.polled = w.polled /\ v.state = r.state /\ v.add = add /\ v.rmv = rmv
  BY <1>3
<1> HIDE DEF v
<1>8. BrowseShaped(b, v)
  <2>1. \A c \in v.add : \E i \in DOMAIN v.state.entries :
            c = Call(b, i, v.state.entries[i]) /\ Resolvable(v.state.entries[i])
    BY <1>5, <1>7 DEF add
  <2>2. \A c \in v.rmv : \E i \in Instance \ DOMAIN v.state.entries, e \in Entry : c = Call(b, i, e)
    BY <1>5, <1>6, <1>7 DEF rmv
  <2> QED
    BY <1>2, <1>7, <2>1, <2>2 DEF BrowseShaped
<1>9. browses'[b] = v
  BY <1>1
<1> QED
  BY <1>1, <1>2, <1>5, <1>7, <1>8, <1>9 DEF w, v, r, add, rmv

\* A poll of a browse.
LEMMA PolledOnce ==
    ASSUME Shaped, NEW b \in DOMAIN browses, PollBrowse(b)
    PROVE  LET w == browses[b]
               v == browses'[b]
               r == Poll(w.state, now)
           IN /\ browses' = [browses EXCEPT ![b] = v]
              /\ v.at = w.at /\ v.polled = TRUE /\ v.state = r.state /\ v.add = {}
              /\ StateShaped(v.state, now) /\ BrowseShaped(b, v)
              /\ w.at = "run" /\ w.add = {} /\ w.rmv = {}
<1> DEFINE w == browses[b]
           r == Poll(w.state, now)
           rmv == {Call(b, i, w.state.entries[i]) : i \in r.removed}
           v == [w EXCEPT !.state = r.state, !.polled = TRUE, !.rmv = rmv]
<1>1. browses' = [browses EXCEPT ![b] = v]
  BY DEF PollBrowse
<1>2. w.at = "run" /\ w.add = {} /\ w.rmv = {}
  BY DEF PollBrowse, Waiting
<1>3. StateShaped(w.state, now) /\ DOMAIN w = {"at", "state", "add", "rmv", "polled"} /\ now \in Nat
  BY BoundsAssumption DEF Shaped, BrowsesShaped, BrowseShaped, FilesShaped
<1> DEFINE st == w.state
<1> HIDE DEF w, st
<1>4. /\ StateShaped(r.state, now)
      /\ r.removed \subseteq DOMAIN w.state.entries \ DOMAIN r.state.entries
  <2>1. StateShaped(st, now)
    BY <1>3 DEF st
  <2> QED
    BY <1>3, <2>1, Polled DEF st
<1>5. \A i \in r.removed : i \in Instance /\ w.state.entries[i] \in Entry
  BY <1>3, <1>4 DEF StateShaped
<1> HIDE DEF r, rmv
<1>6. /\ DOMAIN v = {"at", "state", "add", "rmv", "polled"}
      /\ v.at = w.at /\ v.polled = TRUE /\ v.state = r.state /\ v.add = {} /\ v.rmv = rmv
  BY <1>2, <1>3
<1> HIDE DEF v
<1>7. BrowseShaped(b, v)
  <2>1. \A c \in v.rmv : \E i \in Instance \ DOMAIN v.state.entries, e \in Entry : c = Call(b, i, e)
    BY <1>4, <1>5, <1>6 DEF rmv
  <2> QED
    BY <1>2, <1>6, <2>1 DEF BrowseShaped
<1>8. browses'[b] = v
  BY <1>1
<1> QED
  BY <1>1, <1>2, <1>4, <1>6, <1>7, <1>8 DEF w, r

\* A report that is made, and a browse that ends, leave the browse as it was
\* otherwise.
LEMMA Reported ==
    ASSUME Shaped, NEW b \in DOMAIN browses,
           AddInstance(b) \/ RemoveInstance(b) \/ BrowseFails(b) \/ BrowseLeaves(b)
    PROVE  LET w == browses[b]
               v == browses'[b]
           IN /\ browses' = [browses EXCEPT ![b] = v]
              /\ v.polled = w.polled /\ v.state = w.state /\ v.add \subseteq w.add
              /\ v.at = "run" => w.at = "run"
              /\ StateShaped(v.state, now) /\ BrowseShaped(b, v)
<1> DEFINE w == browses[b]
<1>1. StateShaped(w.state, now) /\ BrowseShaped(b, w) /\ DOMAIN w = {"at", "state", "add", "rmv", "polled"}
  BY DEF Shaped, BrowsesShaped, BrowseShaped
<1>3. CASE AddInstance(b)
  <2>1. PICK c \in w.add : browses' = [browses EXCEPT ![b].add = @ \ {c}]
    BY <1>3 DEF AddInstance
  <2> DEFINE v == [w EXCEPT !.add = @ \ {c}]
  <2>2. browses' = [browses EXCEPT ![b] = v]
    BY <2>1
  <2> HIDE DEF w
  <2>3. /\ DOMAIN v = DOMAIN w /\ v.polled = w.polled /\ v.state = w.state /\ v.at = w.at
        /\ v.add \subseteq w.add /\ v.rmv \subseteq w.rmv
    BY <1>1
  <2> HIDE DEF v
  <2>4. browses'[b] = v
    BY <2>2
  <2>5. BrowseShaped(b, v) /\ StateShaped(v.state, now)
    BY <1>1, <2>3 DEF BrowseShaped
  <2> QED
    BY <2>2, <2>3, <2>4, <2>5 DEF w
<1>4. CASE RemoveInstance(b)
  <2>1. PICK c \in w.rmv : browses' = [browses EXCEPT ![b].rmv = @ \ {c}]
    BY <1>4 DEF RemoveInstance
  <2> DEFINE v == [w EXCEPT !.rmv = @ \ {c}]
  <2>2. browses' = [browses EXCEPT ![b] = v]
    BY <2>1
  <2> HIDE DEF w
  <2>3. /\ DOMAIN v = DOMAIN w /\ v.polled = w.polled /\ v.state = w.state /\ v.at = w.at
        /\ v.add \subseteq w.add /\ v.rmv \subseteq w.rmv
    BY <1>1
  <2> HIDE DEF v
  <2>4. browses'[b] = v
    BY <2>2
  <2>5. BrowseShaped(b, v) /\ StateShaped(v.state, now)
    BY <1>1, <2>3 DEF BrowseShaped
  <2> QED
    BY <2>2, <2>3, <2>4, <2>5 DEF w
<1>5. CASE BrowseFails(b) \/ BrowseLeaves(b)
  <2> DEFINE v == [w EXCEPT !.at = "ended"]
  <2>1. browses' = [browses EXCEPT ![b] = v] /\ w.at = "run" /\ w.add = {} /\ w.rmv = {}
    BY <1>5 DEF BrowseFails, BrowseLeaves, Waiting
  <2> HIDE DEF w
  <2>2. DOMAIN v = DOMAIN w /\ v.polled = w.polled /\ v.state = w.state /\ v.add = w.add /\ v.rmv = w.rmv
    BY <1>1
  <2> HIDE DEF v
  <2>3. BrowseShaped(b, v) /\ StateShaped(v.state, now)
    BY <1>1, <2>1, <2>2 DEF BrowseShaped
  <2>4. browses'[b] = v
    BY <2>1
  <2> QED
    BY <2>1, <2>2, <2>3, <2>4 DEF w
<1> QED
  BY <1>3, <1>4, <1>5

\* A listener that starts adds browses that know nothing yet, and no others.
LEMMA Started ==
    ASSUME NEW new, browses' = Over([b \in new |-> NewBrowse], browses),
           asked' = Over([b \in new |-> {}], asked), DOMAIN asked = DOMAIN browses
    PROVE  /\ DOMAIN browses' = new \cup DOMAIN browses /\ DOMAIN asked' = DOMAIN browses'
           /\ \A b \in new : browses'[b] = NewBrowse /\ asked'[b] = {}
           /\ \A b \in DOMAIN browses \ new : browses'[b] = browses[b] /\ asked'[b] = asked[b]
  BY DEF Over

\* Such a browse is well formed.
LEMMA NewBrowseShaped ==
    /\ \A b : BrowseShaped(b, NewBrowse)
    /\ \A n : StateShaped(NewBrowse.state, n)
    /\ NewBrowse.add = {} /\ NewBrowse.at = "run"
    /\ DOMAIN NewBrowse.state.entries = {} /\ DOMAIN NewBrowse.state.cache = {}
  BY DEF NewBrowse, NewState, BrowseShaped, StateShaped

\* Every step leaves browses of the listeners there are.
LEMMA BrowsesStep == Shaped /\ ListenerInv /\ [Next]_vars => BrowsesShaped'
<1> SUFFICES ASSUME Shaped, ListenerInv, [Next]_vars PROVE BrowsesShaped'
  OBVIOUS
<1>0. /\ DOMAIN asked = DOMAIN browses /\ now \in Nat
      /\ \A b \in DOMAIN browses :
            /\ b \in Browse /\ b[1] \in DOMAIN listeners
            /\ StateShaped(browses[b].state, now) /\ BrowseShaped(b, browses[b])
  BY BoundsAssumption DEF Shaped, FilesShaped, BrowsesShaped
<1>1. ListenersShaped' /\ DOMAIN listeners \subseteq DOMAIN listeners'
  BY ListenersStep
<1>2. ASSUME UNCHANGED <<browses, asked, now>> PROVE BrowsesShaped'
  BY <1>0, <1>1, <1>2 DEF BrowsesShaped
<1>3. ASSUME NEW b \in DOMAIN browses, NEW v, browses' = [browses EXCEPT ![b] = v],
             StateShaped(v.state, now), BrowseShaped(b, v), DOMAIN asked' = DOMAIN asked, now' = now
      PROVE  BrowsesShaped'
  <2>1. DOMAIN browses' = DOMAIN browses /\ \A d \in DOMAIN browses : browses'[d] = IF d = b THEN v ELSE browses[d]
    BY <1>3
  <2> QED
    BY <1>0, <1>1, <1>3, <2>1 DEF BrowsesShaped
<1>4. ASSUME NEW b \in DOMAIN browses, NEW m \in Message, Hear(b, m) PROVE BrowsesShaped'
  <2> DEFINE v == browses'[b]
  <2>1. browses' = [browses EXCEPT ![b] = v] /\ StateShaped(v.state, now) /\ BrowseShaped(b, v)
    BY <1>4, Heard
  <2>2. DOMAIN asked' = DOMAIN asked /\ now' = now
    BY <1>4 DEF Hear
  <2> HIDE DEF v
  <2> QED
    BY <1>3, <2>1, <2>2
<1>5. ASSUME NEW b \in DOMAIN browses, PollBrowse(b) PROVE BrowsesShaped'
  <2> DEFINE v == browses'[b]
  <2>1. browses' = [browses EXCEPT ![b] = v] /\ StateShaped(v.state, now) /\ BrowseShaped(b, v)
    BY <1>5, PolledOnce
  <2>2. DOMAIN asked' = DOMAIN asked /\ now' = now
    BY <1>5 DEF PollBrowse
  <2> HIDE DEF v
  <2> QED
    BY <1>3, <2>1, <2>2
<1>6. ASSUME NEW b \in DOMAIN browses,
             AddInstance(b) \/ RemoveInstance(b) \/ BrowseFails(b) \/ BrowseLeaves(b)
      PROVE  BrowsesShaped'
  <2> DEFINE v == browses'[b]
  <2>1. browses' = [browses EXCEPT ![b] = v] /\ StateShaped(v.state, now) /\ BrowseShaped(b, v)
    BY <1>6, Reported
  <2>2. DOMAIN asked' = DOMAIN asked /\ now' = now
    BY <1>6 DEF AddInstance, RemoveInstance, BrowseFails, BrowseLeaves, ghosts
  <2> HIDE DEF v
  <2> QED
    BY <1>3, <2>1, <2>2
<1>7. ASSUME NEW new, new \subseteq Browse, \A b \in new : b[1] \in DOMAIN listeners',
             browses' = Over([b \in new |-> NewBrowse], browses),
             asked' = Over([b \in new |-> {}], asked), now' = now
      PROVE  BrowsesShaped'
  <2>1. /\ DOMAIN browses' = new \cup DOMAIN browses /\ DOMAIN asked' = DOMAIN browses'
        /\ \A b \in new : browses'[b] = NewBrowse
        /\ \A b \in DOMAIN browses \ new : browses'[b] = browses[b]
    BY <1>0, <1>7, Started
  <2> QED
    BY <1>0, <1>1, <1>7, <2>1, NewBrowseShaped DEF BrowsesShaped
<1>8. ASSUME NEW l \in DOMAIN listeners, NEW z \in Service, HearType(l, z) PROVE BrowsesShaped'
  <2> DEFINE new == {<<l, z>>}
  <2>1. /\ browses' = Over([b \in new |-> NewBrowse], browses)
        /\ asked' = Over([b \in new |-> {}], asked) /\ now' = now
    BY <1>8 DEF HearType
  <2>2. l \in Nat
    BY DEF Shaped, ListenersShaped
  <2>3. new \subseteq Browse /\ \A b \in new : b[1] \in DOMAIN listeners'
    BY <1>1, <2>2 DEF Browse
  <2> HIDE DEF new
  <2> QED
    BY <1>7, <2>1, <2>3
<1>9. ASSUME NEW s, Len(s) = Len(listeners), StartMDNS(gui, disk.settings, s), now' = now,
             Len(listeners') = Len(s) + 1
      PROVE  BrowsesShaped'
  <2> DEFINE l == Len(s) + 1
             new == IF disk.settings.dynamic THEN {} ELSE {<<l, z>> : z \in disk.settings.services}
  <2>1. /\ browses' = Over([b \in new |-> NewBrowse], browses)
        /\ asked' = Over([b \in new |-> {}], asked)
    BY <1>9 DEF StartMDNS
  <2>2. disk.settings.services \subseteq Service
    BY SettingAssumption DEF Shaped, FilesShaped
  <2>3. l \in Nat /\ l \in DOMAIN listeners'
    <3>1. Len(listeners) \in Nat /\ listeners' \in Seq(Range(listeners'))
      BY <1>1 DEF Shaped, ListenersShaped
    <3>2. DOMAIN listeners' = 1 .. Len(listeners')
      BY <3>1
    <3> QED
      BY <1>9, <3>1, <3>2
  <2> HIDE DEF l
  <2>4. new \subseteq Browse /\ \A b \in new : b[1] \in DOMAIN listeners'
    BY <2>2, <2>3 DEF Browse
  <2> HIDE DEF new
  <2> QED
    BY <1>7, <1>9, <2>1, <2>4
<1>10. CASE FirstStart
  <2>1. StartMDNS(gui, disk.settings, listeners) /\ now' = now
    BY <1>10 DEF FirstStart
  <2>2. Len(listeners') = Len(listeners) + 1
    <3>1. \E e : listeners' = Append(listeners, e)
      BY <2>1 DEF StartMDNS
    <3> QED
      BY <3>1, SeqAppended DEF Shaped, ListenersShaped
  <2> QED
    BY <1>9, <2>1, <2>2
<1>11. CASE RestartListener
  <2> DEFINE s == Cancel(current)
  <2>1. StartMDNS(gui, disk.settings, s) /\ now' = now /\ current # 0
    BY <1>11 DEF RestartListener
  <2>2. s \in Seq(Range(s)) /\ Len(s) = Len(listeners)
    <3>1. PICK x : s = [listeners EXCEPT ![current] = x]
      BY DEF Cancel
    <3>2. listeners \in Seq(Range(listeners)) /\ current \in DOMAIN listeners
      BY <2>1 DEF Shaped, ListenersShaped
    <3> DEFINE r == [listeners EXCEPT ![current] = x]
    <3>3. r \in Seq(Range(r)) /\ Len(r) = Len(listeners)
      BY <3>2, SeqReplaced
    <3> QED
      BY <3>1, <3>3
  <2>3. \E e : listeners' = Append(s, e)
    BY <2>1 DEF StartMDNS
  <2> HIDE DEF s
  <2>4. Len(listeners') = Len(s) + 1
    BY <2>2, <2>3, SeqAppended
  <2> QED
    BY <1>9, <2>1, <2>2, <2>4
<1>12. CASE Tick
  <2>1. /\ now' = now + 1 /\ asked' = asked /\ DOMAIN browses' = DOMAIN browses
        /\ \A b \in DOMAIN browses : browses'[b] = [browses[b] EXCEPT !.polled = FALSE]
    BY <1>12 DEF Tick, ghosts
  <2>2. ASSUME NEW b \in DOMAIN browses
        PROVE  BrowseShaped(b, browses'[b]) /\ StateShaped(browses'[b].state, now')
    <3> DEFINE w == browses[b]
               v == browses'[b]
    <3>1. v = [w EXCEPT !.polled = FALSE] /\ BrowseShaped(b, w) /\ StateShaped(w.state, now)
      BY <1>0, <2>1
    <3> HIDE DEF w, v
    <3>2. /\ DOMAIN v = DOMAIN w /\ v.at = w.at /\ v.state = w.state /\ v.add = w.add /\ v.rmv = w.rmv
      BY <3>1 DEF BrowseShaped
    <3>3. BrowseShaped(b, v)
      BY <3>1, <3>2 DEF BrowseShaped
    <3>4. \A i \in DOMAIN w.state.cache : w.state.cache[i].storedAt \in Nat
      BY <3>1 DEF StateShaped, CacheRecord
    <3>5. StateShaped(v.state, now')
      BY <1>0, <2>1, <3>1, <3>2, <3>4 DEF StateShaped
    <3> QED
      BY <3>3, <3>5 DEF v
  <2> QED
    BY <1>0, <1>1, <2>1, <2>2 DEF BrowsesShaped
<1>13. ASSUME NEW l, TypesLeave(l) \/ ExpireTable(l) PROVE UNCHANGED <<browses, asked, now>>
  BY <1>13 DEF TypesLeave, ExpireTable, ghosts
<1>14. ASSUME NEW x, NEW n, SaveSettings(x) \/ RejectSettings(x) \/ PromoteMDNS(n) \/ DeleteRecord(n) \/ RestartEngine
       PROVE  UNCHANGED <<browses, asked, now>>
  BY <1>14 DEF SaveSettings, RejectSettings, PromoteMDNS, DeleteRecord, ApplyRecords, RestartEngine, ghosts
<1>15. ASSUME NEW n, NEW q, Reload(q) \/ RefreshMDNS \/ StopMDNS \/ SetPublished(n, q) \/ UNCHANGED vars
       PROVE  UNCHANGED <<browses, asked, now>>
  BY <1>15 DEF Reload, RefreshMDNS, StopMDNS, SetPublished, vars, ghosts
<1> QED
  BY <1>2, <1>4, <1>5, <1>6, <1>8, <1>10, <1>11, <1>12, <1>13, <1>14, <1>15
     DEF Next, BrowseStep, ListenerStep, ServiceStep

---------------------------------------------------------------------------
(* One listener, as configured. *)

\* A cancelled listener is off, and nothing else of the listeners changes.
LEMMA Cancelling ==
    ASSUME Shaped, current # 0
    PROVE  LET s == Cancel(current)
           IN /\ s \in Seq(Range(s)) /\ Len(s) = Len(listeners) /\ DOMAIN s = DOMAIN listeners
              /\ s[current].on = FALSE
              /\ \A l \in DOMAIN listeners : s[l].table = listeners[l].table
              /\ \A l \in DOMAIN listeners \ {current} : s[l] = listeners[l]
<1> DEFINE o == listeners[current]
           x == [o EXCEPT !.on = FALSE]
           s == Cancel(current)
<1>1. listeners \in Seq(Range(listeners)) /\ current \in DOMAIN listeners
  BY DEF Shaped, ListenersShaped
<1>2. DOMAIN o = {"table", "params", "types", "on"}
  BY <1>1 DEF Shaped, ListenersShaped, ListenerShaped
<1>3. s = [listeners EXCEPT ![current] = x]
  BY DEF Cancel
<1> HIDE DEF o, s
<1>4. x.on = FALSE /\ x.table = o.table
  BY <1>2
<1> HIDE DEF x
<1>5. /\ s \in Seq(Range(s)) /\ Len(s) = Len(listeners) /\ DOMAIN s = DOMAIN listeners
      /\ s[current] = x /\ \A l \in DOMAIN listeners \ {current} : s[l] = listeners[l]
  BY <1>1, <1>3, SeqReplaced
<1> QED
  BY <1>4, <1>5 DEF o, s

\* A listener that starts is the current one, and on.
LEMMA Starting ==
    ASSUME NEW s, s \in Seq(Range(s)), StartMDNS(gui, disk.settings, s)
    PROVE  /\ current' # 0 /\ current' \notin DOMAIN s
           /\ DOMAIN listeners' = DOMAIN s \cup {current'}
           /\ \A l \in DOMAIN s : listeners'[l] = s[l]
           /\ listeners'[current'].on = TRUE /\ listeners'[current'].table = gui
           /\ listeners'[current'].params = BrowseParams(disk.settings)
<1> DEFINE x == [table |-> gui, params |-> BrowseParams(disk.settings), types |-> disk.settings.dynamic, on |-> TRUE]
<1>1. listeners' = Append(s, x) /\ current' = Len(s) + 1
  BY DEF StartMDNS
<1>2. x.on = TRUE /\ x.table = gui /\ x.params = BrowseParams(disk.settings)
  OBVIOUS
<1> HIDE DEF x
<1>3. /\ Len(s) \in Nat /\ DOMAIN s = 1 .. Len(s)
      /\ DOMAIN listeners' = DOMAIN s \cup {Len(s) + 1}
      /\ \A i \in DOMAIN s : listeners'[i] = s[i]
      /\ listeners'[Len(s) + 1] = x
  BY <1>1, SeqAppended
<1> QED
  BY <1>1, <1>2, <1>3

\* Every step keeps one listener at most, and in step with table and settings
\* unless settings are being saved.
LEMMA ListenerStepKept == Shaped /\ ListenerInv /\ [Next]_vars => ListenerInv'
<1> SUFFICES ASSUME Shaped, ListenerInv, [Next]_vars PROVE ListenerInv'
  OBVIOUS
<1>0. /\ listeners \in Seq(Range(listeners)) /\ current \in 0 .. Len(listeners)
      /\ Len(listeners) \in Nat /\ DOMAIN listeners = 1 .. Len(listeners)
      /\ Len(tables) \in Nat /\ save \in SavePhases /\ DOMAIN disk = {"settings", "promoted"}
  BY TableInUse DEF Shaped, ListenersShaped, FilesShaped
<1>1. ASSUME UNCHANGED <<listeners, current, gui, save, disk>> PROVE ListenerInv'
  BY <1>1 DEF ListenerInv
<1>2. ASSUME NEW x \in Setting, SaveSettings(x) PROVE ListenerInv'
  <2>1. /\ UNCHANGED <<listeners, current>> /\ disk'.settings = x
        /\ save' = [at |-> "reload", kind |-> "settings"]
        /\ gui' = IF x.enabled /\ gui = 0 THEN Len(tables) + 1 ELSE gui
    BY <1>0, <1>2 DEF SaveSettings
  <2>2. save' # Idle /\ save'.kind = "settings"
    BY <2>1 DEF Idle
  <2> QED
    BY <1>0, <2>1, <2>2 DEF ListenerInv
<1>3. ASSUME save = Idle, UNCHANGED <<listeners, current, gui>>, disk'.settings = disk.settings,
             save' \in [at : {"reload"}, kind : {"records", "restart"}]
      PROVE  ListenerInv'
  BY <1>3 DEF ListenerInv
<1>4. ASSUME NEW promoted, ApplyRecords(promoted) PROVE ListenerInv'
  <2>1. /\ save = Idle /\ UNCHANGED <<listeners, current, gui>> /\ disk'.settings = disk.settings
        /\ save' = [at |-> "reload", kind |-> "records"]
    BY <1>0, <1>4 DEF ApplyRecords
  <2> QED
    BY <1>3, <2>1
<1>5. ASSUME NEW n, PromoteMDNS(n) \/ DeleteRecord(n) PROVE ListenerInv'
  BY <1>4, <1>5 DEF PromoteMDNS, DeleteRecord
<1>6. CASE RestartEngine
  BY <1>3, <1>6 DEF RestartEngine
<1>7. ASSUME NEW ok, Reload(ok) PROVE ListenerInv'
  <2>1. UNCHANGED <<listeners, current, gui, disk>>
    BY <1>7 DEF Reload
  <2>2. save \in [at : {"reload"}, kind : {"settings", "records", "restart"}] /\ save # Idle
    BY <1>0, <1>7 DEF Reload, SavePhases, Idle
  <2>3. (save' = Idle /\ save.kind # "settings") \/ (save' # Idle /\ save'.kind = save.kind)
    <3>1. CASE save.kind = "restart"
      <4>1. save' = Idle
        BY <1>7, <3>1 DEF Reload
      <4> QED
        BY <3>1, <4>1
    <3>2. CASE save.kind # "restart"
      <4>1. save' = [save EXCEPT !.at = "post"]
        BY <1>7, <3>2 DEF Reload
      <4>2. save'.at = "post" /\ save'.kind = save.kind
        BY <2>2, <4>1
      <4> QED
        BY <4>2 DEF Idle
    <3> QED
      BY <3>1, <3>2
  <2> QED
    BY <2>1, <2>2, <2>3 DEF ListenerInv
<1>8. CASE RefreshMDNS
  <2>1. UNCHANGED <<listeners, current, gui, disk>> /\ save' = Idle
    BY <1>8 DEF RefreshMDNS
  <2>2. save # Idle
    BY <1>8 DEF RefreshMDNS, Idle
  <2>3. CASE save.kind = "records"
    BY <2>1, <2>2, <2>3 DEF ListenerInv
  <2>4. CASE /\ disk.settings.enabled /\ current # 0
             /\ BrowseParams(disk.settings) = listeners[current].params
    BY <2>1, <2>2, <2>4 DEF ListenerInv
  <2> QED
    BY <1>8, <2>3, <2>4 DEF RefreshMDNS
<1>9. CASE StopMDNS
  <2>1. /\ current' = 0 /\ gui' = 0 /\ save' = Idle /\ disk' = disk /\ ~disk.settings.enabled
        /\ listeners' = IF current = 0 THEN listeners ELSE Cancel(current)
    BY <1>9 DEF StopMDNS
  <2>2. {l \in DOMAIN listeners' : listeners'[l].on} = {}
    <3>1. CASE current = 0
      BY <2>1, <3>1 DEF ListenerInv
    <3>2. CASE current # 0
      BY <2>1, <3>2, Cancelling DEF ListenerInv
    <3> QED
      BY <3>1, <3>2
  <2> QED
    BY <2>1, <2>2 DEF ListenerInv, Idle
<1>10. CASE FirstStart
  <2>1. /\ StartMDNS(gui, disk.settings, listeners) /\ save' = Idle /\ UNCHANGED <<disk, gui>>
        /\ disk.settings.enabled /\ current = 0 /\ save # Idle
    BY <1>10 DEF FirstStart, Idle
  <2>2. /\ current' \notin DOMAIN listeners /\ current' # 0
        /\ DOMAIN listeners' = DOMAIN listeners \cup {current'}
        /\ \A l \in DOMAIN listeners : listeners'[l] = listeners[l]
        /\ listeners'[current'].on = TRUE /\ listeners'[current'].table = gui
        /\ listeners'[current'].params = BrowseParams(disk.settings)
    BY <1>0, <2>1, Starting
  <2>3. {l \in DOMAIN listeners' : listeners'[l].on} = {current'} \ {0}
    BY <2>1, <2>2 DEF ListenerInv
  <2> QED
    BY <2>1, <2>2, <2>3 DEF ListenerInv
<1>11. CASE RestartListener
  <2> DEFINE s == Cancel(current)
  <2>1. /\ StartMDNS(gui, disk.settings, s) /\ save' = Idle /\ UNCHANGED <<disk, gui>>
        /\ disk.settings.enabled /\ current # 0
    BY <1>11 DEF RestartListener, Idle
  <2>2. /\ s \in Seq(Range(s)) /\ Len(s) = Len(listeners) /\ DOMAIN s = DOMAIN listeners
        /\ s[current].on = FALSE
        /\ \A l \in DOMAIN listeners \ {current} : s[l] = listeners[l]
    BY <2>1, Cancelling
  <2> HIDE DEF s
  <2>3. /\ current' \notin DOMAIN s /\ current' # 0
        /\ DOMAIN listeners' = DOMAIN s \cup {current'}
        /\ \A l \in DOMAIN s : listeners'[l] = s[l]
        /\ listeners'[current'].on = TRUE /\ listeners'[current'].table = gui
        /\ listeners'[current'].params = BrowseParams(disk.settings)
    BY <1>0, <2>1, <2>2, Starting
  <2>4. \A l \in DOMAIN s : ~s[l].on
    BY <2>2 DEF ListenerInv
  <2>5. {l \in DOMAIN listeners' : listeners'[l].on} = {current'} \ {0}
    BY <2>3, <2>4
  <2> QED
    BY <2>1, <2>3, <2>5 DEF ListenerInv
<1>12. ASSUME NEW l, TypesLeave(l) PROVE ListenerInv'
  <2> DEFINE o == listeners[l]
             x == [o EXCEPT !.types = FALSE]
  <2>1. /\ l \in DOMAIN listeners /\ listeners' = [listeners EXCEPT ![l] = x]
        /\ UNCHANGED <<current, gui, save, disk>>
    BY <1>12 DEF TypesLeave
  <2>2. DOMAIN o = {"table", "params", "types", "on"}
    BY <2>1 DEF Shaped, ListenersShaped, ListenerShaped
  <2> HIDE DEF o
  <2>3. x.table = o.table /\ x.params = o.params
    BY <2>2
  <2>4. x.on = o.on
    BY <2>2
  <2> HIDE DEF x
  <2>5. /\ DOMAIN listeners' = DOMAIN listeners
        /\ listeners'[l] = x /\ \A j \in DOMAIN listeners \ {l} : listeners'[j] = listeners[j]
    BY <1>0, <2>1, SeqReplaced
  <2>6. ASSUME NEW j \in DOMAIN listeners
        PROVE  /\ listeners'[j].table = listeners[j].table /\ listeners'[j].params = listeners[j].params
               /\ listeners'[j].on = listeners[j].on
    BY <2>3, <2>4, <2>5 DEF o
  <2>7. {j \in DOMAIN listeners' : listeners'[j].on} = {j \in DOMAIN listeners : listeners[j].on}
    BY <2>5, <2>6
  <2>8. current # 0 => current \in DOMAIN listeners
    BY <1>0
  <2> QED
    BY <2>1, <2>6, <2>7, <2>8 DEF ListenerInv
<1>13. ASSUME NEW b, BrowseStep(b) PROVE UNCHANGED <<listeners, current, gui, save, disk>>
  BY <1>13 DEF BrowseStep, Hear, PollBrowse, AddInstance, RemoveInstance, BrowseFails, BrowseLeaves, serviceVars
<1>14. ASSUME NEW l, NEW z, HearType(l, z) \/ ExpireTable(l) PROVE UNCHANGED <<listeners, current, gui, save, disk>>
  BY <1>14 DEF HearType, ExpireTable, serviceVars
<1>15. ASSUME NEW x, NEW n, NEW q, RejectSettings(x) \/ SetPublished(n, q) \/ Tick \/ UNCHANGED vars
       PROVE  UNCHANGED <<listeners, current, gui, save, disk>>
  BY <1>15 DEF RejectSettings, SetPublished, Tick, vars, serviceVars
<1> QED
  BY <1>1, <1>2, <1>5, <1>6, <1>7, <1>8, <1>9, <1>10, <1>11, <1>12, <1>13, <1>14, <1>15
     DEF Next, ListenerStep, ServiceStep

\* The process starts with at most one table and one listener, as configured.
LEMMA InitShaped == Init => Shaped /\ ListenerInv
<1> SUFFICES ASSUME Init PROVE Shaped /\ ListenerInv
  OBVIOUS
<1>1. PICK x \in Setting, promoted \in Bound :
        LET new == IF x.enabled /\ ~x.dynamic THEN {<<1, s>> : s \in x.services} ELSE {}
        IN /\ disk = [settings |-> x, promoted |-> promoted]
           /\ tables = IF x.enabled THEN <<NewTable(Build(disk))>> ELSE <<>>
           /\ gui = Len(tables) /\ handler = gui /\ current = gui
           /\ listeners = IF x.enabled
                          THEN <<[table |-> 1, params |-> BrowseParams(x), types |-> x.dynamic, on |-> TRUE]>>
                          ELSE <<>>
           /\ browses = [b \in new |-> NewBrowse]
           /\ asked = [b \in new |-> {}]
  BY DEF Init
<1> DEFINE new == IF x.enabled /\ ~x.dynamic THEN {<<1, s>> : s \in x.services} ELSE {}
           t == NewTable(Build(disk))
           l == [table |-> 1, params |-> BrowseParams(x), types |-> x.dynamic, on |-> TRUE]
           n == IF x.enabled THEN 1 ELSE 0
<1>2. /\ DOMAIN browses = new /\ DOMAIN asked = new /\ \A b \in new : browses[b] = NewBrowse
  BY <1>1
<1>3. FilesShaped
  BY <1>1, BoundAssumption, BoundsAssumption DEF FilesShaped, SavePhases, Init
<1>4. TableShaped(t) /\ l.on = TRUE /\ l.table = 1 /\ l.params = BrowseParams(x)
      /\ DOMAIN l = {"table", "params", "types", "on"}
  BY DEF TableShaped, NewTable
<1> HIDE DEF t, l
<1>5. /\ tables = IF x.enabled THEN <<t>> ELSE <<>>
      /\ listeners = IF x.enabled THEN <<l>> ELSE <<>>
      /\ gui = Len(tables) /\ handler = gui /\ current = gui
      /\ disk.settings = x
  BY <1>1 DEF t, l
<1>6. /\ Len(tables) = n /\ DOMAIN tables = 1 .. n
      /\ Len(listeners) = n /\ DOMAIN listeners = 1 .. n
      /\ \A i \in 1 .. n : tables[i] = t /\ listeners[i] = l
  <2>1. CASE x.enabled
    BY <1>5, <2>1
  <2>2. CASE ~x.enabled
    BY <1>5, <2>2
  <2> QED
    BY <2>1, <2>2
<1>7. tables \in Seq(Range(tables)) /\ listeners \in Seq(Range(listeners))
  <2>1. CASE x.enabled
    <3>1. t \in Range(tables) /\ l \in Range(listeners)
      BY <1>6, <2>1 DEF Range
    <3> QED
      BY <1>5, <2>1, <3>1
  <2>2. CASE ~x.enabled
    BY <1>5, <2>2
  <2> QED
    BY <2>1, <2>2
<1>8. TablesShaped
  BY <1>4, <1>5, <1>6, <1>7 DEF TablesShaped
<1>9. ListenersShaped
  BY <1>4, <1>5, <1>6, <1>7 DEF ListenersShaped, ListenerShaped
<1>10. BrowsesShaped
  <2>1. \A b \in new : b \in Browse /\ b[1] \in DOMAIN listeners
    BY <1>6, SettingAssumption DEF Browse
  <2> QED
    BY <1>2, <2>1, NewBrowseShaped DEF BrowsesShaped
<1>11. ListenerInv
  <2>1. save = Idle
    BY DEF Init
  <2> QED
    BY <1>4, <1>5, <1>6, <2>1 DEF ListenerInv
<1> QED
  BY <1>3, <1>8, <1>9, <1>10, <1>11 DEF Shaped

\* The shape of the state and the listener's step together are inductive.
LEMMA BridgeShaped == Spec => [](Shaped /\ ListenerInv)
<1>1. Shaped /\ ListenerInv /\ [Next]_vars => (Shaped /\ ListenerInv)'
  BY FilesStep, TablesStep, ListenersStep, BrowsesStep, ListenerStepKept DEF Shaped
<1> QED
  BY <1>1, InitShaped, PTL DEF Spec

\* TypeOK: every variable keeps its type; no listener feeds, and no handler
\* answers from, a table that was never made, and no browse counts more
\* refreshes of a record than there are thresholds.
THEOREM BridgeTyped == Spec => []TypeOK
<1>1. Shaped => TypeOK
  BY DEF Shaped, FilesShaped, TablesShaped, ListenersShaped, BrowsesShaped, TableShaped, ListenerShaped,
         StateShaped, Browse, TypeOK
<1> QED
  BY <1>1, BridgeShaped, PTL

\* OneListenerAsConfigured: between saves one listener runs if mDNS is on and
\* none if it is off, on the GUI's table and with the parameters of the settings
\* on disk, whatever was saved, rejected, restarted or failed to reload before.
THEOREM OneListener == Spec => []OneListenerAsConfigured
<1>1. ListenerInv => OneListenerAsConfigured
  BY DEF ListenerInv, OneListenerAsConfigured
<1> QED
  BY <1>1, BridgeShaped, PTL

---------------------------------------------------------------------------
(* Served as configured. *)

\* While the VLANs stay, so does what a configuration makes of an entry.
LEMMA DerivedStays ==
    ASSUME vlans' = vlans, NEW cfg, NEW k, NEW e
    PROVE  Derived(cfg, k, e)' = Derived(cfg, k, e)
<1>1. ASSUME NEW sel, NEW addrs PROVE Match(sel, k, addrs)' <=> Match(sel, k, addrs)
  BY DEF Match, InVlan
<1>2. ASSUME NEW addrs PROVE SuffixFor(cfg, k, addrs)' = SuffixFor(cfg, k, addrs)
  <2> DEFINE rules == {i \in DOMAIN cfg.naming : Match(cfg.naming[i].match, k, addrs)}
  <2>1. rules' = rules
    BY <1>1
  <2>2. /\ SuffixFor(cfg, k, addrs) = IF rules = {} THEN cfg.suffix ELSE cfg.naming[Min(rules)].suffix
        /\ SuffixFor(cfg, k, addrs)' = IF rules' = {} THEN cfg.suffix ELSE cfg.naming[Min(rules')].suffix
    BY DEF SuffixFor
  <2> HIDE DEF rules
  <2> QED
    BY <2>1, <2>2
<1>3. MatchAny(cfg.auto, k, e.addrs)' <=> MatchAny(cfg.auto, k, e.addrs)
  BY <1>1 DEF MatchAny
<1>4. (\E n \in DOMAIN cfg.promoted : Match(cfg.promoted[n], k, e.addrs)')
         <=> \E n \in DOMAIN cfg.promoted : Match(cfg.promoted[n], k, e.addrs)
  BY <1>1
<1> QED
  BY <1>2, <1>3, <1>4 DEF Derived

\* Every step that is not a save keeps the entries of a table derived.
LEMMA DerivedKept ==
    ASSUME TablesShaped, UNCHANGED <<gui, behind, save, current, disk, vlans>>, ServedInv,
           NEW t \in DOMAIN tables, NEW u, tables' = [tables EXCEPT ![t] = u],
           TableShaped(u), u.cfg = tables[t].cfg, EntriesDerived(tables[t]) => EntriesDerived(u)
    PROVE  ServedInv'
<1>1. /\ DOMAIN tables' = DOMAIN tables /\ tables'[t] = u
      /\ \A d \in DOMAIN tables \ {t} : tables'[d] = tables[d]
  BY TableReplaced
<1>2. SUFFICES ASSUME gui # 0, IF save = Idle \/ save.kind = "restart" THEN ~behind
                               ELSE save.kind = "settings" /\ current = 0
               PROVE  (tables[gui].cfg = Build(disk) /\ EntriesDerived(tables[gui]))'
  BY DEF ServedInv, Idle
<1>3. tables[gui].cfg = Build(disk) /\ EntriesDerived(tables[gui]) /\ gui \in DOMAIN tables
  BY <1>2, TableInUse DEF ServedInv
<1>4. tables'[gui].cfg = Build(disk) /\ EntriesDerived(tables'[gui])
  BY <1>1, <1>3
<1>5. \A k \in DOMAIN tables'[gui].entries :
         tables'[gui].entries[k].served = Derived(tables'[gui].cfg, k, tables'[gui].entries[k])
  BY <1>4 DEF EntriesDerived
<1>6. ASSUME NEW k \in DOMAIN tables'[gui].entries
      PROVE  tables'[gui].entries[k].served = (Derived(tables[gui].cfg, k, tables[gui].entries[k]))'
  <2> DEFINE c == tables'[gui].cfg
             e == tables'[gui].entries[k]
  <2> QED
    BY <1>5, DerivedStays
<1> QED
  BY <1>4, <1>6 DEF EntriesDerived, Build

\* Every step keeps the GUI's table as configured, unless it says it does not.
LEMMA ServedStep == Shaped /\ ListenerInv /\ ServedInv /\ [Next]_vars => ServedInv'
<1> SUFFICES ASSUME Shaped, ListenerInv, ServedInv, [Next]_vars PROVE ServedInv'
  OBVIOUS
<1>0. /\ TablesShaped /\ Len(tables) \in Nat /\ DOMAIN tables = 1 .. Len(tables) /\ now \in Nat
      /\ gui # 0 => gui \in DOMAIN tables
      /\ save \in SavePhases /\ DOMAIN disk = {"settings", "promoted"}
  BY TableInUse, BoundsAssumption DEF Shaped, FilesShaped
<1>1. ASSUME UNCHANGED <<tables, gui, behind, save, current, disk, vlans>> PROVE ServedInv'
  <2>1. \A t : EntriesDerived(t) => EntriesDerived(t)'
    BY <1>1, DerivedStays DEF EntriesDerived
  <2> QED
    BY <1>1, <2>1 DEF ServedInv, Build, Idle
<1>2. ASSUME NEW b \in DOMAIN browses, AddInstance(b) PROVE ServedInv'
  <2> DEFINE t == listeners[b[1]].table
  <2>1. PICK c \in browses[b].add : tables' = [tables EXCEPT ![t] = Upsert(@, c.key, c.entry)]
    BY <1>2 DEF AddInstance
  <2>2. t \in DOMAIN tables /\ c.key \in Key /\ c.entry.ttl \in Nat
    BY ReportTyped
  <2> HIDE DEF t
  <2> DEFINE T == tables[t]
             u == Upsert(T, c.key, c.entry)
  <2>3. TableShaped(T)
    BY <1>0, <2>2 DEF TablesShaped
  <2> HIDE DEF T
  <2>4. /\ TableShaped(u) /\ u.cfg = T.cfg
        /\ DOMAIN u.entries = DOMAIN T.entries \cup {c.key}
        /\ \A j \in DOMAIN T.entries \ {c.key} : u.entries[j] = T.entries[j]
        /\ u.entries[c.key].served = Derived(u.cfg, c.key, u.entries[c.key])
    BY <1>0, <2>2, <2>3, Upserted
  <2>5. tables' = [tables EXCEPT ![t] = u]
    BY <2>1 DEF T
  <2> HIDE DEF u
  <2>6. EntriesDerived(T) => EntriesDerived(u)
    BY <2>4 DEF EntriesDerived
  <2>7. UNCHANGED <<gui, behind, save, current, disk, vlans>>
    BY <1>2 DEF AddInstance, serviceVars
  <2> QED
    BY <1>0, <2>2, <2>4, <2>5, <2>6, <2>7, DerivedKept DEF T
<1>3. ASSUME NEW t \in DOMAIN tables, NEW S, S \subseteq DOMAIN tables[t].entries,
             tables' = [tables EXCEPT ![t] = [tables[t] EXCEPT !.entries = Restrict(tables[t].entries, S)]],
             UNCHANGED <<gui, behind, save, current, disk, vlans>>
      PROVE  ServedInv'
  <2> DEFINE T == tables[t]
             u == [T EXCEPT !.entries = Restrict(T.entries, S)]
  <2>1. TableShaped(T) /\ S \subseteq DOMAIN T.entries /\ tables' = [tables EXCEPT ![t] = u]
    BY <1>0, <1>3 DEF TablesShaped
  <2> HIDE DEF T
  <2>2. /\ TableShaped(u) /\ u.cfg = T.cfg /\ DOMAIN u.entries = S
        /\ \A j \in S : u.entries[j] = T.entries[j]
    BY <2>1, Lost
  <2> HIDE DEF u
  <2>3. EntriesDerived(T) => EntriesDerived(u)
    BY <2>1, <2>2 DEF EntriesDerived
  <2> QED
    BY <1>0, <1>3, <2>1, <2>2, <2>3, DerivedKept DEF T
<1>4. ASSUME NEW b \in DOMAIN browses, RemoveInstance(b) PROVE ServedInv'
  <2> DEFINE t == listeners[b[1]].table
  <2>1. PICK c \in browses[b].rmv : tables' = [tables EXCEPT ![t] = Remove(@, c.key)]
    BY <1>4 DEF RemoveInstance
  <2> DEFINE S == DOMAIN tables[t].entries \ {c.key}
  <2>2. t \in DOMAIN tables /\ S \subseteq DOMAIN tables[t].entries
    BY ReportTyped
  <2>3. tables' = [tables EXCEPT ![t] = [tables[t] EXCEPT !.entries = Restrict(tables[t].entries, S)]]
    BY <2>1 DEF Remove
  <2>4. UNCHANGED <<gui, behind, save, current, disk, vlans>>
    BY <1>4 DEF RemoveInstance, serviceVars
  <2> HIDE DEF t, S
  <2> QED
    BY <1>3, <2>2, <2>3, <2>4
<1>5. ASSUME NEW l \in DOMAIN listeners, ExpireTable(l) PROVE ServedInv'
  <2> DEFINE t == listeners[l].table
  <2>1. tables' = [tables EXCEPT ![t] = [tables[t] EXCEPT !.entries = Restrict(tables[t].entries, Live(tables[t]))]]
    BY <1>5 DEF ExpireTable, Expire
  <2>2. t \in DOMAIN tables /\ Live(tables[t]) \subseteq DOMAIN tables[t].entries
    BY DEF Shaped, ListenersShaped, ListenerShaped, Live
  <2>3. UNCHANGED <<gui, behind, save, current, disk, vlans>>
    BY <1>5 DEF ExpireTable, serviceVars
  <2> HIDE DEF t
  <2> QED
    BY <1>3, <2>1, <2>2, <2>3
<1>6. ASSUME NEW n, NEW approve, SetPublished(n, approve) PROVE ServedInv'
  <2>1. PICK u : /\ gui \in DOMAIN tables /\ TableShaped(u)
                 /\ tables' = [tables EXCEPT ![gui] = u]
                 /\ u.cfg = tables[gui].cfg
                 /\ DOMAIN u.entries = DOMAIN tables[gui].entries
                 /\ \A k \in DOMAIN u.entries :
                       \/ u.entries[k] = tables[gui].entries[k]
                       \/ u.entries[k].served = Derived(u.cfg, k, u.entries[k])
    BY <1>6, PublishedSet
  <2>2. EntriesDerived(tables[gui]) => EntriesDerived(u)
    BY <2>1 DEF EntriesDerived
  <2>3. UNCHANGED <<gui, behind, save, current, disk, vlans>>
    BY <1>6 DEF SetPublished, serviceVars
  <2> QED
    BY <1>0, <2>1, <2>2, <2>3, DerivedKept
<1>7. ASSUME NEW x \in Setting, SaveSettings(x) PROVE ServedInv'
  <2>1. /\ save = Idle /\ current' = current /\ save' = [at |-> "reload", kind |-> "settings"]
        /\ LET make == x.enabled /\ gui = 0
           IN /\ tables' = IF make THEN Append(tables, NewTable(Build(disk'))) ELSE tables
              /\ gui' = IF make THEN Len(tables) + 1 ELSE gui
    BY <1>7 DEF SaveSettings
  <2>2. CASE x.enabled /\ gui = 0
    <3> DEFINE u == NewTable(Build(disk'))
    <3>1. tables' = Append(tables, u) /\ gui' = Len(tables) + 1
      BY <2>1, <2>2
    <3>2. u.cfg = Build(disk') /\ DOMAIN u.entries = {}
      BY DEF NewTable
    <3> HIDE DEF u
    <3>3. tables'[gui'] = u
      BY <1>0, <3>1, SeqAppended DEF TablesShaped
    <3>4. (EntriesDerived(tables[gui]))'
      BY <3>2, <3>3 DEF EntriesDerived
    <3>5. (tables[gui].cfg = Build(disk))'
      BY <3>2, <3>3 DEF Build
    <3> QED
      BY <3>4, <3>5 DEF ServedInv
  <2>3. CASE ~(x.enabled /\ gui = 0)
    <3>1. gui' = gui /\ (gui # 0 => current # 0)
      BY <2>1, <2>3 DEF ListenerInv
    <3>2. save' # Idle /\ save'.kind = "settings"
      BY <2>1 DEF Idle
    <3> QED
      BY <2>1, <3>1, <3>2 DEF ServedInv
  <2> QED
    BY <2>2, <2>3
<1>8. ASSUME NEW promoted, ApplyRecords(promoted) PROVE ServedInv'
  <2>1. save' # Idle /\ save'.kind = "records"
    BY <1>8 DEF ApplyRecords, Idle
  <2> QED
    BY <2>1 DEF ServedInv
<1>9. CASE RestartEngine
  <2>1. /\ UNCHANGED <<tables, gui, current, disk>> /\ save = Idle
        /\ behind' = (behind \/ vlans' # vlans)
        /\ save' = [at |-> "reload", kind |-> "restart"]
    BY <1>9 DEF RestartEngine
  <2>0. save' # Idle /\ save'.kind = "restart"
    BY <2>1 DEF Idle
  <2>2. SUFFICES ASSUME gui # 0, ~behind' PROVE (tables[gui].cfg = Build(disk) /\ EntriesDerived(tables[gui]))'
    BY <2>0, <2>1 DEF ServedInv
  <2>3. ~behind /\ vlans' = vlans
    BY <2>1, <2>2
  <2>4. tables[gui].cfg = Build(disk) /\ EntriesDerived(tables[gui])
    BY <2>1, <2>2, <2>3 DEF ServedInv
  <2>5. \A t : EntriesDerived(t) => EntriesDerived(t)'
    BY <2>3, DerivedStays DEF EntriesDerived
  <2> QED
    BY <2>1, <2>4, <2>5 DEF Build
<1>10. ASSUME NEW ok, Reload(ok) PROVE ServedInv'
  <2>1. UNCHANGED <<tables, gui, current, disk, vlans, behind>>
    BY <1>10 DEF Reload
  <2>2. save \in [at : {"reload"}, kind : {"settings", "records", "restart"}] /\ save # Idle
    BY <1>0, <1>10 DEF Reload, SavePhases, Idle
  <2>3. (save' = Idle /\ save.kind = "restart") \/ (save' # Idle /\ save'.kind = save.kind)
    <3>1. CASE save.kind = "restart"
      <4>1. save' = Idle
        BY <1>10, <3>1 DEF Reload
      <4> QED
        BY <3>1, <4>1
    <3>2. CASE save.kind # "restart"
      <4>1. save' = [save EXCEPT !.at = "post"]
        BY <1>10, <3>2 DEF Reload
      <4>2. save'.at = "post" /\ save'.kind = save.kind
        BY <2>2, <4>1
      <4> QED
        BY <4>2 DEF Idle
    <3> QED
      BY <3>1, <3>2
  <2>4. \A t : EntriesDerived(t) => EntriesDerived(t)'
    BY <2>1, DerivedStays DEF EntriesDerived
  <2> QED
    BY <2>1, <2>2, <2>3, <2>4 DEF ServedInv, Build
<1>11. CASE RefreshMDNS
  <2>1. UNCHANGED <<gui, disk, vlans>>
    BY <1>11 DEF RefreshMDNS
  <2>2. SUFFICES ASSUME gui # 0 PROVE (tables[gui].cfg = Build(disk) /\ EntriesDerived(tables[gui]))'
    BY <2>1 DEF ServedInv
  <2> DEFINE T == tables[gui]
             u == SetConfig(T, Build(disk))
  <2>3. TableShaped(T) /\ gui \in DOMAIN tables
    BY <1>0, <2>2 DEF TablesShaped
  <2>4. tables' = [tables EXCEPT ![gui] = u]
    BY <1>11, <2>2 DEF RefreshMDNS
  <2> HIDE DEF T
  <2>5. TableShaped(u) /\ u.cfg = Build(disk) /\ EntriesDerived(u)
    BY <2>3, Configured
  <2> HIDE DEF u
  <2>6. tables'[gui] = u
    BY <2>3, <2>4
  <2>7. \A t : EntriesDerived(t) => EntriesDerived(t)'
    BY <2>1, DerivedStays DEF EntriesDerived
  <2>8. (EntriesDerived(tables[gui]))'
    BY <2>1, <2>5, <2>6, <2>7
  <2> QED
    BY <2>1, <2>5, <2>6, <2>8 DEF Build
<1>12. CASE StopMDNS
  BY <1>12 DEF StopMDNS, ServedInv
<1>13. CASE FirstStart
  <2>1. /\ UNCHANGED <<tables, gui, disk, vlans>> /\ save # Idle
        /\ save.kind = "settings" /\ current = 0
    BY <1>13 DEF FirstStart, Idle
  <2>2. \A t : EntriesDerived(t) => EntriesDerived(t)'
    BY <2>1, DerivedStays DEF EntriesDerived
  <2> QED
    BY <2>1, <2>2 DEF ServedInv, Build
<1>14. CASE RestartListener \/ \E x \in Setting : RejectSettings(x)
  <2>1. behind' = TRUE /\ save' = Idle
    BY <1>14 DEF RestartListener, RejectSettings
  <2> QED
    BY <2>1 DEF ServedInv
<1>15. ASSUME NEW b, NEW m, Hear(b, m) \/ PollBrowse(b) \/ BrowseFails(b) \/ BrowseLeaves(b)
       PROVE  UNCHANGED <<tables, gui, behind, save, current, disk, vlans>>
  BY <1>15 DEF Hear, PollBrowse, BrowseFails, BrowseLeaves, serviceVars
<1>16. ASSUME NEW l, NEW z, HearType(l, z) \/ TypesLeave(l)
       PROVE  UNCHANGED <<tables, gui, behind, save, current, disk, vlans>>
  BY <1>16 DEF HearType, TypesLeave, serviceVars
<1>17. ASSUME Tick \/ UNCHANGED vars PROVE UNCHANGED <<tables, gui, behind, save, current, disk, vlans>>
  BY <1>17 DEF Tick, vars, serviceVars
<1>18. ASSUME NEW n, PromoteMDNS(n) \/ DeleteRecord(n) PROVE ServedInv'
  BY <1>8, <1>18 DEF PromoteMDNS, DeleteRecord
<1> QED
  BY <1>1, <1>2, <1>4, <1>5, <1>6, <1>7, <1>9, <1>10, <1>11, <1>12, <1>13, <1>14, <1>15, <1>16, <1>17, <1>18
     DEF Next, BrowseStep, ListenerStep, ServiceStep

\* ServedAsConfigured: between saves the GUI's table carries the configuration on
\* disk and every entry the name and the published state it gives it, also one
\* found before the change or by a browse that was cancelled since.
THEOREM TableAsConfigured == Spec => []ServedAsConfigured
<1>1. Init => ServedInv
  <2> SUFFICES ASSUME Init PROVE ServedInv
    OBVIOUS
  <2>1. PICK x \in Setting : /\ tables = IF x.enabled THEN <<NewTable(Build(disk))>> ELSE <<>>
                             /\ gui = Len(tables)
    BY DEF Init
  <2>2. gui # 0 => tables[gui] = NewTable(Build(disk))
    BY <2>1
  <2> QED
    BY <2>2 DEF ServedInv, EntriesDerived, NewTable
<1>2. ServedInv => ServedAsConfigured
  BY DEF ServedInv, ServedAsConfigured, EntriesDerived
<1> QED
  BY <1>1, <1>2, BridgeShaped, ServedStep, PTL DEF Spec

---------------------------------------------------------------------------
(* What is answered was heard. *)

\* What a step may do to the times keys were heard: a key that is heard is heard
\* now, and a report is one that was due already or of a key that was heard now.
HeardMoves ==
    /\ now' \in {now, now + 1}
    /\ \A k \in DOMAIN heard : k \in DOMAIN heard' /\ heard'[k] \in {heard[k], now}
    /\ \A k \in DOMAIN heard' \ DOMAIN heard : heard'[k] = now
    /\ \A b \in DOMAIN browses' : \A c \in browses'[b].add :
        /\ now' = now
        /\ \/ b \in DOMAIN browses /\ c \in browses[b].add
           \/ c.key \in DOMAIN heard' /\ heard'[c.key] = now

\* Every step moves them so: a report never waits for the clock.
LEMMA HeardMove == Shaped /\ ListenerInv /\ [Next]_vars => HeardMoves
<1> SUFFICES ASSUME Shaped, ListenerInv, [Next]_vars PROVE HeardMoves
  OBVIOUS
<1>1. ASSUME UNCHANGED <<now, heard>>,
             \A b \in DOMAIN browses' : \A c \in browses'[b].add : b \in DOMAIN browses /\ c \in browses[b].add
      PROVE  HeardMoves
  BY <1>1 DEF HeardMoves
<1>2. ASSUME UNCHANGED <<now, heard, browses>> PROVE HeardMoves
  BY <1>1, <1>2
<1>3. ASSUME NEW b \in DOMAIN browses, NEW m \in Message, Hear(b, m) PROVE HeardMoves
  <2> DEFINE r == Ingest(browses[b].state, m, now)
             adds == {Call(b, i, r.state.entries[i]) : i \in r.added}
             keys == {c.key : c \in adds}
             met == [k \in keys |-> now]
  <2>1. /\ browses' = [browses EXCEPT ![b] = browses'[b]]
        /\ browses'[b].add = adds
    BY <1>3, Heard
  <2>2. heard' = Over(met, heard) /\ now' = now
    BY <1>3 DEF Hear
  <2> HIDE DEF adds
  <2>3. DOMAIN met = keys /\ \A k \in keys : met[k] = now
    OBVIOUS
  <2> HIDE DEF met
  <2>4. /\ DOMAIN heard' = keys \cup DOMAIN heard
        /\ \A k \in keys : heard'[k] = now
        /\ \A k \in DOMAIN heard \ keys : heard'[k] = heard[k]
    <3>1. /\ DOMAIN Over(met, heard) = DOMAIN met \cup DOMAIN heard
          /\ \A k \in DOMAIN met : Over(met, heard)[k] = met[k]
          /\ \A k \in DOMAIN heard \ DOMAIN met : Over(met, heard)[k] = heard[k]
      BY Overwritten, Zenon
    <3> QED
      BY <2>2, <2>3, <3>1
  <2>5. \A d \in DOMAIN browses' : d \in DOMAIN browses /\ (d # b => browses'[d] = browses[d])
    BY <2>1
  <2>6. \A c \in adds : c.key \in keys
    OBVIOUS
  <2> HIDE DEF keys
  <2> QED
    BY <2>1, <2>2, <2>4, <2>5, <2>6 DEF HeardMoves
<1>4. ASSUME NEW b \in DOMAIN browses,
             PollBrowse(b) \/ AddInstance(b) \/ RemoveInstance(b) \/ BrowseFails(b) \/ BrowseLeaves(b)
      PROVE  HeardMoves
  <2>1. UNCHANGED <<now, heard>>
    BY <1>4 DEF PollBrowse, AddInstance, RemoveInstance, BrowseFails, BrowseLeaves, ghosts
  <2>2. /\ browses' = [browses EXCEPT ![b] = browses'[b]]
        /\ browses'[b].add \subseteq browses[b].add
    <3>1. CASE PollBrowse(b)
      BY <3>1, PolledOnce
    <3>2. CASE ~PollBrowse(b)
      BY <1>4, <3>2, Reported
    <3> QED
      BY <3>1, <3>2
  <2>3. \A d \in DOMAIN browses' : d \in DOMAIN browses /\ (d # b => browses'[d] = browses[d])
    BY <2>2
  <2> QED
    BY <1>1, <2>1, <2>2, <2>3
<1>5. ASSUME NEW new, browses' = Over([b \in new |-> NewBrowse], browses),
             asked' = Over([b \in new |-> {}], asked), UNCHANGED <<now, heard>>
      PROVE  HeardMoves
  <2>1. DOMAIN asked = DOMAIN browses
    BY DEF Shaped, BrowsesShaped
  <2>2. /\ DOMAIN browses' = new \cup DOMAIN browses /\ DOMAIN asked' = DOMAIN browses'
        /\ \A b \in new : browses'[b] = NewBrowse /\ asked'[b] = {}
        /\ \A b \in DOMAIN browses \ new : browses'[b] = browses[b] /\ asked'[b] = asked[b]
    BY <1>5, <2>1, Started
  <2> QED
    BY <1>1, <1>5, <2>2, NewBrowseShaped
<1>6. ASSUME NEW l, NEW z, HearType(l, z) PROVE HeardMoves
  <2> DEFINE new == {<<l, z>>}
  <2>1. /\ browses' = Over([b \in new |-> NewBrowse], browses)
        /\ asked' = Over([b \in new |-> {}], asked) /\ UNCHANGED <<now, heard>>
    BY <1>6 DEF HearType
  <2> HIDE DEF new
  <2> QED
    BY <1>5, <2>1
<1>7. ASSUME NEW s, StartMDNS(gui, disk.settings, s), UNCHANGED <<now, heard>> PROVE HeardMoves
  <2> DEFINE new == IF disk.settings.dynamic THEN {} ELSE {<<Len(s) + 1, z>> : z \in disk.settings.services}
  <2>1. /\ browses' = Over([b \in new |-> NewBrowse], browses)
        /\ asked' = Over([b \in new |-> {}], asked)
    BY <1>7 DEF StartMDNS
  <2> HIDE DEF new
  <2> QED
    BY <1>5, <1>7, <2>1
<1>8. CASE FirstStart \/ RestartListener
  BY <1>7, <1>8 DEF FirstStart, RestartListener
<1>9. CASE Tick
  <2>1. /\ now' = now + 1 /\ heard' = heard /\ DOMAIN browses' = DOMAIN browses
        /\ \A b \in DOMAIN browses : browses'[b] = [browses[b] EXCEPT !.polled = FALSE]
        /\ \A b \in DOMAIN browses : browses[b].at = "run" => Waiting(b)
    BY <1>9 DEF Tick, ghosts
  <2>2. ASSUME NEW b \in DOMAIN browses PROVE browses'[b].add = {}
    <3> DEFINE w == browses[b]
               v == browses'[b]
    <3>1. v = [w EXCEPT !.polled = FALSE] /\ BrowseShaped(b, w)
      BY <2>1 DEF Shaped, BrowsesShaped
    <3>2. w.at = "run" => w.add = {}
      BY <2>1 DEF Waiting
    <3> HIDE DEF w, v
    <3>3. v.add = w.add
      BY <3>1 DEF BrowseShaped
    <3> QED
      BY <3>1, <3>2, <3>3 DEF BrowseShaped, v
  <2> QED
    BY <2>1, <2>2 DEF HeardMoves
<1>10. ASSUME NEW l, TypesLeave(l) \/ ExpireTable(l) PROVE UNCHANGED <<now, heard, browses>>
  BY <1>10 DEF TypesLeave, ExpireTable, ghosts
<1>11. ASSUME NEW x, NEW n, SaveSettings(x) \/ RejectSettings(x) \/ PromoteMDNS(n) \/ DeleteRecord(n) \/ RestartEngine
       PROVE  UNCHANGED <<now, heard, browses>>
  BY <1>11 DEF SaveSettings, RejectSettings, PromoteMDNS, DeleteRecord, ApplyRecords, RestartEngine, ghosts
<1>12. ASSUME NEW n, NEW q, Reload(q) \/ RefreshMDNS \/ StopMDNS \/ SetPublished(n, q) \/ UNCHANGED vars
       PROVE  UNCHANGED <<now, heard, browses>>
  BY <1>12 DEF Reload, RefreshMDNS, StopMDNS, SetPublished, vars, ghosts
<1> QED
  BY <1>2, <1>3, <1>4, <1>6, <1>8, <1>9, <1>10, <1>11, <1>12 DEF Next, BrowseStep, ListenerStep, ServiceStep

\* Every step keeps HeardInv.
LEMMA HeardStep == Shaped /\ ListenerInv /\ HeardInv /\ [Next]_vars => HeardInv'
<1> SUFFICES ASSUME Shaped, ListenerInv, HeardInv, [Next]_vars PROVE HeardInv'
  OBVIOUS
<1>1. HeardMoves /\ TablesMove /\ TablesShaped'
  BY HeardMove, TablesStep
<1>2. now \in Nat /\ now' \in Nat /\ now <= now'
  <2>1. now \in Nat
    BY BoundsAssumption DEF Shaped, FilesShaped
  <2> QED
    BY <1>1, <2>1 DEF HeardMoves
<1>3. \A k \in DOMAIN heard : heard[k] \in Nat /\ heard[k] <= now
  BY <1>2 DEF HeardInv
<1>4. /\ \A k \in DOMAIN heard : k \in DOMAIN heard' /\ heard'[k] \in {heard[k], now}
      /\ \A k \in DOMAIN heard' \ DOMAIN heard : heard'[k] = now
  BY <1>1 DEF HeardMoves
<1>5. \A k \in DOMAIN heard' : heard'[k] \in 0 .. now'
  BY <1>2, <1>3, <1>4
<1>6. ASSUME NEW t \in DOMAIN tables', NEW k \in DOMAIN tables'[t].entries
      PROVE  k \in DOMAIN heard' /\ tables'[t].entries[k].lastSeen <= heard'[k]
  <2>1. t \in DOMAIN tables /\ EntriesKept(tables[t], tables'[t])
    BY <1>1, <1>6 DEF TablesMove
  <2>2. CASE /\ k \in DOMAIN tables[t].entries
             /\ tables'[t].entries[k].lastSeen = tables[t].entries[k].lastSeen
    <3>1. /\ k \in DOMAIN heard /\ tables[t].entries[k].lastSeen <= heard[k]
          /\ tables[t].entries[k].lastSeen \in Nat
      BY <2>1, <2>2 DEF HeardInv, Shaped, TablesShaped, TableShaped
    <3> QED
      BY <1>2, <1>3, <1>4, <2>2, <3>1
  <2>3. CASE /\ tables'[t].entries[k].lastSeen = now
             /\ \E b \in DOMAIN browses : \E c \in browses[b].add : c.key = k
    <3>1. k \in DOMAIN heard /\ heard[k] = now
      BY <2>3 DEF HeardInv
    <3> QED
      BY <1>2, <1>4, <2>3, <3>1
  <2> QED
    BY <2>1, <2>2, <2>3 DEF EntriesKept
<1>7. ASSUME NEW b \in DOMAIN browses', NEW c \in browses'[b].add
      PROVE  c.key \in DOMAIN heard' /\ heard'[c.key] = now'
  BY <1>1, <1>4 DEF HeardMoves, HeardInv
<1> QED
  BY <1>5, <1>6, <1>7 DEF HeardInv

\* AnswersWereHeard: whatever may be answered or listed was announced within its
\* TTL, whichever browse found it and whatever became of that browse since: no
\* lost goodbye, late report or restart keeps an entry longer.
THEOREM AnswersHeard == Spec => []AnswersWereHeard
<1>1. Init => HeardInv
  <2> SUFFICES ASSUME Init PROVE HeardInv
    OBVIOUS
  <2>1. PICK x \in Setting : tables = IF x.enabled THEN <<NewTable(Build(disk))>> ELSE <<>>
    BY DEF Init
  <2>2. \A t \in DOMAIN tables : DOMAIN tables[t].entries = {}
    BY <2>1 DEF NewTable
  <2>3. \A b \in DOMAIN browses : browses[b].add = {}
    BY NewBrowseShaped DEF Init
  <2>4. DOMAIN heard = {}
    BY DEF Init
  <2> QED
    BY <2>2, <2>3, <2>4 DEF HeardInv
<1>2. Shaped /\ HeardInv => AnswersWereHeard
  <2> SUFFICES ASSUME Shaped, HeardInv, NEW t \in DOMAIN tables, NEW k \in Live(tables[t])
               PROVE  k \in DOMAIN heard /\ now - heard[k] <= tables[t].entries[k].ttl
    BY DEF AnswersWereHeard
  <2>1. k \in DOMAIN tables[t].entries /\ ~(now - tables[t].entries[k].lastSeen > tables[t].entries[k].ttl)
    BY DEF Live, TableExpired
  <2>2. /\ now \in Nat /\ tables[t].entries[k].ttl \in Nat /\ tables[t].entries[k].lastSeen \in Nat
    BY <2>1, BoundsAssumption DEF Shaped, FilesShaped, TablesShaped, TableShaped
  <2>3. /\ k \in DOMAIN heard /\ heard[k] \in 0 .. now
        /\ tables[t].entries[k].lastSeen <= heard[k]
    BY <2>1 DEF HeardInv
  <2> QED
    BY <2>1, <2>2, <2>3
<1> QED
  BY <1>1, <1>2, BridgeShaped, HeardStep, PTL DEF Spec

---------------------------------------------------------------------------
(* What is dropped was asked for. *)

\* AskedInv and AskedBeforeDropped of one browse.
AskedOf(w, a, n) ==
    w.at = "run" => \A i \in DOMAIN w.state.cache :
        /\ w.state.cache[i].refreshesSent > 0 => i \in a
        /\ w.polled /\ 100 * Elapsed(w.state.cache[i], n) >= 80 * w.state.cache[i].ttl => i \in a
        /\ Expired(w.state.cache[i], n) /\ w.state.cache[i].ttl >= 5 => i \in a

\* A record of a browse has numbers in it.
LEMMA RecordTyped ==
    ASSUME NEW state, NEW n \in Nat, StateShaped(state, n), NEW i \in DOMAIN state.cache
    PROVE  /\ state.cache[i].ttl \in Nat \ {0} /\ state.cache[i].storedAt \in Nat
           /\ state.cache[i].refreshesSent \in Nat /\ state.cache[i].storedAt <= n
<1>1. state.cache[i] \in CacheRecord /\ state.cache[i].storedAt <= n
  BY DEF StateShaped
<1>2. /\ state.cache[i].ttl \in TTL /\ state.cache[i].storedAt \in Nat
      /\ state.cache[i].refreshesSent \in 0 .. Cardinality(refreshThresholds)
  BY <1>1 DEF CacheRecord
<1>3. Cardinality(refreshThresholds) \in Nat
  BY Thresholds
<1>4. state.cache[i].refreshesSent \in Nat
  BY <1>2, <1>3
<1> QED
  BY <1>1, <1>2, <1>4, TTLAssumption

\* A message that is taken: what it met starts anew, the rest is as it was.
LEMMA AskedHeard ==
    ASSUME Shaped, NEW b \in DOMAIN browses, NEW m \in Message, Hear(b, m),
           AskedOf(browses[b], asked[b], now)
    PROVE  AskedOf(browses'[b], asked'[b], now)
<1> DEFINE w == browses[b]
           v == browses'[b]
           st == w.state
           r == Ingest(st, m, now)
<1>1. now \in Nat /\ StateShaped(st, now) /\ Parsed(m)
  BY BoundsAssumption, MessageAssumption DEF Shaped, FilesShaped, BrowsesShaped
<1>2. v.at = w.at /\ v.polled = w.polled /\ v.state = r.state /\ w.at = "run"
  BY Heard
<1>3. asked'[b] = asked[b] \ DOMAIN m.ptr
  BY DEF Hear, Shaped, BrowsesShaped
<1> HIDE DEF st
<1>4. /\ StateShaped(r.state, now)
      /\ \A i \in DOMAIN r.state.cache :
            \/ i \in DOMAIN st.cache \ DOMAIN m.ptr /\ r.state.cache[i] = st.cache[i]
            \/ i \in DOMAIN m.ptr /\ r.state.cache[i] = Stored(m.ptr[i], now)
                 /\ r.state.cache[i].ttl > 0
  BY <1>1, Ingested
<1> DEFINE ns == r.state
<1>5. StateShaped(ns, now)
  BY <1>4
<1> HIDE DEF r, v, w
<1>6. ASSUME NEW i \in DOMAIN ns.cache
      PROVE  /\ ns.cache[i].refreshesSent > 0 => i \in asked'[b]
             /\ v.polled /\ 100 * Elapsed(ns.cache[i], now) >= 80 * ns.cache[i].ttl => i \in asked'[b]
             /\ Expired(ns.cache[i], now) /\ ns.cache[i].ttl >= 5 => i \in asked'[b]
  <2>1. CASE i \in DOMAIN st.cache \ DOMAIN m.ptr /\ ns.cache[i] = st.cache[i]
    <3>1. /\ st.cache[i].refreshesSent > 0 => i \in asked[b]
          /\ w.polled /\ 100 * Elapsed(st.cache[i], now) >= 80 * st.cache[i].ttl => i \in asked[b]
          /\ Expired(st.cache[i], now) /\ st.cache[i].ttl >= 5 => i \in asked[b]
      BY <1>2, <2>1 DEF AskedOf, st, w
    <3> QED
      BY <1>2, <1>3, <2>1, <3>1
  <2>2. CASE ns.cache[i] = Stored(m.ptr[i], now)
    <3>1. ns.cache[i].ttl \in Nat \ {0}
      BY <1>1, <1>5, RecordTyped
    <3>2. ns.cache[i].storedAt = now /\ ns.cache[i].refreshesSent = 0
      BY <2>2 DEF Stored
    <3>3. Elapsed(ns.cache[i], now) = 0
      BY <1>1, <3>2 DEF Elapsed
    <3> QED
      BY <3>1, <3>2, <3>3 DEF Expired
  <2> QED
    BY <1>4, <2>1, <2>2
<1>7. v.state = ns
  BY <1>2
<1> HIDE DEF ns
<1> QED
  BY <1>6, <1>7 DEF AskedOf, v

\* A poll: what is past a threshold is asked for, and what expired is gone.
LEMMA AskedPolled ==
    ASSUME Shaped, NEW b \in DOMAIN browses, PollBrowse(b), AskedOf(browses[b], asked[b], now)
    PROVE  AskedOf(browses'[b], asked'[b], now)
<1> DEFINE w == browses[b]
           v == browses'[b]
           st == w.state
           r == Poll(st, now)
<1>1. now \in Nat /\ StateShaped(st, now)
  BY BoundsAssumption DEF Shaped, FilesShaped, BrowsesShaped
<1>2. v.at = w.at /\ v.state = r.state /\ w.at = "run"
  BY PolledOnce
<1>3. asked'[b] = (asked[b] \cup r.asked) \cap DOMAIN r.state.cache
  BY DEF PollBrowse, Shaped, BrowsesShaped
<1> HIDE DEF st
<1>4. \A i \in DOMAIN r.state.cache :
          /\ i \in DOMAIN st.cache
          /\ r.state.cache[i].ttl = st.cache[i].ttl
          /\ r.state.cache[i].storedAt = st.cache[i].storedAt
          /\ ~Expired(st.cache[i], now)
          /\ \/ r.state.cache[i].refreshesSent > 0
             \/ 100 * Elapsed(r.state.cache[i], now) >= 80 * r.state.cache[i].ttl
             => i \in r.asked \/ st.cache[i].refreshesSent > 0
  BY <1>1, Polled
<1>5. \A i \in DOMAIN st.cache : st.cache[i].refreshesSent > 0 => i \in asked[b]
  BY <1>2 DEF AskedOf, st
<1>6. \A i \in DOMAIN r.state.cache : ~Expired(r.state.cache[i], now)
  BY <1>4 DEF Expired, Elapsed
<1> HIDE DEF r
<1>7. ASSUME NEW i \in DOMAIN r.state.cache
      PROVE  /\ r.state.cache[i].refreshesSent > 0 => i \in asked'[b]
             /\ 100 * Elapsed(r.state.cache[i], now) >= 80 * r.state.cache[i].ttl => i \in asked'[b]
  BY <1>3, <1>4, <1>5
<1> QED
  BY <1>2, <1>6, <1>7 DEF AskedOf

\* The clock: a record that expires with this unit was past a threshold at the
\* last poll, if its TTL is five units or more.
LEMMA AskedTicked ==
    ASSUME Shaped, Tick, NEW b \in DOMAIN browses, AskedOf(browses[b], asked[b], now)
    PROVE  AskedOf(browses'[b], asked'[b], now')
<1> DEFINE w == browses[b]
           v == browses'[b]
           st == w.state
<1>1. now \in Nat /\ StateShaped(st, now) /\ DOMAIN w = {"at", "state", "add", "rmv", "polled"}
  BY BoundsAssumption DEF Shaped, FilesShaped, BrowsesShaped, BrowseShaped
<1>2. /\ now' = now + 1 /\ asked' = asked /\ v = [w EXCEPT !.polled = FALSE]
      /\ w.at = "run" => w.polled
  BY DEF Tick, ghosts
<1>3. v.at = w.at /\ v.state = st /\ v.polled = FALSE
  BY <1>1, <1>2
<1> SUFFICES ASSUME w.at = "run", NEW i \in DOMAIN st.cache
             PROVE  /\ st.cache[i].refreshesSent > 0 => i \in asked[b]
                    /\ Expired(st.cache[i], now') /\ st.cache[i].ttl >= 5 => i \in asked[b]
  BY <1>2, <1>3 DEF AskedOf
<1>4. /\ st.cache[i].refreshesSent > 0 => i \in asked[b]
      /\ 100 * Elapsed(st.cache[i], now) >= 80 * st.cache[i].ttl => i \in asked[b]
  BY <1>2 DEF AskedOf
<1> HIDE DEF st
<1>5. st.cache[i].ttl \in Nat \ {0} /\ st.cache[i].storedAt \in Nat
  BY <1>1, RecordTyped
<1>6. ASSUME Expired(st.cache[i], now'), st.cache[i].ttl >= 5
      PROVE  100 * Elapsed(st.cache[i], now) >= 80 * st.cache[i].ttl
  <2>1. now' - st.cache[i].storedAt >= st.cache[i].ttl
    BY <1>6 DEF Expired, Elapsed
  <2>2. now' = now + 1
    BY <1>2
  <2> QED
    BY <1>1, <1>5, <1>6, <2>1, <2>2 DEF Elapsed
<1> QED
  BY <1>4, <1>6

\* Every step keeps what AskedBeforeDropped needs.
LEMMA AskedStep ==
    Shaped /\ ListenerInv /\ AskedInv /\ AskedBeforeDropped /\ [Next]_vars => (AskedInv /\ AskedBeforeDropped)'
<1> SUFFICES ASSUME Shaped, ListenerInv, AskedInv, AskedBeforeDropped, [Next]_vars
             PROVE  (AskedInv /\ AskedBeforeDropped)'
  OBVIOUS
<1>0. DOMAIN asked = DOMAIN browses /\ \A b \in DOMAIN browses : AskedOf(browses[b], asked[b], now)
  BY DEF AskedOf, AskedInv, AskedBeforeDropped, Shaped, BrowsesShaped
<1> DEFINE Goal == \A b \in DOMAIN browses' : AskedOf(browses'[b], asked'[b], now')
<1> SUFFICES Goal
  BY DEF AskedOf, AskedInv, AskedBeforeDropped
<1>1. ASSUME UNCHANGED <<now, browses, asked>> PROVE Goal
  BY <1>0, <1>1
<1>2. ASSUME NEW b \in DOMAIN browses, DOMAIN browses' = DOMAIN browses, now' = now,
             \A d \in DOMAIN browses : d # b => browses'[d] = browses[d] /\ asked'[d] = asked[d],
             AskedOf(browses'[b], asked'[b], now)
      PROVE  Goal
  BY <1>0, <1>2
<1>3. ASSUME NEW b \in DOMAIN browses, NEW m \in Message, Hear(b, m) PROVE Goal
  <2>1. AskedOf(browses'[b], asked'[b], now)
    BY <1>0, <1>3, AskedHeard
  <2>2. browses' = [browses EXCEPT ![b] = browses'[b]]
    BY <1>3, Heard
  <2>3. now' = now /\ \A d \in DOMAIN browses : d # b => asked'[d] = asked[d]
    BY <1>0, <1>3 DEF Hear
  <2> QED
    BY <1>2, <2>1, <2>2, <2>3
<1>4. ASSUME NEW b \in DOMAIN browses, PollBrowse(b) PROVE Goal
  <2>1. AskedOf(browses'[b], asked'[b], now)
    BY <1>0, <1>4, AskedPolled
  <2>2. browses' = [browses EXCEPT ![b] = browses'[b]]
    BY <1>4, PolledOnce
  <2>3. now' = now /\ \A d \in DOMAIN browses : d # b => asked'[d] = asked[d]
    BY <1>0, <1>4 DEF PollBrowse
  <2> QED
    BY <1>2, <2>1, <2>2, <2>3
<1>5. ASSUME NEW b \in DOMAIN browses,
             AddInstance(b) \/ RemoveInstance(b) \/ BrowseFails(b) \/ BrowseLeaves(b)
      PROVE  Goal
  <2> DEFINE w == browses[b]
             v == browses'[b]
  <2>1. /\ browses' = [browses EXCEPT ![b] = v]
        /\ v.polled = w.polled /\ v.state = w.state /\ (v.at = "run" => w.at = "run")
    BY <1>5, Reported
  <2>2. UNCHANGED <<now, asked>>
    BY <1>5 DEF AddInstance, RemoveInstance, BrowseFails, BrowseLeaves, ghosts
  <2>3. AskedOf(w, asked[b], now)
    BY <1>0
  <2>4. DOMAIN browses' = DOMAIN browses /\ \A d \in DOMAIN browses : d # b => browses'[d] = browses[d]
    BY <2>1
  <2> HIDE DEF w, v
  <2>5. AskedOf(v, asked'[b], now)
    BY <2>1, <2>2, <2>3 DEF AskedOf
  <2> QED
    BY <1>2, <2>2, <2>4, <2>5 DEF v
<1>6. ASSUME NEW new, browses' = Over([b \in new |-> NewBrowse], browses),
             asked' = Over([b \in new |-> {}], asked), now' = now
      PROVE  Goal
  <2>1. /\ DOMAIN browses' = new \cup DOMAIN browses /\ DOMAIN asked' = DOMAIN browses'
        /\ \A b \in new : browses'[b] = NewBrowse /\ asked'[b] = {}
        /\ \A b \in DOMAIN browses \ new : browses'[b] = browses[b] /\ asked'[b] = asked[b]
    BY <1>0, <1>6, Started
  <2>2. \A b \in new : AskedOf(browses'[b], asked'[b], now')
    BY <2>1, NewBrowseShaped DEF AskedOf
  <2>3. \A b \in DOMAIN browses \ new : AskedOf(browses'[b], asked'[b], now')
    BY <1>0, <1>6, <2>1
  <2> QED
    BY <2>1, <2>2, <2>3
<1>7. ASSUME NEW l, NEW z, HearType(l, z) PROVE Goal
  <2> DEFINE new == {<<l, z>>}
  <2>1. /\ browses' = Over([b \in new |-> NewBrowse], browses)
        /\ asked' = Over([b \in new |-> {}], asked) /\ now' = now
    BY <1>7 DEF HearType
  <2> HIDE DEF new, Goal
  <2> QED
    BY <1>6, <2>1
<1>8. ASSUME NEW s, StartMDNS(gui, disk.settings, s), now' = now PROVE Goal
  <2> DEFINE new == IF disk.settings.dynamic THEN {} ELSE {<<Len(s) + 1, z>> : z \in disk.settings.services}
  <2>1. /\ browses' = Over([b \in new |-> NewBrowse], browses)
        /\ asked' = Over([b \in new |-> {}], asked)
    BY <1>8 DEF StartMDNS
  <2> HIDE DEF new, Goal
  <2> QED
    BY <1>6, <1>8, <2>1
<1>9. CASE Tick
  <2>1. DOMAIN browses' = DOMAIN browses
    BY <1>9 DEF Tick
  <2> QED
    BY <1>0, <1>9, <2>1, AskedTicked
<1> HIDE DEF Goal
<1>10. CASE FirstStart \/ RestartListener
  BY <1>8, <1>10 DEF FirstStart, RestartListener
<1>11. ASSUME NEW l, TypesLeave(l) \/ ExpireTable(l) PROVE UNCHANGED <<now, browses, asked>>
  BY <1>11 DEF TypesLeave, ExpireTable, ghosts
<1>12. ASSUME NEW x, NEW n, SaveSettings(x) \/ RejectSettings(x) \/ PromoteMDNS(n) \/ DeleteRecord(n) \/ RestartEngine
       PROVE  UNCHANGED <<now, browses, asked>>
  BY <1>12 DEF SaveSettings, RejectSettings, PromoteMDNS, DeleteRecord, ApplyRecords, RestartEngine, ghosts
<1>13. ASSUME NEW n, NEW q, Reload(q) \/ RefreshMDNS \/ StopMDNS \/ SetPublished(n, q) \/ UNCHANGED vars
       PROVE  UNCHANGED <<now, browses, asked>>
  BY <1>13 DEF Reload, RefreshMDNS, StopMDNS, SetPublished, vars, ghosts
<1> QED
  BY <1>1, <1>3, <1>4, <1>5, <1>7, <1>9, <1>10, <1>11, <1>12, <1>13 DEF Next, BrowseStep, ListenerStep, ServiceStep

\* AskedBeforeDropped: an instance whose TTL is five polls or more is never given
\* up before a query asked for it, without offering it as known, since it was
\* last met.
THEOREM DroppedWasAsked == Spec => []AskedBeforeDropped
<1>1. Init => AskedInv /\ AskedBeforeDropped
  <2> SUFFICES ASSUME Init PROVE AskedInv /\ AskedBeforeDropped
    OBVIOUS
  <2>1. \A b \in DOMAIN browses : DOMAIN browses[b].state.cache = {}
    BY NewBrowseShaped DEF Init
  <2> QED
    BY <2>1 DEF AskedInv, AskedBeforeDropped
<1> QED
  BY <1>1, BridgeShaped, AskedStep, PTL DEF Spec

---------------------------------------------------------------------------
(* What is known is listed. *)

\* KnownInv of one instance of a browse w of type b[2] that feeds table t.
Listed(b, w, i, t, un, n) ==
    Resolvable(w.state.entries[i]) =>
        LET c == Call(b, i, w.state.entries[i])
        IN \/ c \in w.add \/ c.key \in un
           \/ Expired(w.state.cache[i], n)
           \/ Outlasts(t, c.key, w.state.cache[i])

\* What a step may do to a key: it stays undone, and its entry stays for as long
\* as it was to, unless it is undone or had expired.
KeepsKey(k, t, u, un, un2) ==
    /\ k \in un => k \in un2
    /\ k \in DOMAIN t.entries =>
        \/ k \in un2
        \/ now - t.entries[k].lastSeen > t.entries[k].ttl
        \/ /\ k \in DOMAIN u.entries
           /\ u.entries[k].lastSeen >= t.entries[k].lastSeen
           /\ u.entries[k].ttl >= t.entries[k].ttl

\* Such a step keeps an instance listed.
LEMMA ListedKept ==
    ASSUME NEW b, NEW w, NEW v, NEW i, NEW t, NEW u, NEW un, NEW un2, NEW n \in Nat, now \in Nat, now <= n,
           StateShaped(w.state, now), TableShaped(t), TableShaped(u), i \in DOMAIN w.state.entries,
           v.state.entries[i] = w.state.entries[i],
           v.state.cache[i].ttl = w.state.cache[i].ttl,
           v.state.cache[i].storedAt = w.state.cache[i].storedAt,
           Call(b, i, w.state.entries[i]) \in w.add => Call(b, i, w.state.entries[i]) \in v.add,
           KeepsKey(Call(b, i, w.state.entries[i]).key, t, u, un, un2),
           Listed(b, w, i, t, un, now)
    PROVE  Listed(b, v, i, u, un2, n)
<1> DEFINE e == w.state.entries[i]
           r == w.state.cache[i]
           s == v.state.cache[i]
           c == Call(b, i, e)
           k == c.key
<1> SUFFICES ASSUME Resolvable(e)
             PROVE  c \in v.add \/ k \in un2 \/ Expired(s, n) \/ Outlasts(u, k, s)
  BY DEF Listed
<1>1. c \in w.add \/ k \in un \/ Expired(r, now) \/ Outlasts(t, k, r)
  BY DEF Listed
<1>2. r.ttl \in Nat \ {0} /\ r.storedAt \in Nat
  <2> DEFINE st == w.state
  <2>1. StateShaped(st, now) /\ i \in DOMAIN st.cache
    BY DEF StateShaped
  <2> HIDE DEF st
  <2>2. st.cache[i].ttl \in Nat \ {0} /\ st.cache[i].storedAt \in Nat
    BY <2>1, RecordTyped
  <2> QED
    BY <2>2 DEF st
<1>3. s.ttl = r.ttl /\ s.storedAt = r.storedAt
  OBVIOUS
<1>4. c \in w.add => c \in v.add
  OBVIOUS
<1>5. KeepsKey(k, t, u, un, un2)
  OBVIOUS
<1> HIDE DEF e, r, s, c, k
<1>6. CASE Expired(r, now)
  <2>1. now - r.storedAt >= r.ttl
    BY <1>6 DEF Expired, Elapsed
  <2>2. n - s.storedAt >= s.ttl
    BY <1>2, <1>3, <2>1
  <2> QED
    BY <2>2 DEF Expired, Elapsed
<1>7. CASE Outlasts(t, k, r)
  <2>1. k \in DOMAIN t.entries /\ t.entries[k].lastSeen >= r.storedAt /\ t.entries[k].ttl >= r.ttl
    BY <1>7 DEF Outlasts
  <2>2. t.entries[k].lastSeen \in Nat /\ t.entries[k].ttl \in Nat
    BY <2>1 DEF TableShaped
  <2>3. CASE now - t.entries[k].lastSeen > t.entries[k].ttl
    <3>1. n - s.storedAt >= s.ttl
      BY <1>2, <1>3, <2>1, <2>2, <2>3
    <3> QED
      BY <3>1 DEF Expired, Elapsed
  <2>4. CASE /\ k \in DOMAIN u.entries
             /\ u.entries[k].lastSeen >= t.entries[k].lastSeen
             /\ u.entries[k].ttl >= t.entries[k].ttl
    <3>1. u.entries[k].lastSeen \in Nat /\ u.entries[k].ttl \in Nat
      BY <2>4 DEF TableShaped
    <3>2. u.entries[k].lastSeen >= s.storedAt /\ u.entries[k].ttl >= s.ttl
      BY <1>2, <1>3, <2>1, <2>2, <2>4, <3>1
    <3> QED
      BY <2>4, <3>2 DEF Outlasts
  <2> QED
    BY <1>5, <2>1, <2>3, <2>4 DEF KeepsKey
<1> QED
  BY <1>1, <1>4, <1>5, <1>6, <1>7 DEF KeepsKey

\* An entry that stays as it is.
LEMMA KeyUntouched ==
    ASSUME NEW k, NEW t, NEW u, NEW un, NEW un2, TableShaped(t), k \in un => k \in un2,
           k \in DOMAIN t.entries => k \in DOMAIN u.entries /\ u.entries[k] = t.entries[k]
    PROVE  KeepsKey(k, t, u, un, un2)
<1>1. k \in DOMAIN t.entries => t.entries[k].lastSeen \in Nat /\ t.entries[k].ttl \in Nat
  BY DEF TableShaped
<1> QED
  BY <1>1 DEF KeepsKey

\* A step leaves the listeners there were with their tables, and turns none on.
LEMMA ListenersKept ==
    Shaped /\ ListenerInv /\ [Next]_vars =>
        \A l \in DOMAIN listeners : /\ l \in DOMAIN listeners' /\ listeners'[l].table = listeners[l].table
                                    /\ listeners'[l].on => listeners[l].on
<1> DEFINE Kept(s) == \A l \in DOMAIN listeners : /\ l \in DOMAIN s /\ s[l].table = listeners[l].table
                                                  /\ s[l].on => listeners[l].on
<1> SUFFICES ASSUME Shaped, ListenerInv, [Next]_vars PROVE Kept(listeners')
  OBVIOUS
<1>0. listeners \in Seq(Range(listeners)) /\ Kept(listeners)
  BY DEF Shaped, ListenersShaped
<1>1. current # 0 => Kept(Cancel(current)) /\ Cancel(current) \in Seq(Range(Cancel(current)))
  BY Cancelling
<1>2. ASSUME NEW l, TypesLeave(l) PROVE Kept(listeners')
  <2> DEFINE o == listeners[l]
             x == [o EXCEPT !.types = FALSE]
  <2>1. l \in DOMAIN listeners /\ listeners' = [listeners EXCEPT ![l] = x]
    BY <1>2 DEF TypesLeave
  <2>2. DOMAIN o = {"table", "params", "types", "on"}
    BY <2>1 DEF Shaped, ListenersShaped, ListenerShaped
  <2> HIDE DEF o
  <2>3. x.table = o.table /\ x.on = o.on
    BY <2>2
  <2> HIDE DEF x
  <2> QED
    BY <2>1, <2>3 DEF o
<1>3. CASE StopMDNS
  BY <1>0, <1>1, <1>3 DEF StopMDNS
<1>4. ASSUME NEW s, s \in Seq(Range(s)), Kept(s), StartMDNS(gui, disk.settings, s) PROVE Kept(listeners')
  <2>1. DOMAIN s \subseteq DOMAIN listeners' /\ \A l \in DOMAIN s : listeners'[l] = s[l]
    BY <1>4, Starting
  <2> QED
    BY <1>4, <2>1
<1> HIDE DEF Kept
<1>5. CASE FirstStart
  BY <1>0, <1>4, <1>5 DEF FirstStart
<1>6. CASE RestartListener
  BY <1>1, <1>4, <1>6 DEF RestartListener
<1>7. ASSUME NEW b, BrowseStep(b) PROVE UNCHANGED listeners
  BY <1>7 DEF BrowseStep, Hear, PollBrowse, AddInstance, RemoveInstance, BrowseFails, BrowseLeaves, serviceVars
<1>8. ASSUME NEW l, NEW z, HearType(l, z) \/ ExpireTable(l) PROVE UNCHANGED listeners
  BY <1>8 DEF HearType, ExpireTable, serviceVars
<1>9. ASSUME NEW x, NEW n, SaveSettings(x) \/ RejectSettings(x) \/ PromoteMDNS(n) \/ DeleteRecord(n) \/ RestartEngine
      PROVE  UNCHANGED listeners
  BY <1>9 DEF SaveSettings, RejectSettings, PromoteMDNS, DeleteRecord, ApplyRecords, RestartEngine
<1>10. ASSUME NEW n, NEW q, Reload(q) \/ RefreshMDNS \/ SetPublished(n, q) \/ Tick \/ UNCHANGED vars
       PROVE  UNCHANGED listeners
  BY <1>10 DEF Reload, RefreshMDNS, SetPublished, Tick, vars, serviceVars
<1> QED
  BY <1>0, <1>2, <1>3, <1>5, <1>6, <1>7, <1>8, <1>9, <1>10 DEF Next, ListenerStep, ServiceStep

\* The operations that only lose what expired, derive names again or make a table
\* keep every key.
LEMMA KeysKept ==
    ASSUME Shaped, ListenerInv, undone' = undone,
           \/ tables' = tables \/ RefreshMDNS
           \/ \E x \in Setting : SaveSettings(x)
           \/ \E l \in DOMAIN listeners : ExpireTable(l)
           \/ \E n \in Name, approve \in BOOLEAN : SetPublished(n, approve)
    PROVE  \A t \in DOMAIN tables : \A k : KeepsKey(k, tables[t], tables'[t], undone, undone')
<1> DEFINE Goal == \A t \in DOMAIN tables : \A k : KeepsKey(k, tables[t], tables'[t], undone, undone')
<1>0. /\ TablesShaped /\ tables \in Seq(Range(tables)) /\ now \in Nat
      /\ \A t \in DOMAIN tables : TableShaped(tables[t])
  BY BoundsAssumption DEF Shaped, FilesShaped, TablesShaped
<1>1. \A t \in DOMAIN tables : \A k : KeepsKey(k, tables[t], tables[t], undone, undone')
  BY <1>0 DEF KeepsKey, TableShaped
<1>2. ASSUME \A t \in DOMAIN tables : tables'[t] = tables[t] PROVE Goal
  BY <1>1, <1>2
<1>3. ASSUME NEW g \in DOMAIN tables, NEW u, tables' = [tables EXCEPT ![g] = u],
             \A k \in DOMAIN tables[g].entries :
                 \/ now - tables[g].entries[k].lastSeen > tables[g].entries[k].ttl
                 \/ /\ k \in DOMAIN u.entries
                    /\ u.entries[k].lastSeen = tables[g].entries[k].lastSeen
                    /\ u.entries[k].ttl = tables[g].entries[k].ttl
      PROVE  Goal
  <2>1. \A k : KeepsKey(k, tables[g], u, undone, undone')
    BY <1>0, <1>3 DEF KeepsKey, TableShaped
  <2>2. \A t \in DOMAIN tables : tables'[t] = IF t = g THEN u ELSE tables[t]
    BY <1>3
  <2> QED
    BY <1>1, <2>1, <2>2
<1> HIDE DEF Goal
<1>4. ASSUME NEW x \in Setting, SaveSettings(x) PROVE Goal
  <2>1. tables' = tables \/ tables' = Append(tables, NewTable(Build(disk')))
    BY <1>4 DEF SaveSettings
  <2> DEFINE nt == NewTable(Build(disk'))
  <2> HIDE DEF nt
  <2>2. \A t \in DOMAIN tables : Append(tables, nt)[t] = tables[t]
    BY <1>0, SeqAppended
  <2> QED
    BY <1>2, <2>1, <2>2 DEF nt
<1>5. ASSUME NEW l \in DOMAIN listeners, ExpireTable(l) PROVE Goal
  <2> DEFINE g == listeners[l].table
             T == tables[g]
             S == Live(T)
             u == [T EXCEPT !.entries = Restrict(T.entries, S)]
  <2>1. tables' = [tables EXCEPT ![g] = u]
    BY <1>5 DEF ExpireTable, Expire
  <2>2. g \in DOMAIN tables /\ TableShaped(T) /\ S \subseteq DOMAIN T.entries
    BY <1>0 DEF Shaped, ListenersShaped, ListenerShaped, Live
  <2>3. \A k \in DOMAIN T.entries \ S : now - T.entries[k].lastSeen > T.entries[k].ttl
    BY DEF Live, TableExpired
  <2> HIDE DEF g, T, S
  <2>4. DOMAIN u.entries = S /\ \A j \in S : u.entries[j] = T.entries[j]
    BY <2>2, Lost
  <2> HIDE DEF u
  <2>5. \A k \in DOMAIN T.entries : \/ now - T.entries[k].lastSeen > T.entries[k].ttl
                                    \/ /\ k \in DOMAIN u.entries
                                       /\ u.entries[k].lastSeen = T.entries[k].lastSeen
                                       /\ u.entries[k].ttl = T.entries[k].ttl
    BY <2>3, <2>4
  <2> QED
    BY <1>3, <2>1, <2>2, <2>5 DEF T
<1>6. ASSUME RefreshMDNS PROVE Goal
  <2>1. CASE gui = 0
    <3>1. tables' = tables
      BY <1>6, <2>1 DEF RefreshMDNS
    <3> QED
      BY <1>2, <3>1
  <2>2. CASE gui # 0
    <3> DEFINE T == tables[gui]
               u == SetConfig(T, Build(disk))
    <3>1. gui \in DOMAIN tables /\ TableShaped(T)
      BY <1>0, <2>2, TableInUse
    <3>2. tables' = [tables EXCEPT ![gui] = u]
      BY <1>6, <2>2 DEF RefreshMDNS
    <3> HIDE DEF T
    <3>3. /\ DOMAIN u.entries = DOMAIN T.entries
          /\ \A k \in DOMAIN T.entries : /\ u.entries[k].ttl = T.entries[k].ttl
                                         /\ u.entries[k].lastSeen = T.entries[k].lastSeen
      BY <3>1, Configured
    <3> HIDE DEF u
    <3>4. \A k \in DOMAIN T.entries : /\ k \in DOMAIN u.entries
                                      /\ u.entries[k].lastSeen = T.entries[k].lastSeen
                                      /\ u.entries[k].ttl = T.entries[k].ttl
      BY <3>3
    <3> QED
      BY <1>3, <3>1, <3>2, <3>4 DEF T
  <2> QED
    BY <2>1, <2>2
<1>7. ASSUME NEW n, NEW approve, SetPublished(n, approve) PROVE Goal
  <2>1. PICK u : /\ gui \in DOMAIN tables /\ TableShaped(u)
                 /\ tables' = [tables EXCEPT ![gui] = u]
                 /\ DOMAIN u.entries = DOMAIN tables[gui].entries
                 /\ \A k \in DOMAIN u.entries :
                       /\ u.entries[k].ttl = tables[gui].entries[k].ttl
                       /\ u.entries[k].lastSeen = tables[gui].entries[k].lastSeen
    BY <1>7, PublishedSet
  <2> QED
    BY <1>3, <2>1
<1> QED
  BY <1>2, <1>4, <1>5, <1>6, <1>7 DEF Goal

\* Two browses of listeners that are on are of the one that is, and so of
\* different types.
LEMMA OneOfAType ==
    ASSUME Shaped, ListenerInv, NEW b \in DOMAIN browses, NEW d \in DOMAIN browses,
           listeners[b[1]].on, listeners[d[1]].on, b[2] = d[2]
    PROVE  b = d
<1>1. b \in Nat \X Service /\ d \in Nat \X Service /\ b[1] \in DOMAIN listeners /\ d[1] \in DOMAIN listeners
  BY DEF Shaped, BrowsesShaped, Browse
<1>2. b[1] = current /\ d[1] = current
  BY <1>1 DEF ListenerInv
<1> QED
  BY <1>1, <1>2

\* A report that is made: its entry lasts as long as the browse's record, and no
\* entry of another running browse is cut short, unless it is counted as undone.
LEMMA ListedAdded ==
    ASSUME Shaped, ListenerInv, HeardInv, KnownInv, TablesShaped', NEW d \in DOMAIN browses, AddInstance(d),
           NEW b \in DOMAIN browses, browses'[b].at = "run", listeners[b[1]].on,
           NEW i \in DOMAIN browses'[b].state.entries
    PROVE  Listed(b, browses'[b], i, tables'[listeners[b[1]].table], undone', now)
<1> DEFINE w == browses[b]
           v == browses'[b]
           t == listeners[b[1]].table
           g == listeners[d[1]].table
<1>1. PICK c \in browses[d].add :
          /\ tables' = [tables EXCEPT ![g] = Upsert(@, c.key, c.entry)]
          /\ browses' = [browses EXCEPT ![d].add = @ \ {c}]
          /\ undone' = IF listeners[d[1]].on THEN undone \ {c.key}
                       ELSE IF Shortens(tables[g], c) THEN undone \cup {c.key} ELSE undone
  BY DEF AddInstance, Cancelled
<1>2. PICK j \in DOMAIN browses[d].state.entries :
          /\ c = Call(d, j, browses[d].state.entries[j])
          /\ c.key = <<d[2], j, browses[d].state.entries[j].host>> /\ c.key \in Key
          /\ c.entry.ttl = browses[d].state.cache[j].ttl /\ c.entry.ttl \in Nat \ {0}
  BY ReportTyped
<1>3. /\ t \in DOMAIN tables /\ g \in DOMAIN tables /\ now \in Nat
      /\ TableShaped(tables[t]) /\ TableShaped(tables[g]) /\ TableShaped(tables'[t])
      /\ StateShaped(w.state, now)
  <2>1. t \in DOMAIN tables /\ g \in DOMAIN tables /\ now \in Nat /\ DOMAIN tables' = DOMAIN tables
    BY <1>1, ReportTyped, BoundsAssumption DEF Shaped, FilesShaped
  <2> QED
    BY <2>1 DEF Shaped, TablesShaped, BrowsesShaped
<1>4. v.state = w.state /\ w.at = "run"
  <2>1. CASE b = d
    BY <2>1, Reported
  <2>2. CASE b # d
    BY <1>1, <2>2
  <2> QED
    BY <2>1, <2>2
<1>5. w.add \ {c} \subseteq v.add
  <2>1. CASE b = d
    <3> DEFINE x == [w EXCEPT !.add = @ \ {c}]
    <3>1. v = x
      BY <1>1, <2>1
    <3>2. DOMAIN w = {"at", "state", "add", "rmv", "polled"}
      BY DEF Shaped, BrowsesShaped, BrowseShaped
    <3> HIDE DEF w, v
    <3> QED
      BY <3>1, <3>2
  <2>2. CASE b # d
    BY <1>1, <2>2
  <2> QED
    BY <2>1, <2>2
<1> DEFINE e == w.state.entries[i]
           k == Call(b, i, e).key
           G == tables[g]
           u == Upsert(G, c.key, c.entry)
<1>6. /\ DOMAIN u.entries = DOMAIN G.entries \cup {c.key}
      /\ \A q \in DOMAIN G.entries \ {c.key} : u.entries[q] = G.entries[q]
      /\ u.entries[c.key].lastSeen = now /\ u.entries[c.key].ttl = c.entry.ttl
  <2> HIDE DEF G
  <2>1. TableShaped(G) /\ c.key \in Key /\ c.entry.ttl \in Nat /\ c.entry.ttl > 0 /\ now \in Nat
    BY <1>2, <1>3 DEF G
  <2>2. /\ TableShaped(u) /\ DOMAIN u.entries = DOMAIN G.entries \cup {c.key}
        /\ \A q \in DOMAIN G.entries \ {c.key} : u.entries[q] = G.entries[q]
        /\ u.entries[c.key].lastSeen = now /\ (c.entry.ttl > 0 => u.entries[c.key].ttl = c.entry.ttl)
    BY <2>1, Upserted
  <2> QED
    BY <2>1, <2>2
<1>7. tables'[t] = IF t = g THEN u ELSE tables[t]
  BY <1>1, <1>3
<1>8. i \in DOMAIN w.state.entries /\ Listed(b, w, i, tables[t], undone, now)
  BY <1>4 DEF KnownInv, Listed, Cancelled
<1>9. k[1] = b[2] /\ k[2] = i /\ c.key[1] = d[2] /\ c.key[2] = j
  BY <1>2 DEF Call
<1>10. \A q \in DOMAIN G.entries : /\ G.entries[q].lastSeen \in Nat /\ G.entries[q].ttl \in Nat
                                   /\ G.entries[q].lastSeen <= now
  <2>1. \A q \in DOMAIN G.entries : /\ G.entries[q].lastSeen \in Nat /\ G.entries[q].ttl \in Nat
                                    /\ q \in DOMAIN heard /\ G.entries[q].lastSeen <= heard[q]
    BY <1>3 DEF HeardInv, TableShaped
  <2>2. \A q \in DOMAIN heard : heard[q] \in Nat /\ heard[q] <= now
    BY <1>3 DEF HeardInv
  <2> QED
    BY <1>3, <2>1, <2>2
<1>12. CASE k = c.key /\ listeners[d[1]].on
  <2>1. b = d
    BY <1>9, <1>12, OneOfAType
  <2>2. i = j /\ t = g
    BY <1>9, <1>12, <2>1
  <2>3. v.state.cache[i].ttl = c.entry.ttl /\ v.state.entries[i] = e
    BY <1>2, <1>4, <2>1, <2>2
  <2>6. tables'[t] = u
    BY <1>7, <2>2
  <2> DEFINE r == v.state.cache[i]
  <2>7. /\ u.entries[k].lastSeen = now /\ u.entries[k].ttl = r.ttl /\ k \in DOMAIN u.entries
        /\ r.ttl \in Nat /\ now >= r.storedAt /\ r.storedAt \in Nat
    <3> DEFINE st == w.state
    <3>1. StateShaped(st, now) /\ i \in DOMAIN st.cache /\ now \in Nat
      BY <1>3, <1>8 DEF StateShaped
    <3> HIDE DEF st
    <3>2. st.cache[i].ttl \in Nat \ {0} /\ st.cache[i].storedAt \in Nat /\ st.cache[i].storedAt <= now
      BY <3>1, RecordTyped
    <3>3. r = st.cache[i]
      BY <1>4 DEF st
    <3> HIDE DEF u, k, r
    <3>4. k \in DOMAIN u.entries /\ u.entries[k].lastSeen = now /\ u.entries[k].ttl = c.entry.ttl
      BY <1>6, <1>12
    <3>5. now >= r.storedAt
      BY <3>1, <3>2, <3>3
    <3> QED
      BY <2>3, <3>2, <3>3, <3>4, <3>5 DEF r
  <2> HIDE DEF u, r, k
  <2>5. Outlasts(u, k, r)
    BY <1>3, <2>7 DEF Outlasts
  <2> USE DEF r, k
  <2> QED
    BY <2>3, <2>5, <2>6 DEF Listed
<1> HIDE DEF u
<1>13. CASE k = c.key /\ ~listeners[d[1]].on
  <2>1. b # d
    BY <1>13
  <2>2. w.add \subseteq v.add
    BY <1>1, <2>1
  <2>3. undone \subseteq undone'
    BY <1>1, <1>13
  <2>4. KeepsKey(k, tables[t], tables'[t], undone, undone')
    <3>1. CASE t # g
      <4>1. tables'[t] = tables[t] /\ (k \in undone => k \in undone')
        BY <1>7, <2>3, <3>1
      <4> HIDE DEF k, t
      <4> QED
        BY <1>3, <4>1, KeyUntouched
    <3>2. CASE t = g /\ Shortens(G, c)
      BY <1>1, <1>13, <3>2 DEF KeepsKey
    <3>3. CASE t = g /\ ~Shortens(G, c)
      <4>1. k \in DOMAIN G.entries => u.entries[k].ttl >= G.entries[k].ttl /\ u.entries[k].lastSeen >= G.entries[k].lastSeen
        <5> HIDE DEF G, k
        <5>1. u.entries[k].ttl = c.entry.ttl /\ u.entries[k].lastSeen = now
          BY <1>6, <1>13
        <5>2. k \in DOMAIN G.entries => ~(c.entry.ttl < G.entries[k].ttl)
          BY <1>13, <3>3 DEF Shortens
        <5>3. c.entry.ttl \in Nat
          BY <1>2
        <5> QED
          BY <1>3, <1>10, <5>1, <5>2, <5>3
      <4> QED
        BY <1>6, <1>7, <1>13, <2>3, <3>3, <4>1 DEF KeepsKey
    <3> QED
      BY <3>1, <3>2, <3>3
  <2> HIDE DEF w, v, t, k
  <2> QED
    BY <1>3, <1>4, <1>8, <2>2, <2>4, ListedKept DEF k, e, v, t
<1>14. CASE k # c.key
  <2>1. Call(b, i, e) \in w.add => Call(b, i, e) \in v.add
    BY <1>5, <1>14
  <2>2. k \in undone => k \in undone'
    BY <1>1, <1>14
  <2>3. KeepsKey(k, tables[t], tables'[t], undone, undone')
    <3>1. k \in DOMAIN tables[t].entries => k \in DOMAIN tables'[t].entries /\ tables'[t].entries[k] = tables[t].entries[k]
      BY <1>6, <1>7, <1>14
    <3> HIDE DEF k, t
    <3> QED
      BY <1>3, <2>2, <3>1, KeyUntouched
  <2> HIDE DEF w, v, t, k
  <2> QED
    BY <1>3, <1>4, <1>8, <2>1, <2>3, ListedKept DEF k, e, v, t
<1> QED
  BY <1>12, <1>13, <1>14

\* A removal: it is of what the browse gave up, so a running browse still lists
\* what it has, unless a cancelled one took it out.
LEMMA ListedRemoved ==
    ASSUME Shaped, ListenerInv, KnownInv, TablesShaped', NEW d \in DOMAIN browses, RemoveInstance(d),
           NEW b \in DOMAIN browses, browses'[b].at = "run", listeners[b[1]].on,
           NEW i \in DOMAIN browses'[b].state.entries
    PROVE  Listed(b, browses'[b], i, tables'[listeners[b[1]].table], undone', now)
<1> DEFINE w == browses[b]
           v == browses'[b]
           t == listeners[b[1]].table
           g == listeners[d[1]].table
<1>1. PICK c \in browses[d].rmv :
          /\ tables' = [tables EXCEPT ![g] = Remove(@, c.key)]
          /\ browses' = [browses EXCEPT ![d].rmv = @ \ {c}]
          /\ undone' = IF ~listeners[d[1]].on THEN undone \cup {c.key} ELSE undone
  BY DEF RemoveInstance, Cancelled
<1>2. PICK j \in Instance \ DOMAIN browses[d].state.entries : c.key[1] = d[2] /\ c.key[2] = j
  BY ReportTyped
<1>3. /\ t \in DOMAIN tables /\ g \in DOMAIN tables /\ now \in Nat
      /\ TableShaped(tables[t]) /\ TableShaped(tables[g]) /\ TableShaped(tables'[t])
      /\ StateShaped(w.state, now)
  <2>1. t \in DOMAIN tables /\ g \in DOMAIN tables /\ now \in Nat /\ DOMAIN tables' = DOMAIN tables
    BY <1>1, ReportTyped, BoundsAssumption DEF Shaped, FilesShaped
  <2> QED
    BY <2>1 DEF Shaped, TablesShaped, BrowsesShaped
<1>4. v.state = w.state /\ w.at = "run" /\ w.add \subseteq v.add
  <2>1. CASE b = d
    <3> DEFINE x == [w EXCEPT !.rmv = @ \ {c}]
    <3>1. v = x
      BY <1>1, <2>1
    <3>2. DOMAIN w = {"at", "state", "add", "rmv", "polled"}
      BY DEF Shaped, BrowsesShaped, BrowseShaped
    <3>3. v.at = "run"
      OBVIOUS
    <3> HIDE DEF w, v
    <3> QED
      BY <3>1, <3>2, <3>3
  <2>2. CASE b # d
    BY <1>1, <2>2
  <2> QED
    BY <2>1, <2>2
<1> DEFINE e == w.state.entries[i]
           k == Call(b, i, e).key
           G == tables[g]
           S == DOMAIN G.entries \ {c.key}
           u == [G EXCEPT !.entries = Restrict(G.entries, S)]
<1>5. tables'[t] = IF t = g THEN u ELSE tables[t]
  BY <1>1, <1>3 DEF Remove
<1>6. TableShaped(u) /\ DOMAIN u.entries = S /\ \A q \in S : u.entries[q] = G.entries[q]
  <2>1. TableShaped(G) /\ S \subseteq DOMAIN G.entries
    BY <1>3
  <2> HIDE DEF G, S
  <2> QED
    BY <2>1, Lost
<1>7. i \in DOMAIN w.state.entries /\ Listed(b, w, i, tables[t], undone, now)
  BY <1>4 DEF KnownInv, Listed, Cancelled
<1>8. k[1] = b[2] /\ k[2] = i
  BY DEF Call
<1> HIDE DEF u
<1>10. KeepsKey(k, tables[t], tables'[t], undone, undone')
  <2>1. CASE k = c.key /\ listeners[d[1]].on
    <3>1. b = d
      BY <1>2, <1>8, <2>1, OneOfAType
    <3> QED
      BY <1>2, <1>7, <1>8, <2>1, <3>1
  <2>2. CASE k = c.key /\ ~listeners[d[1]].on
    BY <1>1, <2>2 DEF KeepsKey
  <2>3. CASE k # c.key
    <3>1. k \in DOMAIN tables[t].entries => k \in DOMAIN tables'[t].entries /\ tables'[t].entries[k] = tables[t].entries[k]
      BY <1>5, <1>6, <2>3
    <3>2. k \in undone => k \in undone'
      BY <1>1
    <3> HIDE DEF k, t
    <3> QED
      BY <1>3, <3>1, <3>2, KeyUntouched
  <2> QED
    BY <2>1, <2>2, <2>3
<1>11. Call(b, i, e) \in w.add => Call(b, i, e) \in v.add
  BY <1>4
<1> HIDE DEF w, v, t, k
<1> QED
  BY <1>3, <1>4, <1>7, <1>10, <1>11, ListedKept DEF k, e, v, t

\* Every step keeps KnownInv.
LEMMA KnownStep == Shaped /\ ListenerInv /\ HeardInv /\ KnownInv /\ [Next]_vars => KnownInv'
<1> SUFFICES ASSUME Shaped, ListenerInv, HeardInv, KnownInv, [Next]_vars PROVE KnownInv'
  OBVIOUS
<1> DEFINE Goal ==
        \A b \in DOMAIN browses' : browses'[b].at = "run" /\ listeners'[b[1]].on =>
            \A i \in DOMAIN browses'[b].state.entries :
                Listed(b, browses'[b], i, tables'[listeners'[b[1]].table], undone', now')
<1> SUFFICES Goal
  BY DEF KnownInv, Listed, Cancelled
<1>0. /\ TablesShaped' /\ now \in Nat /\ now' \in Nat /\ now <= now'
      /\ \A b \in DOMAIN browses :
            /\ StateShaped(browses[b].state, now) /\ b[1] \in DOMAIN listeners
            /\ listeners[b[1]].table \in DOMAIN tables /\ TableShaped(tables[listeners[b[1]].table])
            /\ TableShaped(tables'[listeners[b[1]].table])
  <2>1. TablesShaped' /\ TablesMove /\ HeardMoves
    BY TablesStep, HeardMove
  <2>2. now \in Nat /\ now' \in Nat /\ now <= now'
    BY <2>1, BoundsAssumption DEF Shaped, FilesShaped, HeardMoves
  <2>3. DOMAIN tables \subseteq DOMAIN tables'
    <3>1. DOMAIN tables = 1 .. Len(tables) /\ DOMAIN tables' = 1 .. Len(tables')
          /\ Len(tables) \in Nat /\ Len(tables') \in Nat
      BY <2>1 DEF Shaped, TablesShaped
    <3> QED
      BY <2>1, <3>1 DEF TablesMove
  <2> QED
    BY <2>1, <2>2, <2>3, ReportTyped DEF Shaped, TablesShaped, BrowsesShaped
<1>1. \A b \in DOMAIN browses : /\ listeners'[b[1]].table = listeners[b[1]].table
                                /\ listeners'[b[1]].on => listeners[b[1]].on
  BY <1>0, ListenersKept
<1>2. ASSUME NEW b \in DOMAIN browses, browses[b].at = "run", listeners[b[1]].on
      PROVE  \A i \in DOMAIN browses[b].state.entries :
                Listed(b, browses[b], i, tables[listeners[b[1]].table], undone, now)
  BY <1>2 DEF KnownInv, Listed, Cancelled
<1>3. ASSUME NEW b \in DOMAIN browses, browses'[b].at = "run", listeners'[b[1]].on,
             browses[b].at = "run", browses'[b].state = browses[b].state, browses[b].add \subseteq browses'[b].add,
             \A k : KeepsKey(k, tables[listeners[b[1]].table], tables'[listeners[b[1]].table], undone, undone')
      PROVE  \A i \in DOMAIN browses'[b].state.entries :
                Listed(b, browses'[b], i, tables'[listeners'[b[1]].table], undone', now')
  <2> SUFFICES ASSUME NEW i \in DOMAIN browses'[b].state.entries
               PROVE  Listed(b, browses'[b], i, tables'[listeners'[b[1]].table], undone', now')
    OBVIOUS
  <2> DEFINE w == browses[b]
             v == browses'[b]
             t == tables[listeners[b[1]].table]
             u == tables'[listeners[b[1]].table]
             k == Call(b, i, w.state.entries[i]).key
  <2>1. /\ StateShaped(w.state, now) /\ TableShaped(t) /\ TableShaped(u) /\ i \in DOMAIN w.state.entries
        /\ v.state = w.state /\ KeepsKey(k, t, u, undone, undone')
        /\ Call(b, i, w.state.entries[i]) \in w.add => Call(b, i, w.state.entries[i]) \in v.add
        /\ Listed(b, w, i, t, undone, now)
    BY <1>0, <1>1, <1>2, <1>3
  <2> HIDE DEF w, v, t, u
  <2>2. Listed(b, v, i, u, undone', now')
    BY <1>0, <2>1, ListedKept
  <2> QED
    BY <1>1, <2>2 DEF v, u
<1>4. ASSUME UNCHANGED undone,
             \/ tables' = tables \/ RefreshMDNS
             \/ \E x \in Setting : SaveSettings(x)
             \/ \E l \in DOMAIN listeners : ExpireTable(l)
             \/ \E n \in Name, approve \in BOOLEAN : SetPublished(n, approve)
      PROVE  \A b \in DOMAIN browses :
                \A k : KeepsKey(k, tables[listeners[b[1]].table], tables'[listeners[b[1]].table], undone, undone')
  BY <1>0, <1>4, KeysKept
<1>5. ASSUME UNCHANGED <<browses, undone>>,
             \/ tables' = tables \/ RefreshMDNS
             \/ \E x \in Setting : SaveSettings(x)
             \/ \E l \in DOMAIN listeners : ExpireTable(l)
             \/ \E n \in Name, approve \in BOOLEAN : SetPublished(n, approve)
      PROVE  Goal
  BY <1>3, <1>4, <1>5
<1>6. ASSUME NEW d \in DOMAIN browses, NEW m \in Message, Hear(d, m) PROVE Goal
  <2>1. UNCHANGED <<tables, undone, listeners, now>>
    BY <1>6 DEF Hear, serviceVars
  <2>2. browses' = [browses EXCEPT ![d] = browses'[d]]
    BY <1>6, Heard
  <2>3. ASSUME NEW b \in DOMAIN browses, b # d, browses'[b].at = "run", listeners'[b[1]].on
        PROVE  \A i \in DOMAIN browses'[b].state.entries :
                  Listed(b, browses'[b], i, tables'[listeners'[b[1]].table], undone', now')
    BY <1>3, <1>4, <2>1, <2>2, <2>3
  <2>4. ASSUME listeners'[d[1]].on, NEW i \in DOMAIN browses'[d].state.entries
        PROVE  Listed(d, browses'[d], i, tables[listeners[d[1]].table], undone, now)
    <3> DEFINE w == browses[d]
               v == browses'[d]
               st == w.state
               r == Ingest(st, m, now)
               t == tables[listeners[d[1]].table]
    <3>1. /\ v.state = r.state /\ v.add = {Call(d, j, r.state.entries[j]) : j \in r.added}
          /\ w.at = "run" /\ w.add = {}
      BY <1>6, Heard
    <3>2. StateShaped(st, now) /\ Parsed(m) /\ TableShaped(t)
      BY <1>0, MessageAssumption
    <3> HIDE DEF st
    <3>3. \A j \in DOMAIN r.state.entries \ r.added : Resolvable(r.state.entries[j]) =>
              j \in DOMAIN st.entries /\ r.state.entries[j] = st.entries[j]
                  /\ r.state.cache[j] = st.cache[j]
      BY <1>0, <3>2, Ingested
    <3> HIDE DEF r, v
    <3>4. CASE i \in r.added
      <4>1. Call(d, i, v.state.entries[i]) \in v.add
        BY <3>1, <3>4
      <4> QED
        BY <4>1 DEF Listed, v
    <3>5. CASE i \notin r.added /\ Resolvable(v.state.entries[i])
      <4>1. i \in DOMAIN st.entries /\ v.state.entries[i] = st.entries[i] /\ v.state.cache[i] = st.cache[i]
        BY <3>1, <3>3, <3>5, <2>4 DEF v
      <4>2. Listed(d, w, i, t, undone, now)
        BY <1>1, <1>2, <2>1, <2>4, <3>1, <4>1 DEF st
      <4>3. st = w.state
        BY DEF st
      <4> HIDE DEF w, t
      <4>4. Listed(d, v, i, t, undone, now)
        BY <3>1, <4>1, <4>2, <4>3 DEF Listed
      <4> QED
        BY <4>4 DEF v, t
    <3>6. CASE ~Resolvable(v.state.entries[i])
      BY <3>6 DEF Listed, v
    <3> QED
      BY <3>4, <3>5, <3>6
  <2> QED
    BY <2>1, <2>2, <2>3, <2>4
<1>7. ASSUME NEW d \in DOMAIN browses, PollBrowse(d) PROVE Goal
  <2>1. UNCHANGED <<tables, undone, listeners, now>>
    BY <1>7 DEF PollBrowse, serviceVars
  <2>2. browses' = [browses EXCEPT ![d] = browses'[d]]
    BY <1>7, PolledOnce
  <2>3. ASSUME NEW b \in DOMAIN browses, b # d, browses'[b].at = "run", listeners'[b[1]].on
        PROVE  \A i \in DOMAIN browses'[b].state.entries :
                  Listed(b, browses'[b], i, tables'[listeners'[b[1]].table], undone', now')
    BY <1>3, <1>4, <2>1, <2>2, <2>3
  <2>4. ASSUME listeners'[d[1]].on, NEW i \in DOMAIN browses'[d].state.entries
        PROVE  Listed(d, browses'[d], i, tables[listeners[d[1]].table], undone, now)
    <3> DEFINE w == browses[d]
               v == browses'[d]
               st == w.state
               r == Poll(st, now)
               t == tables[listeners[d[1]].table]
    <3>1. v.state = r.state /\ StateShaped(v.state, now) /\ w.at = "run" /\ w.add = {}
      BY <1>7, PolledOnce
    <3>2. StateShaped(st, now)
      BY <1>0
    <3> HIDE DEF st
    <3>3. \A j \in DOMAIN r.state.cache :
              /\ j \in DOMAIN st.cache
              /\ r.state.entries[j] = st.entries[j]
              /\ r.state.cache[j].ttl = st.cache[j].ttl
              /\ r.state.cache[j].storedAt = st.cache[j].storedAt
      BY <1>0, <3>2, Polled
    <3> HIDE DEF r
    <3>4. /\ i \in DOMAIN st.entries /\ v.state.entries[i] = st.entries[i]
          /\ v.state.cache[i].ttl = st.cache[i].ttl /\ v.state.cache[i].storedAt = st.cache[i].storedAt
      BY <2>4, <3>1, <3>2, <3>3 DEF StateShaped
    <3>5. Listed(d, w, i, t, undone, now)
      BY <1>1, <1>2, <2>1, <2>4, <3>1, <3>4 DEF st
    <3>6. st = w.state
      BY DEF st
    <3> HIDE DEF w, t, v
    <3>7. Listed(d, v, i, t, undone, now)
      BY <3>1, <3>4, <3>5, <3>6 DEF Listed, Expired, Elapsed, Outlasts
    <3> QED
      BY <3>7 DEF v, t
  <2> QED
    BY <2>1, <2>2, <2>3, <2>4
<1>8. ASSUME NEW d \in DOMAIN browses, AddInstance(d) \/ RemoveInstance(d) PROVE Goal
  <2>1. UNCHANGED <<listeners, now>>
    BY <1>8 DEF AddInstance, RemoveInstance, serviceVars
  <2>2. DOMAIN browses' = DOMAIN browses
    BY <1>8, Reported
  <2>3. ASSUME NEW b \in DOMAIN browses, browses'[b].at = "run", listeners[b[1]].on,
               NEW i \in DOMAIN browses'[b].state.entries
        PROVE  Listed(b, browses'[b], i, tables'[listeners[b[1]].table], undone', now)
    BY <1>0, <1>8, <2>3, ListedAdded, ListedRemoved
  <2> QED
    BY <2>1, <2>2, <2>3
<1>9. ASSUME NEW d \in DOMAIN browses, BrowseFails(d) \/ BrowseLeaves(d) PROVE Goal
  <2> DEFINE w == browses[d]
             x == [w EXCEPT !.at = "ended"]
  <2>1. UNCHANGED <<tables, undone>> /\ browses' = [browses EXCEPT ![d] = x]
    BY <1>9 DEF BrowseFails, BrowseLeaves, ghosts
  <2>2. DOMAIN w = {"at", "state", "add", "rmv", "polled"}
    BY DEF Shaped, BrowsesShaped, BrowseShaped
  <2> HIDE DEF w
  <2>3. x.at # "run"
    BY <2>2
  <2> HIDE DEF x
  <2>4. \A b \in DOMAIN browses' : b \in DOMAIN browses /\ (browses'[b].at = "run" => browses'[b] = browses[b])
    BY <2>1, <2>3
  <2> QED
    BY <1>3, <1>4, <2>1, <2>4
<1>10. ASSUME NEW new, browses' = Over([b \in new |-> NewBrowse], browses),
              asked' = Over([b \in new |-> {}], asked),
              \/ UNCHANGED <<tables, undone>>
              \/ \A b \in DOMAIN browses : ~listeners'[b[1]].on
       PROVE  Goal
  <2>0. DOMAIN asked = DOMAIN browses
    BY DEF Shaped, BrowsesShaped
  <2>1. /\ DOMAIN browses' = new \cup DOMAIN browses /\ DOMAIN asked' = DOMAIN browses'
        /\ \A b \in new : browses'[b] = NewBrowse /\ asked'[b] = {}
        /\ \A b \in DOMAIN browses \ new : browses'[b] = browses[b] /\ asked'[b] = asked[b]
    BY <1>10, <2>0, Started
  <2>2. \A b \in new : DOMAIN browses'[b].state.entries = {}
    BY <2>1, NewBrowseShaped
  <2>3. ASSUME NEW b \in DOMAIN browses \ new, browses'[b].at = "run", listeners'[b[1]].on
        PROVE  \A i \in DOMAIN browses'[b].state.entries :
                  Listed(b, browses'[b], i, tables'[listeners'[b[1]].table], undone', now')
    BY <1>3, <1>4, <1>10, <2>1, <2>3
  <2> QED
    BY <2>1, <2>2, <2>3
<1>11. ASSUME NEW l, NEW z, HearType(l, z) PROVE Goal
  <2> DEFINE new == {<<l, z>>}
  <2>1. /\ browses' = Over([b \in new |-> NewBrowse], browses)
        /\ asked' = Over([b \in new |-> {}], asked) /\ UNCHANGED <<tables, undone>>
    BY <1>11 DEF HearType
  <2> HIDE DEF new, Goal
  <2> QED
    BY <1>10, <2>1
<1>12. ASSUME FirstStart \/ RestartListener PROVE Goal
  <2>1. PICK s : /\ StartMDNS(gui, disk.settings, s)
                 /\ \/ UNCHANGED <<tables, undone>>
                    \/ \A b \in DOMAIN browses : ~listeners'[b[1]].on
    <3>1. CASE FirstStart
      BY <3>1 DEF FirstStart
    <3>2. CASE RestartListener
      <4> DEFINE s == Cancel(current)
      <4>1. current # 0 /\ StartMDNS(gui, disk.settings, s)
        BY <3>2 DEF RestartListener
      <4>2. /\ s \in Seq(Range(s)) /\ DOMAIN s = DOMAIN listeners
            /\ s[current].on = FALSE
            /\ \A l \in DOMAIN listeners \ {current} : s[l] = listeners[l]
        BY <4>1, Cancelling
      <4> HIDE DEF s
      <4>3. \A l \in DOMAIN s : listeners'[l] = s[l]
        BY <4>1, <4>2, Starting
      <4>4. \A l \in DOMAIN listeners \ {current} : ~listeners[l].on
        BY DEF ListenerInv
      <4>5. \A l \in DOMAIN listeners : ~listeners'[l].on
        BY <4>2, <4>3, <4>4
      <4> QED
        BY <1>0, <4>1, <4>5
    <3> QED
      BY <1>12, <3>1, <3>2
  <2> DEFINE new == IF disk.settings.dynamic THEN {} ELSE {<<Len(s) + 1, z>> : z \in disk.settings.services}
  <2>2. /\ browses' = Over([b \in new |-> NewBrowse], browses)
        /\ asked' = Over([b \in new |-> {}], asked)
    BY <2>1 DEF StartMDNS
  <2> HIDE DEF new, Goal
  <2> QED
    BY <1>10, <2>1, <2>2
<1>13. ASSUME Tick PROVE Goal
  <2>1. /\ DOMAIN browses' = DOMAIN browses /\ UNCHANGED <<tables, undone>>
        /\ \A b \in DOMAIN browses : browses'[b] = [browses[b] EXCEPT !.polled = FALSE]
    BY <1>13 DEF Tick, ghosts
  <2>2. ASSUME NEW b \in DOMAIN browses
        PROVE  browses'[b].state = browses[b].state /\ browses'[b].add = browses[b].add /\ browses'[b].at = browses[b].at
    <3> DEFINE w == browses[b]
               v == browses'[b]
    <3>1. v = [w EXCEPT !.polled = FALSE] /\ DOMAIN w = {"at", "state", "add", "rmv", "polled"}
      BY <2>1 DEF Shaped, BrowsesShaped, BrowseShaped
    <3> HIDE DEF w, v
    <3>2. v.state = w.state /\ v.add = w.add /\ v.at = w.at
      BY <3>1
    <3> QED
      BY <3>2 DEF v, w
  <2> QED
    BY <1>3, <1>4, <2>1, <2>2
<1> HIDE DEF Goal
<1>14. ASSUME NEW l, TypesLeave(l) PROVE UNCHANGED <<browses, undone, tables>>
  BY <1>14 DEF TypesLeave, ghosts
<1>15. ASSUME NEW x, NEW n, RejectSettings(x) \/ PromoteMDNS(n) \/ DeleteRecord(n) \/ RestartEngine
       PROVE  UNCHANGED <<browses, undone, tables>>
  BY <1>15 DEF RejectSettings, PromoteMDNS, DeleteRecord, ApplyRecords, RestartEngine, ghosts
<1>16. ASSUME NEW q, Reload(q) \/ StopMDNS \/ UNCHANGED vars PROVE UNCHANGED <<browses, undone, tables>>
  BY <1>16 DEF Reload, StopMDNS, vars, ghosts
<1>17. ASSUME NEW x, NEW l, NEW n, NEW q, SaveSettings(x) \/ RefreshMDNS \/ ExpireTable(l) \/ SetPublished(n, q)
       PROVE  UNCHANGED <<browses, undone>>
  BY <1>17 DEF SaveSettings, RefreshMDNS, ExpireTable, SetPublished, ghosts
<1> QED
  BY <1>5, <1>6, <1>7, <1>8, <1>9, <1>11, <1>12, <1>13, <1>14, <1>15, <1>16, <1>17
     DEF Next, BrowseStep, ListenerStep, ServiceStep

\* KnownIsListed: whatever a running browse knows, has the addresses of and has
\* not given up, its table lists or is about to: the table's clock never drops
\* what the browse keeps alive, whatever configuration changes, approvals and
\* restarts come between.
THEOREM KnownListed == Spec => []KnownIsListed
<1>1. Init => HeardInv /\ KnownInv
  <2> SUFFICES ASSUME Init PROVE HeardInv /\ KnownInv
    OBVIOUS
  <2>1. \A b \in DOMAIN browses : browses[b].add = {} /\ DOMAIN browses[b].state.entries = {}
    BY NewBrowseShaped DEF Init
  <2>2. PICK x \in Setting : tables = IF x.enabled THEN <<NewTable(Build(disk))>> ELSE <<>>
    BY DEF Init
  <2>3. \A t \in DOMAIN tables : DOMAIN tables[t].entries = {}
    BY <2>2 DEF NewTable
  <2>4. DOMAIN heard = {}
    BY DEF Init
  <2> QED
    BY <2>1, <2>3, <2>4 DEF HeardInv, KnownInv
<1>2. Shaped /\ KnownInv => KnownIsListed
  <2> SUFFICES ASSUME Shaped, KnownInv, NEW b \in DOMAIN browses, browses[b].at = "run", ~Cancelled(b),
                      NEW i \in DOMAIN browses[b].state.entries, Resolvable(browses[b].state.entries[i]),
                      ~Expired(browses[b].state.cache[i], now),
                      Outlasts(tables[listeners[b[1]].table], Call(b, i, browses[b].state.entries[i]).key,
                               browses[b].state.cache[i])
               PROVE  Call(b, i, browses[b].state.entries[i]).key \in Live(tables[listeners[b[1]].table])
    BY DEF KnownInv, KnownIsListed
  <2> DEFINE t == tables[listeners[b[1]].table]
             k == Call(b, i, browses[b].state.entries[i]).key
             st == browses[b].state
             r == st.cache[i]
  <2>1. StateShaped(st, now) /\ i \in DOMAIN st.cache /\ now \in Nat /\ TableShaped(t)
    BY ReportTyped, BoundsAssumption DEF Shaped, BrowsesShaped, StateShaped, FilesShaped, TablesShaped
  <2>2. Outlasts(t, k, r) /\ ~Expired(r, now)
    OBVIOUS
  <2> HIDE DEF t, k, st
  <2>3. r.ttl \in Nat \ {0} /\ r.storedAt \in Nat
    BY <2>1, RecordTyped
  <2> HIDE DEF r
  <2>4. k \in DOMAIN t.entries /\ t.entries[k].lastSeen >= r.storedAt /\ t.entries[k].ttl >= r.ttl
    BY <2>2 DEF Outlasts
  <2>5. t.entries[k].lastSeen \in Nat /\ t.entries[k].ttl \in Nat
    BY <2>1, <2>4 DEF TableShaped
  <2>6. ~(now - r.storedAt >= r.ttl)
    BY <2>2 DEF Expired, Elapsed
  <2>7. ~(now - t.entries[k].lastSeen > t.entries[k].ttl)
    BY <2>1, <2>3, <2>4, <2>5, <2>6
  <2>8. k \in Live(t)
    BY <2>4, <2>7 DEF Live, TableExpired
  <2> QED
    BY <2>8 DEF k, t
<1> QED
  BY <1>1, <1>2, BridgeShaped, HeardStep, KnownStep, PTL DEF Spec

=============================================================================
