----------------------------- MODULE VlanCache -----------------------------
(***************************************************************************)
(* One instance of plugins/vlancache: the two-tier DNS answer cache, the   *)
(* singleflight coalescing of misses, the background refreshes and the     *)
(* flushes an administrator starts while queries are in flight.            *)
(*                                                                         *)
(* A worker is the goroutine of one client query (ServeDNS), a refresher   *)
(* the goroutine of one background refresh, a flusher one clear/clearName  *)
(* call.  Each step below is what the code does between two lock releases. *)
(* "world" is the upstream's data: it changes at any time, and an answer   *)
(* carries the version it was read from.                                   *)
(***************************************************************************)
EXTENDS Integers, FiniteSets

CONSTANTS
    Client,       \* client addresses
    Bucket,       \* VLAN names, globalBucket included
    BucketOf,     \* [Client -> Bucket]: vlans.Lookup, or globalBucket
    Name,         \* canonical domain names
    Question,     \* (qname, qtype, do, cd) tuples
    QName,        \* [Question -> Name]
    Prefix,       \* networks, each the set of the clients it contains
    Chains,       \* the sets of names the answers' CNAME/DNAME chains run through
    Shards,       \* the partition of DirectKey into the locks of direct
    ShardSize,    \* entries one shard holds before it evicts
    MaxScoped,    \* maxScopedPerKey
    Worker,       \* bound: queries served at the same time
    Refresher,    \* bound: background refreshes at the same time
    Flusher,      \* bound: flushes at the same time
    Kinds,        \* the kinds of response the upstream gives
    UpstreamTTL,  \* the TTLs its records carry
    MinTTL, MaxTTL, MaxNTTL,    \* the clamps of ttlFor
    FailTTL,      \* failTTL: how long a SERVFAIL is cached, 0 for never
    MaxFailTTL,   \* maxFailTTL, the largest FailTTL that parses
    StaleTTL,     \* staleTTL: 0 when serve_stale is off
    Prefetch,     \* the prefetch switch
    PrefetchDen,  \* an entry is near expiry with 1/PrefetchDen of its TTL left
    MaxClock,     \* bound on the clock
    MaxWorld,     \* bound on upstream changes
    MaxEpoch      \* bound on flushes

NoEntry == [none |-> "entry"]
NoScope == {}     \* a network always contains the address it was masked from
NoFlight == [none |-> "flight"]
AnyIP == [none |-> "ip"]
AllNames == [none |-> "name"]
NoAnswer == [none |-> "answer"]

Proc == Worker \cup Refresher
AllKinds == {"success", "denial", "servfail", "truncated", "uncacheable"}

DirectKey == Bucket \X Question
FlightKey == [bucket : Bucket, q : Question, ip : Client \cup {AnyIP}]

ASSUME CacheAssumption ==
    /\ BucketOf \in [Client -> Bucket]
    /\ QName \in [Question -> Name]
    /\ Prefix \subseteq SUBSET Client /\ NoScope \notin Prefix
    /\ Chains \subseteq SUBSET Name
    /\ UNION Shards = DirectKey
    /\ ShardSize \in Nat \ {0} /\ MaxScoped \in Nat \ {0}
    /\ Worker \cap Refresher = {}
    /\ Kinds \subseteq AllKinds
    /\ UpstreamTTL \subseteq Nat
    /\ MinTTL \in Nat /\ MaxTTL \in Nat /\ MaxNTTL \in Nat
    /\ FailTTL \in 0..MaxFailTTL /\ MaxFailTTL \in Nat
    /\ StaleTTL \in Nat /\ PrefetchDen \in Nat \ {0} /\ Prefetch \in BOOLEAN
    /\ MaxClock \in Nat /\ MaxWorld \in Nat /\ MaxEpoch \in Nat
    /\ AnyIP \notin Client /\ AllNames \notin Name /\ NoFlight \notin Proc
    /\ Client # {} /\ Question # {}

\* A DNS response with what caching needs of it: the question it answers, the
\* upstream version it was read from, the client it was asked for, the RFC 7871
\* scope echoed, its kind, the names of its CNAME/DNAME chain, the TTL of its
\* records and the time ("now" of the fetch) it is stored under.
Answer ==
    [q : Question, ver : Nat, asker : Client, scope : Prefix \cup {NoScope},
     kind : AllKinds, chain : SUBSET Name, ttl : Nat, stored : Nat]

VARIABLES
    direct,   \* store.direct: DirectKey -> entry
    scoped,   \* store.scoped: Question -> Prefix -> entry
    age,      \* how many entries a question's list got after this one
    epoch,    \* store.epoch
    flight,   \* sf: FlightKey -> the process leading the call
    pc,       \* where each worker and refresher is
    req,      \* its client, question and "now"
    fkey,     \* the singleflight key it fetches under
    gen,      \* the epoch the leader read before asking upstream
    got,      \* the answer it holds
    flush,    \* the state of each flusher
    floor,    \* per name, the world its last completed flush started in
    clock, world

tierVars  == <<direct, scoped, age>>
storeVars == <<tierVars, epoch>>
procVars  == <<pc, req, fkey, gen, got>>
flushVars == <<flush, floor>>
envVars   == <<clock, world>>
vars == <<storeVars, flight, procVars, flushVars, envVars>>

Request == [client : Client, q : Question, at : Nat]
FlushState ==
    [pc : {"idle", "walk"}, name : Name \cup {AllNames},
     shards : SUBSET Shards, keys : SUBSET DirectKey, since : Nat]
IdleFlush ==
    [pc |-> "idle", name |-> AllNames, shards |-> {}, keys |-> {}, since |-> 0]

SomeRequest == [client |-> CHOOSE c \in Client : TRUE,
                q |-> CHOOSE q \in Question : TRUE, at |-> 0]
BucketKey(r) == [bucket |-> BucketOf[r.client], q |-> r.q, ip |-> AnyIP]
\* (Mutant: the second fetch is made under the bucket's key again.)
IPKeyShared(r) == BucketKey(r)
IPKey(r) == [bucket |-> BucketOf[r.client], q |-> r.q, ip |-> r.client]
DirectKeyOf(r) == <<BucketOf[r.client], r.q>>
-----------------------------------------------------------------------------
(* entry.go and the decisions of handler.go                                *)

\* entry.dependsOn, as the set of names a flush of which drops the entry.
DependsOn(e) == {QName[e.q]} \cup e.chain

\* What a flush covers: clear takes every entry, clearName the dependent ones.
FlushCovers(n, e) == n = AllNames \/ n \in DependsOn(e)

Clamp(d, lo, hi) == IF d < lo THEN lo ELSE IF d > hi THEN hi ELSE d

\* ttlFor: MinimalTTLWithMaximum is already at most the maximum.
TTLFor(e) ==
    CASE e.kind = "denial"   -> Clamp(e.ttl, MinTTL, MaxNTTL)
      [] e.kind = "servfail" -> FailTTL
      [] OTHER               -> Clamp(e.ttl, MinTTL, MaxTTL)

Remaining(e, now) == TTLFor(e) - (now - e.stored)
Fresh(e, now) == Remaining(e, now) > 0
Servable(e, now) ==
    Fresh(e, now) \/ (StaleTTL > 0 /\ -Remaining(e, now) <= StaleTTL)

\* nearExpiry; onHit refreshes every stale hit, and a near-expiry fresh one
\* when prefetch is on.
NearExpiry(e, now) ==
    TTLFor(e) > 0 /\ Remaining(e, now) * PrefetchDen <= TTLFor(e)
HitRefreshes(e, now) ==
    IF Fresh(e, now) THEN Prefetch /\ NearExpiry(e, now) ELSE TRUE

\* cacheable: a truncated response never is; meta, update and other-error
\* responses and an NXDOMAIN without SOA are the "uncacheable" kind.
Cacheable(e) == e.kind \notin {"truncated", "uncacheable"}
Stored(e) == Cacheable(e) /\ TTLFor(e) > 0
StoredScoped(e) == Stored(e) /\ e.scope # NoScope /\ e.kind # "servfail"

\* fetchResult.appliesTo: fr.prefix is set in the branch that stores scoped.
AppliesTo(e, c) == StoredScoped(e) => c \in e.scope
-----------------------------------------------------------------------------
(* store.go                                                                *)

\* The networks a question has a scoped entry for.
Held(q) == {p \in Prefix : scoped[q][p] # NoEntry}

\* clearName has come to the scoped tier and compacts its lists in place.
Compacting ==
    \E f \in Flusher : /\ flush[f].pc = "walk" /\ flush[f].name # AllNames
                       /\ flush[f].shards = {} /\ flush[f].keys = {}

\* What getScoped's scan may meet of a list.  s.mu is given back before it
\* begins, so entries that a clearName moves at that moment may be missed.
Scans(q) == IF Compacting THEN SUBSET Held(q) ELSE {Held(q)}

\* getScoped's pick among the entries seen: a fresh one before a stale one,
\* then the longest prefix.  Two networks holding the same address are nested.
BestScoped(seen, q, c, now) ==
    LET can == {p \in seen : c \in p /\ Servable(scoped[q][p], now)}
        fresh == {p \in can : Fresh(scoped[q][p], now)}
        class == IF fresh # {} THEN fresh ELSE can
    IN  {p \in class : \A r \in class : p \subseteq r}

\* What setScoped drops to make room for network p: the first entry of a full
\* list, unless p is in the list already.  (Mutant: off by one.)
DroppedLate(q, p) ==
    {o \in Held(q) : /\ p \notin Held(q) /\ Cardinality(Held(q)) > MaxScoped
                     /\ \A r \in Held(q) : age[q][r] <= age[q][o]}
Dropped(q, p) ==
    {o \in Held(q) : /\ p \notin Held(q) /\ Cardinality(Held(q)) >= MaxScoped
                     /\ \A r \in Held(q) : age[q][r] <= age[q][o]}

\* setScoped: an entry for the same prefix is replaced where it is, a new one
\* is appended.
SetScoped(q, p, e) ==
    /\ scoped' = [scoped EXCEPT ![q] = [r \in Prefix |->
          IF r = p THEN e ELSE IF r \in Dropped(q, p) THEN NoEntry ELSE scoped[q][r]]]
    /\ age' = [age EXCEPT ![q] = [r \in Prefix |->
          IF r \notin Held(q) \/ r \in Dropped(q, p) THEN 0
          ELSE IF p \in Held(q) THEN age[q][r] ELSE age[q][r] + 1]]

Present(keys) == {k \in keys : direct[k] # NoEntry}

\* ccache.Add: a full shard evicts an arbitrary entry for a new key.
SetDirect(k, e) ==
    \/ /\ \A s \in Shards :
             k \in s => direct[k] # NoEntry \/ Cardinality(Present(s)) < ShardSize
       /\ direct' = [direct EXCEPT ![k] = e]
    \/ \E s \in Shards, victim \in Present(UNION Shards) :
          /\ k \in s /\ victim \in s
          /\ direct[k] = NoEntry /\ Cardinality(Present(s)) >= ShardSize
          /\ direct' = [direct EXCEPT ![k] = e, ![victim] = NoEntry]

\* ifCurrent's test.  (Mutant: the answer is stored whatever happened.)
StoreRegardless(g) == TRUE
IfCurrent(g) == gen[g] = epoch

\* ifCurrent(gen, set...): the epoch check and the store are one step, since
\* invalidate needs the lock that is held over both.
StoreAnswer(g, e) ==
    IF ~Stored(e) \/ ~IfCurrent(g)
    THEN UNCHANGED tierVars
    ELSE IF StoredScoped(e)
    THEN SetScoped(req[g].q, e.scope, e) /\ UNCHANGED direct
    ELSE SetDirect(DirectKeyOf(req[g]), e) /\ UNCHANGED <<scoped, age>>
-----------------------------------------------------------------------------
(* handler.go: ServeDNS, refresh and fetch                                 *)

Init ==
    /\ direct = [k \in DirectKey |-> NoEntry]
    /\ scoped = [q \in Question |-> [p \in Prefix |-> NoEntry]]
    /\ age = [q \in Question |-> [p \in Prefix |-> 0]]
    /\ epoch = 0
    /\ flight = [k \in FlightKey |-> NoFlight]
    /\ pc = [g \in Proc |-> "idle"]
    /\ req = [g \in Proc |-> SomeRequest]
    /\ fkey = [g \in Proc |-> BucketKey(SomeRequest)]
    /\ gen = [g \in Proc |-> 0]
    /\ got = [g \in Proc |-> NoAnswer]
    /\ flush = [f \in Flusher |-> IdleFlush]
    /\ floor = [n \in Name |-> 0]
    /\ clock = 0
    /\ world = 0

\* A query arrives and ServeDNS takes its time stamp.
ServeDNS(g, c, q) ==
    /\ pc[g] = "idle"
    /\ pc' = [pc EXCEPT ![g] = "scoped"]
    /\ req' = [req EXCEPT ![g] = [client |-> c, q |-> q, at |-> clock]]
    /\ UNCHANGED <<storeVars, flight, fkey, gen, got, flushVars, envVars>>

IdleRefresher == {r \in Refresher : pc[r] = "idle"}

\* A hit answers from e and may start a background refresh.  The goroutine
\* never blocks the hit: one beyond the bound Refresher has not run yet.
Hit(g, e) ==
    /\ got' = [got EXCEPT ![g] = e]
    /\ IF HitRefreshes(e, req[g].at) /\ IdleRefresher # {}
       THEN \E r \in IdleRefresher :
              /\ pc' = [pc EXCEPT ![g] = "deliver", ![r] = "join"]
              /\ req' = [req EXCEPT ![r] = req[g]]
              /\ fkey' = [fkey EXCEPT ![r] = BucketKey(req[g])]
       ELSE /\ pc' = [pc EXCEPT ![g] = "deliver"]
            /\ UNCHANGED <<req, fkey>>
    /\ UNCHANGED <<storeVars, flight, gen, flushVars, envVars>>

GetScopedHit(g) ==
    /\ pc[g] = "scoped"
    /\ \E seen \in Scans(req[g].q) :
          \E p \in BestScoped(seen, req[g].q, req[g].client, req[g].at) :
              Hit(g, scoped[req[g].q][p])

\* No scoped entry that is seen serves.
GetScopedMiss(g) ==
    /\ pc[g] = "scoped"
    /\ \E seen \in Scans(req[g].q) :
          BestScoped(seen, req[g].q, req[g].client, req[g].at) = {}
    /\ pc' = [pc EXCEPT ![g] = "direct"]
    /\ UNCHANGED <<storeVars, flight, req, fkey, gen, got, flushVars, envVars>>

GetDirectHit(g) ==
    LET e == direct[DirectKeyOf(req[g])]
    IN  /\ pc[g] = "direct"
        /\ e # NoEntry
        /\ Servable(e, req[g].at)
        /\ Hit(g, e)

GetDirectMiss(g) ==
    LET e == direct[DirectKeyOf(req[g])]
    IN  /\ pc[g] = "direct"
        /\ ~(e # NoEntry /\ Servable(e, req[g].at))
        /\ pc' = [pc EXCEPT ![g] = "join"]
        /\ fkey' = [fkey EXCEPT ![g] = BucketKey(req[g])]
        /\ UNCHANGED <<storeVars, flight, req, gen, got, flushVars, envVars>>

\* (Mutant: misses of one key are not coalesced.)
LeadsAlways(g) == TRUE
Leads(g) == flight[fkey[g]] = NoFlight

\* sf.Do: the first caller of a key leads, the others wait for its result.  A
\* refresh reads its own clock just before.
JoinFlight(g) ==
    /\ pc[g] = "join"
    /\ req' = [req EXCEPT ![g] = [client |-> req[g].client, q |-> req[g].q,
                                  at |-> IF g \in Refresher THEN clock ELSE req[g].at]]
    /\ IF Leads(g)
       THEN /\ flight' = [flight EXCEPT ![fkey[g]] = g]
            /\ pc' = [pc EXCEPT ![g] = "generation"]
       ELSE /\ pc' = [pc EXCEPT ![g] = "wait"]
            /\ UNCHANGED flight
    /\ UNCHANGED <<storeVars, fkey, gen, got, flushVars, envVars>>

\* gen := c.store.generation()
ReadGeneration(g) ==
    /\ pc[g] = "generation"
    /\ gen' = [gen EXCEPT ![g] = epoch]
    /\ pc' = [pc EXCEPT ![g] = "ask"]
    /\ UNCHANGED <<storeVars, flight, req, fkey, got, flushVars, envVars>>

\* Next answers from the upstream's data of this moment.  A scope is masked
\* from the leader's own address, so its network contains the leader.  (An
\* upstream that echoes a scope of the other address family is not modelled.)
NextAnswers(g) ==
    /\ pc[g] = "ask"
    /\ \E k \in Kinds, s \in Prefix \cup {NoScope}, ch \in Chains, t \in UpstreamTTL :
          /\ s # NoScope => req[g].client \in s
          /\ got' = [got EXCEPT ![g] =
                [q |-> req[g].q, ver |-> world, asker |-> req[g].client, scope |-> s,
                 kind |-> k, chain |-> ch, ttl |-> t, stored |-> req[g].at]]
    /\ pc' = [pc EXCEPT ![g] = "answered"]
    /\ UNCHANGED <<storeVars, flight, req, fkey, gen, flushVars, envVars>>

\* Next returned an error and wrote nothing: a SERVFAIL is synthesized.
NextFails(g) ==
    /\ pc[g] = "ask"
    /\ got' = [got EXCEPT ![g] =
          [q |-> req[g].q, ver |-> world, asker |-> req[g].client, scope |-> NoScope,
           kind |-> "servfail", chain |-> {}, ttl |-> 0, stored |-> req[g].at]]
    /\ pc' = [pc EXCEPT ![g] = "answered"]
    /\ UNCHANGED <<storeVars, flight, req, fkey, gen, flushVars, envVars>>

\* (Mutant: the nil message goes on to be cached and shared.)
NextSilentUnguarded(g) ==
    /\ pc[g] = "ask"
    /\ got' = [got EXCEPT ![g] = NoAnswer]
    /\ pc' = [pc EXCEPT ![g] = "answered"]
    /\ UNCHANGED <<storeVars, flight, req, fkey, gen, flushVars, envVars>>

\* Next returned nil and wrote nothing: errNoUpstreamResponse.
NextSilent(g) ==
    /\ pc[g] = "ask"
    /\ got' = [got EXCEPT ![g] = NoAnswer]
    /\ pc' = [pc EXCEPT ![g] = "finish"]
    /\ UNCHANGED <<storeVars, flight, req, fkey, gen, flushVars, envVars>>

\* The rest of the leader's closure: decide and store.
Store(g) ==
    /\ pc[g] = "answered"
    /\ StoreAnswer(g, got[g])
    /\ pc' = [pc EXCEPT ![g] = "finish"]
    /\ UNCHANGED <<epoch, flight, req, fkey, gen, got, flushVars, envVars>>

\* Those a finished call releases.
Party(g) == {p \in Proc : p = g \/ (pc[p] = "wait" /\ fkey[p] = fkey[g])}

\* (Mutant: the shared answer goes to everyone who waited.)
RefetchesNever(p, e) == FALSE

\* A worker the shared answer does not cover fetches once more under its own
\* address; the answer to that second fetch is not examined again.
Refetches(p, e) ==
    /\ p \in Worker
    /\ e # NoAnswer
    /\ fkey[p].ip = AnyIP
    /\ ~AppliesTo(e, req[p].client)

AfterFetch(p, e) ==
    IF Refetches(p, e) THEN "join"
    ELSE IF p \in Worker /\ e # NoAnswer THEN "deliver"
    ELSE "idle"

\* singleflight hands the leader's result to everyone and forgets the key.  A
\* goroutine that ends takes its locals with it: they return to their defaults.
FinishFlight(g) ==
    LET e == got[g]
    IN  /\ pc[g] = "finish"
        /\ flight' = [flight EXCEPT ![fkey[g]] = NoFlight]
        /\ pc' = [p \in Proc |-> IF p \in Party(g) THEN AfterFetch(p, e) ELSE pc[p]]
        /\ got' = [p \in Proc |-> IF p \notin Party(g) THEN got[p]
                                  ELSE IF AfterFetch(p, e) = "deliver" THEN e ELSE NoAnswer]
        /\ fkey' = [p \in Proc |-> IF p \notin Party(g) THEN fkey[p]
                                   ELSE IF Refetches(p, e) THEN IPKey(req[p])
                                   ELSE BucketKey(SomeRequest)]
        /\ req' = [p \in Proc |-> IF p \in Party(g) /\ AfterFetch(p, e) = "idle"
                                  THEN SomeRequest ELSE req[p]]
        /\ gen' = [gen EXCEPT ![g] = 0]
        /\ UNCHANGED <<storeVars, flushVars, envVars>>

\* w.WriteMsg of the reply.
Deliver(g) ==
    /\ pc[g] = "deliver"
    /\ pc' = [pc EXCEPT ![g] = "idle"]
    /\ got' = [got EXCEPT ![g] = NoAnswer]
    /\ req' = [req EXCEPT ![g] = SomeRequest]
    /\ UNCHANGED <<storeVars, flight, fkey, gen, flushVars, envVars>>
-----------------------------------------------------------------------------
(* store.clear (name = AllNames) and store.clearName                       *)

Invalidate(f, n) ==
    /\ flush[f].pc = "idle"
    /\ epoch < MaxEpoch
    /\ epoch' = epoch + 1
    /\ flush' = [flush EXCEPT ![f] =
          [pc |-> "walk", name |-> n, shards |-> Shards, keys |-> {}, since |-> world]]
    /\ UNCHANGED <<tierVars, flight, procVars, floor, envVars>>

\* (Mutant: the walk starts over on what was stored meanwhile.)
WalkShardAgain(f, s) ==
    /\ flush[f].pc = "walk" /\ flush[f].keys = {} /\ s \in flush[f].shards
    /\ flush' = [flush EXCEPT ![f] =
          [pc |-> "walk", name |-> flush[f].name,
           shards |-> IF Present(s) = {} THEN flush[f].shards \ {s} ELSE flush[f].shards,
           keys |-> Present(s), since |-> flush[f].since]]
    /\ UNCHANGED <<storeVars, flight, procVars, floor, envVars>>

\* ccache.Walk lists one shard's keys, then visits each under the shard lock.
WalkShard(f, s) ==
    /\ flush[f].pc = "walk" /\ flush[f].keys = {} /\ s \in flush[f].shards
    /\ flush' = [flush EXCEPT ![f] =
          [pc |-> "walk", name |-> flush[f].name, shards |-> flush[f].shards \ {s},
           keys |-> Present(s), since |-> flush[f].since]]
    /\ UNCHANGED <<storeVars, flight, procVars, floor, envVars>>

WalkKey(f, k) ==
    /\ flush[f].pc = "walk" /\ k \in flush[f].keys
    /\ flush' = [flush EXCEPT ![f] =
          [pc |-> "walk", name |-> flush[f].name, shards |-> flush[f].shards,
           keys |-> flush[f].keys \ {k}, since |-> flush[f].since]]
    /\ direct' = IF direct[k] # NoEntry /\ FlushCovers(flush[f].name, direct[k])
                 THEN [direct EXCEPT ![k] = NoEntry] ELSE direct
    /\ UNCHANGED <<scoped, age, epoch, flight, procVars, floor, envVars>>

FlushedScoped(q, n) == {p \in Held(q) : FlushCovers(n, scoped[q][p])}

\* The scoped tier goes in one step under s.mu, and the flush returns.
ClearScoped(f) ==
    /\ flush[f].pc = "walk" /\ flush[f].keys = {} /\ flush[f].shards = {}
    /\ scoped' = [q \in Question |-> [p \in Prefix |->
          IF p \in FlushedScoped(q, flush[f].name) THEN NoEntry ELSE scoped[q][p]]]
    /\ age' = [q \in Question |-> [p \in Prefix |->
          IF p \in FlushedScoped(q, flush[f].name) THEN 0 ELSE age[q][p]]]
    /\ floor' = [n \in Name |->
          IF flush[f].name \in {n, AllNames} /\ floor[n] < flush[f].since
          THEN flush[f].since ELSE floor[n]]
    /\ flush' = [flush EXCEPT ![f] = IdleFlush]
    /\ UNCHANGED <<direct, epoch, flight, procVars, envVars>>
-----------------------------------------------------------------------------
Tick ==
    /\ clock < MaxClock
    /\ clock' = clock + 1
    /\ UNCHANGED <<storeVars, flight, procVars, flushVars, world>>

UpstreamChange ==
    /\ world < MaxWorld
    /\ world' = world + 1
    /\ UNCHANGED <<storeVars, flight, procVars, flushVars, clock>>

ProcStep(g) ==
    \/ GetScopedHit(g) \/ GetScopedMiss(g) \/ GetDirectHit(g) \/ GetDirectMiss(g)
    \/ JoinFlight(g) \/ ReadGeneration(g)
    \/ NextAnswers(g) \/ NextFails(g) \/ NextSilent(g)
    \/ Store(g) \/ FinishFlight(g) \/ Deliver(g)

FlushStep(f) ==
    \/ \E s \in Shards : WalkShard(f, s)
    \/ \E k \in DirectKey : WalkKey(f, k)
    \/ ClearScoped(f)

Next ==
    \/ \E g \in Worker, c \in Client, q \in Question : ServeDNS(g, c, q)
    \/ \E g \in Proc : ProcStep(g)
    \/ \E f \in Flusher, n \in Name \cup {AllNames} : Invalidate(f, n)
    \/ \E f \in Flusher : FlushStep(f)
    \/ Tick
    \/ UpstreamChange

\* Every goroutine that can run eventually does, and Next returns: forward
\* bounds every exchange with a timeout.
Fairness ==
    /\ \A g \in Proc : WF_vars(ProcStep(g))
    /\ \A f \in Flusher : WF_vars(FlushStep(f))

Spec == Init /\ [][Next]_vars
FairSpec == Spec /\ Fairness
-----------------------------------------------------------------------------
(* Properties                                                              *)

PC == {"idle", "scoped", "direct", "join", "wait", "generation", "ask",
       "answered", "finish", "deliver"}

\* Every variable holds a value of its Go type, and a process about to store or
\* to reply holds an answer to do it with (never a nil *dns.Msg).
TypeOK ==
    /\ direct \in [DirectKey -> Answer \cup {NoEntry}]
    /\ scoped \in [Question -> [Prefix -> Answer \cup {NoEntry}]]
    /\ age \in [Question -> [Prefix -> Nat]]
    /\ epoch \in Nat
    /\ flight \in [FlightKey -> Proc \cup {NoFlight}]
    /\ pc \in [Proc -> PC]
    /\ req \in [Proc -> Request]
    /\ fkey \in [Proc -> FlightKey]
    /\ gen \in [Proc -> Nat]
    /\ got \in [Proc -> Answer \cup {NoAnswer}]
    /\ \A g \in Proc : pc[g] \in {"answered", "deliver"} => got[g] \in Answer
    /\ flush \in [Flusher -> FlushState]
    /\ floor \in [Name -> Nat]
    /\ clock \in Nat /\ world \in Nat

\* What a completed flush promises (store.clear, store.clearName and the epoch
\* comment): no entry of either tier that depends on a flushed name was read
\* from upstream data older than the flush, whatever was in flight when it ran.
FlushedStaysGone ==
    \A n \in Name :
        /\ \A k \in DirectKey :
              direct[k] # NoEntry /\ n \in DependsOn(direct[k]) => floor[n] <= direct[k].ver
        /\ \A q \in Question, p \in Prefix :
              scoped[q][p] # NoEntry /\ n \in DependsOn(scoped[q][p]) =>
                  floor[n] <= scoped[q][p].ver

\* The inductive strengthening of FlushedStaysGone.  A leader never holds an
\* epoch of the future, and an answer that would still be stored is at least as
\* new as every flush begun so far ...
GenerationsPast == \A g \in Proc : gen[g] <= epoch
FlushesPast ==
    /\ \A f \in Flusher : flush[f].since <= world
    /\ \A n \in Name : floor[n] <= world
AnsweredCurrent ==
    \A g \in Proc : pc[g] = "answered" /\ gen[g] = epoch =>
        /\ \A f \in Flusher : flush[f].since <= got[g].ver
        /\ \A n \in Name : floor[n] <= got[g].ver
\* ... and an entry older than a running flush that covers it is still ahead of
\* that flush's walk.
WalkAhead ==
    \A f \in Flusher, k \in DirectKey :
        /\ flush[f].pc = "walk"
        /\ direct[k] # NoEntry
        /\ FlushCovers(flush[f].name, direct[k])
        /\ direct[k].ver < flush[f].since
        => k \in flush[f].keys \cup UNION flush[f].shards

FlushInv ==
    /\ TypeOK
    /\ GenerationsPast
    /\ FlushesPast
    /\ AnsweredCurrent
    /\ WalkAhead
    /\ FlushedStaysGone

\* A client only ever receives an answer meant for it, on a hit, a coalesced
\* wait or a second fetch alike: one that is filed under the scope the upstream
\* gave it goes to clients inside that scope only, and any other stays in the
\* VLAN bucket it was asked for.  What is not stored has
\* lost its scope (fetch sets the prefix only where it stores), so a truncated
\* answer, scoped or not, is the bucket's as a whole: whoever waited for it in
\* the bucket may get it, and the property does not ask for more.
AnswerAppropriate ==
    \A g \in Worker : pc[g] = "deliver" =>
        /\ got[g].q = req[g].q
        /\ IF StoredScoped(got[g])
           THEN req[g].client \in got[g].scope
           ELSE BucketOf[got[g].asker] = BucketOf[req[g].client]

\* The inductive strengthening of AnswerAppropriate.  An entry is stored where
\* its question, its bucket or its scope will look for it ...
EntriesInPlace ==
    /\ \A b \in Bucket, q \in Question : direct[<<b, q>>] # NoEntry =>
          LET e == direct[<<b, q>>]
          IN  e.q = q /\ BucketOf[e.asker] = b /\ ~StoredScoped(e)
    /\ \A q \in Question, p \in Prefix : scoped[q][p] # NoEntry =>
          LET e == scoped[q][p]
          IN  e.q = q /\ e.scope = p /\ StoredScoped(e)
\* ... a process fetches under the key of its own request, and what a leader got
\* answers that request.
FetchingAt == {"join", "wait", "generation", "ask", "answered", "finish"}
FetchesInPlace ==
    \A g \in Proc :
        /\ pc[g] \in FetchingAt => fkey[g] \in {BucketKey(req[g]), IPKey(req[g])}
        /\ pc[g] \in {"answered", "finish"} /\ got[g] # NoAnswer =>
              /\ got[g].q = req[g].q /\ got[g].asker = req[g].client
              /\ got[g].scope # NoScope => req[g].client \in got[g].scope

SharingInv == EntriesInPlace /\ FetchesInPlace /\ AnswerAppropriate

\* The scoped tier keeps at most MaxScoped networks per question, each under the
\* network its answer was scoped to, and always knows which one is oldest.
ScopedBounded ==
    \A q \in Question :
        /\ Cardinality(Held(q)) <= MaxScoped
        /\ \A p \in Held(q) : scoped[q][p].scope = p
        /\ \A p, r \in Held(q) : age[q][p] = age[q][r] => p = r

\* Its inductive strengthening: a question's list is finite.
ScopedInv == ScopedBounded /\ \A q \in Question : IsFiniteSet(Held(q))

\* Nobody waits on a call that is gone, and no key is led twice: a call in
\* singleflight's table is led by a process still working on it under its key.
Leading(g) == pc[g] \in {"generation", "ask", "answered", "finish"}
FlightsAreLed ==
    /\ \A g \in Proc : Leading(g) => flight[fkey[g]] = g
    /\ \A g \in Proc : pc[g] = "wait" => flight[fkey[g]] \in Proc
    /\ \A k \in FlightKey : flight[k] # NoFlight =>
          Leading(flight[k]) /\ fkey[flight[k]] = k

\* Every query ends: leaders, followers that wait for a leader's call and those
\* that fetch again because its answer is not theirs.
EveryQueryEnds == \A g \in Worker : pc[g] # "idle" ~> pc[g] = "idle"

\* A flush ends although queries keep storing entries under its walk.
EveryFlushEnds == \A f \in Flusher : flush[f].pc = "walk" ~> flush[f].pc = "idle"
=============================================================================
