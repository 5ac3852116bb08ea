-------------------------- MODULE VlanCacheProofs --------------------------
(***************************************************************************)
(* Theorems about VlanCache for every set of clients, names, questions,    *)
(* networks, goroutines and every bound.                                   *)
(***************************************************************************)
EXTENDS VlanCache, CommonFacts, TLAPS

\* The defaults of a goroutine's locals are of their types.
LEMMA DefaultsTyped ==
    /\ SomeRequest \in Request
    /\ BucketKey(SomeRequest) \in FlightKey
    /\ \A r \in Request : /\ BucketKey(r) \in FlightKey
                          /\ IPKey(r) \in FlightKey
                          /\ DirectKeyOf(r) \in DirectKey
<1>1. SomeRequest \in Request
  BY CacheAssumption DEF SomeRequest, Request
<1>2. \A r \in Request : /\ BucketKey(r) \in FlightKey
                         /\ IPKey(r) \in FlightKey
                         /\ DirectKeyOf(r) \in DirectKey
  BY CacheAssumption DEF Request, BucketKey, IPKey, DirectKeyOf, FlightKey, DirectKey
<1> QED BY <1>1, <1>2

\* An empty store and idle goroutines are well typed.
LEMMA InitTyped == Init => TypeOK
<1> SUFFICES ASSUME Init PROVE TypeOK
  OBVIOUS
<1>1. /\ direct \in [DirectKey -> Answer \cup {NoEntry}]
      /\ scoped \in [Question -> [Prefix -> Answer \cup {NoEntry}]]
      /\ age \in [Question -> [Prefix -> Nat]]
  BY DEF Init
<1>2. /\ req \in [Proc -> Request]
      /\ fkey \in [Proc -> FlightKey]
      /\ pc \in [Proc -> PC]
      /\ got \in [Proc -> Answer \cup {NoAnswer}]
  BY DefaultsTyped DEF Init, PC
<1>3. flush \in [Flusher -> FlushState]
  BY DEF Init, IdleFlush, FlushState
<1> QED BY <1>1, <1>2, <1>3 DEF Init, TypeOK

\* An answer as fetch builds it.
LEMMA NewAnswer ==
    ASSUME NEW q \in Question, NEW v \in Nat, NEW c \in Client,
           NEW s \in Prefix \cup {NoScope}, NEW k \in AllKinds,
           NEW ch \in SUBSET Name, NEW t \in Nat, NEW st \in Nat
    PROVE  [q |-> q, ver |-> v, asker |-> c, scope |-> s, kind |-> k,
            chain |-> ch, ttl |-> t, stored |-> st] \in Answer
BY DEF Answer

\* A hit only hands out what a tier holds.
LEMMA HitTyped ==
    ASSUME TypeOK, NEW g \in Proc, NEW e \in Answer, Hit(g, e)
    PROVE  TypeOK'
<1>1. got' \in [Proc -> Answer \cup {NoAnswer}]
  BY DEF TypeOK, Hit
<1>2. /\ pc' \in [Proc -> PC]
      /\ req' \in [Proc -> Request]
      /\ fkey' \in [Proc -> FlightKey]
  BY DefaultsTyped, ZenonT(60) DEF TypeOK, Hit, IdleRefresher, Proc, PC
<1> QED
  BY <1>1, <1>2 DEF TypeOK, Hit, storeVars, tierVars, flushVars, envVars

\* The tiers stay typed when the leader stores its answer.
LEMMA StoreTyped ==
    ASSUME TypeOK, NEW g \in Proc, NEW e \in Answer, StoreAnswer(g, e)
    PROVE  /\ direct' \in [DirectKey -> Answer \cup {NoEntry}]
           /\ scoped' \in [Question -> [Prefix -> Answer \cup {NoEntry}]]
           /\ age' \in [Question -> [Prefix -> Nat]]
<1>1. req[g].q \in Question /\ DirectKeyOf(req[g]) \in DirectKey
  BY DefaultsTyped DEF TypeOK, Request
<1>2. CASE UNCHANGED tierVars
  BY <1>2 DEF tierVars, TypeOK
<1>3. CASE SetScoped(req[g].q, e.scope, e) /\ UNCHANGED direct
  BY <1>1, <1>3 DEF SetScoped, TypeOK
<1>4. CASE SetDirect(DirectKeyOf(req[g]), e) /\ UNCHANGED <<scoped, age>>
  BY <1>1, <1>4 DEF SetDirect, TypeOK
<1> QED BY <1>2, <1>3, <1>4 DEF StoreAnswer

\* Every step of a query, a refresh, a flush or the environment keeps the types.
LEMMA StepTyped == TypeOK /\ [Next]_vars => TypeOK'
<1> SUFFICES ASSUME TypeOK, [Next]_vars PROVE TypeOK'
  OBVIOUS
<1> USE DEF storeVars, tierVars, procVars, flushVars, envVars
<1>1. ASSUME NEW g \in Worker, NEW c \in Client, NEW q \in Question, ServeDNS(g, c, q)
      PROVE  TypeOK'
  BY <1>1 DEF TypeOK, ServeDNS, Request, PC, Proc
<1>2. ASSUME NEW g \in Proc, GetScopedHit(g)
      PROVE  TypeOK'
  <2>1. PICK seen \in Scans(req[g].q) :
           \E p \in BestScoped(seen, req[g].q, req[g].client, req[g].at) :
               Hit(g, scoped[req[g].q][p])
    BY <1>2 DEF GetScopedHit
  <2>2. PICK p \in BestScoped(seen, req[g].q, req[g].client, req[g].at) :
           Hit(g, scoped[req[g].q][p])
    BY <2>1
  <2>3. seen \subseteq Held(req[g].q)
    BY <2>1 DEF Scans
  <2>4. p \in Prefix /\ scoped[req[g].q][p] # NoEntry
    BY <2>2, <2>3 DEF BestScoped, Held
  <2>5. scoped[req[g].q][p] \in Answer
    BY <2>4 DEF TypeOK, Request
  <2> QED BY <2>2, <2>5, HitTyped
<1>3. ASSUME NEW g \in Proc, GetScopedMiss(g)
      PROVE  TypeOK'
  BY <1>3 DEF TypeOK, GetScopedMiss, PC
<1>4. ASSUME NEW g \in Proc, GetDirectHit(g)
      PROVE  TypeOK'
  <2>1. direct[DirectKeyOf(req[g])] \in Answer
    BY <1>4, DefaultsTyped DEF GetDirectHit, TypeOK
  <2> QED BY <1>4, <2>1, HitTyped DEF GetDirectHit
<1>5. ASSUME NEW g \in Proc, GetDirectMiss(g)
      PROVE  TypeOK'
  BY <1>5, DefaultsTyped DEF TypeOK, GetDirectMiss, PC
<1>6. ASSUME NEW g \in Proc, JoinFlight(g)
      PROVE  TypeOK'
  BY <1>6 DEF TypeOK, JoinFlight, PC, Request
<1>7. ASSUME NEW g \in Proc, ReadGeneration(g)
      PROVE  TypeOK'
  BY <1>7 DEF TypeOK, ReadGeneration, PC
<1>8. ASSUME NEW g \in Proc, NextAnswers(g)
      PROVE  TypeOK'
  <2>1. req[g].client \in Client /\ req[g].q \in Question /\ req[g].at \in Nat /\ world \in Nat
    BY DEF TypeOK, Request
  <2>2. PICK k \in Kinds, s \in Prefix \cup {NoScope}, ch \in Chains, t \in UpstreamTTL :
           got' = [got EXCEPT ![g] =
              [q |-> req[g].q, ver |-> world, asker |-> req[g].client, scope |-> s,
               kind |-> k, chain |-> ch, ttl |-> t, stored |-> req[g].at]]
    BY <1>8 DEF NextAnswers
  <2>3. k \in AllKinds /\ ch \in SUBSET Name /\ t \in Nat
    BY CacheAssumption
  <2>4. [q |-> req[g].q, ver |-> world, asker |-> req[g].client, scope |-> s,
         kind |-> k, chain |-> ch, ttl |-> t, stored |-> req[g].at] \in Answer
    BY <2>1, <2>3, NewAnswer
  <2>5. got' \in [Proc -> Answer \cup {NoAnswer}] /\ got'[g] \in Answer
    BY <2>2, <2>4 DEF TypeOK
  <2>6. \A p \in Proc : pc'[p] \in {"answered", "deliver"} => got'[p] \in Answer
    BY <1>8, <2>2, <2>5 DEF TypeOK, NextAnswers
  <2> QED BY <1>8, <2>5, <2>6 DEF TypeOK, NextAnswers, PC
<1>9. ASSUME NEW g \in Proc, NextFails(g)
      PROVE  TypeOK'
  <2>1. req[g].client \in Client /\ req[g].q \in Question /\ req[g].at \in Nat /\ world \in Nat
    BY DEF TypeOK, Request
  <2>2. [q |-> req[g].q, ver |-> world, asker |-> req[g].client, scope |-> NoScope,
         kind |-> "servfail", chain |-> {}, ttl |-> 0, stored |-> req[g].at] \in Answer
    BY <2>1, NewAnswer DEF AllKinds
  <2>3. got' \in [Proc -> Answer \cup {NoAnswer}] /\ got'[g] \in Answer
    BY <1>9, <2>2 DEF TypeOK, NextFails
  <2>4. \A p \in Proc : pc'[p] \in {"answered", "deliver"} => got'[p] \in Answer
    BY <1>9, <2>3 DEF TypeOK, NextFails
  <2> QED BY <1>9, <2>3, <2>4 DEF TypeOK, NextFails, PC
<1>10. ASSUME NEW g \in Proc, NextSilent(g)
       PROVE  TypeOK'
  BY <1>10 DEF TypeOK, NextSilent, PC
<1>11. ASSUME NEW g \in Proc, Store(g)
       PROVE  TypeOK'
  <2>1. got[g] \in Answer
    BY <1>11 DEF TypeOK, Store
  <2> QED BY <1>11, <2>1, StoreTyped DEF TypeOK, Store, PC
<1>12. ASSUME NEW g \in Proc, FinishFlight(g)
       PROVE  TypeOK'
  <2>1. /\ flight' \in [FlightKey -> Proc \cup {NoFlight}]
        /\ gen' \in [Proc -> Nat]
    BY <1>12 DEF TypeOK, FinishFlight
  <2>2. pc' \in [Proc -> PC]
    BY <1>12 DEF TypeOK, FinishFlight, AfterFetch, PC
  <2>3. got' \in [Proc -> Answer \cup {NoAnswer}]
    BY <1>12 DEF TypeOK, FinishFlight
  <2>4. /\ fkey' \in [Proc -> FlightKey]
        /\ req' \in [Proc -> Request]
    BY <1>12, DefaultsTyped DEF TypeOK, FinishFlight
  <2>5. \A p \in Proc : pc'[p] \in {"answered", "deliver"} => got'[p] \in Answer
    <3> SUFFICES ASSUME NEW p \in Proc, pc'[p] \in {"answered", "deliver"}
                 PROVE  got'[p] \in Answer
      OBVIOUS
    <3>1. CASE p \in Party(g)
      <4>1. pc'[p] = AfterFetch(p, got[g])
        BY <1>12, <3>1 DEF FinishFlight
      <4>2. AfterFetch(p, got[g]) = "deliver" /\ got[g] # NoAnswer
        BY <4>1 DEF AfterFetch
      <4> QED BY <1>12, <3>1, <4>2 DEF FinishFlight, TypeOK
    <3>2. CASE p \notin Party(g)
      BY <1>12, <3>2 DEF FinishFlight, TypeOK
    <3> QED BY <3>1, <3>2
  <2> QED BY <1>12, <2>1, <2>2, <2>3, <2>4, <2>5 DEF TypeOK, FinishFlight
<1>13. ASSUME NEW g \in Proc, Deliver(g)
       PROVE  TypeOK'
  BY <1>13, DefaultsTyped DEF TypeOK, Deliver, PC
<1>14. ASSUME NEW f \in Flusher, NEW n \in Name \cup {AllNames}, Invalidate(f, n)
       PROVE  TypeOK'
  BY <1>14 DEF TypeOK, Invalidate, FlushState
<1>15. ASSUME NEW f \in Flusher, NEW s \in Shards, WalkShard(f, s)
       PROVE  TypeOK'
  <2>1. Present(s) \in SUBSET DirectKey
    BY CacheAssumption DEF Present
  <2> QED BY <1>15, <2>1 DEF TypeOK, WalkShard, FlushState
<1>16. ASSUME NEW f \in Flusher, NEW k \in DirectKey, WalkKey(f, k)
       PROVE  TypeOK'
  BY <1>16 DEF TypeOK, WalkKey, FlushState
<1>17. ASSUME NEW f \in Flusher, ClearScoped(f)
       PROVE  TypeOK'
  <2>1. flush[f].since \in Nat /\ IdleFlush \in FlushState
    BY DEF TypeOK, FlushState, IdleFlush
  <2> QED BY <1>17, <2>1 DEF TypeOK, ClearScoped
<1>18. CASE Tick
  BY <1>18 DEF TypeOK, Tick
<1>19. CASE UpstreamChange
  BY <1>19 DEF TypeOK, UpstreamChange
<1>20. CASE UNCHANGED vars
  BY <1>20 DEF TypeOK, vars
<1> QED
  BY <1>1, <1>2, <1>3, <1>4, <1>5, <1>6, <1>7, <1>8, <1>9, <1>10, <1>11, <1>12, <1>13,
     <1>14, <1>15, <1>16, <1>17, <1>18, <1>19, <1>20
     DEF Next, ProcStep, FlushStep

\* Every reachable state is well typed; in particular a process that stores or
\* replies holds an answer (fetch never shares a nil message).
THEOREM TypeCorrect == Spec => []TypeOK
<1> QED BY InitTyped, StepTyped, PTL DEF Spec
-----------------------------------------------------------------------------
(* A completed flush stays in force                                        *)

\* What the steps of queries share: the tiers, the epoch, the flushes and the
\* world stand still, and a process only turns "answered" with an answer of
\* this moment.
LEMMA QuietStep ==
    ASSUME FlushInv, TypeOK',
           UNCHANGED <<direct, scoped, epoch, flush, floor, world>>,
           \A p \in Proc : gen'[p] \in {gen[p], epoch, 0},
           \A p \in Proc : pc'[p] = "answered" =>
               \/ got'[p].ver = world
               \/ pc[p] = "answered" /\ got'[p] = got[p] /\ gen'[p] = gen[p]
    PROVE  FlushInv'
<1>1. GenerationsPast'
  <2>1. epoch \in Nat /\ \A p \in Proc : gen[p] <= epoch
    BY DEF FlushInv, GenerationsPast, TypeOK
  <2> QED BY <2>1 DEF GenerationsPast
<1>2. FlushesPast'
  BY DEF FlushInv, FlushesPast
<1>3. AnsweredCurrent'
  BY DEF FlushInv, AnsweredCurrent, FlushesPast
<1>4. WalkAhead' /\ FlushedStaysGone'
  BY DEF FlushInv, WalkAhead, FlushedStaysGone, FlushCovers, DependsOn
<1> QED BY <1>1, <1>2, <1>3, <1>4 DEF FlushInv

\* A stored answer is at least as new as every flush begun so far, so storing
\* it under any key or network breaks no flush's promise.
LEMMA StoreStep ==
    ASSUME FlushInv, TypeOK', NEW g \in Proc, Store(g)
    PROVE  FlushInv'
<1> DEFINE e == got[g]
<1>1. e \in Answer /\ pc[g] = "answered" /\ StoreAnswer(g, e)
  BY DEF Store, FlushInv, TypeOK
<1>2. UNCHANGED <<epoch, flush, floor, world, gen, got>>
  BY DEF Store, flushVars, envVars
<1>3. GenerationsPast' /\ FlushesPast'
  BY <1>2 DEF FlushInv, GenerationsPast, FlushesPast
<1>4. AnsweredCurrent'
  BY <1>2 DEF FlushInv, AnsweredCurrent, Store, TypeOK
<1>5. CASE UNCHANGED <<direct, scoped>>
  BY <1>2, <1>3, <1>4, <1>5
     DEF FlushInv, WalkAhead, FlushedStaysGone, FlushCovers, DependsOn
<1>6. CASE /\ gen[g] = epoch
           /\ \/ SetScoped(req[g].q, e.scope, e) /\ UNCHANGED direct
              \/ SetDirect(DirectKeyOf(req[g]), e) /\ UNCHANGED <<scoped, age>>
  <2>1. /\ \A f \in Flusher : flush[f].since <= e.ver
        /\ \A n \in Name : floor[n] <= e.ver
    BY <1>1, <1>6 DEF FlushInv, AnsweredCurrent
  <2>2. \A k \in DirectKey : direct'[k] \in {direct[k], NoEntry, e}
    BY <1>6 DEF SetDirect, FlushInv, TypeOK
  <2>3. \A q \in Question, p \in Prefix : scoped'[q][p] \in {scoped[q][p], NoEntry, e}
    <3>1. CASE UNCHANGED scoped
      BY <3>1
    <3>2. CASE SetScoped(req[g].q, e.scope, e)
      <4> TAKE q \in Question, p \in Prefix
      <4>1. CASE q = req[g].q
        BY <3>2, <4>1 DEF SetScoped, FlushInv, TypeOK
      <4>2. CASE q # req[g].q
        BY <3>2, <4>2 DEF SetScoped, FlushInv, TypeOK
      <4> QED BY <4>1, <4>2
    <3> QED BY <1>6, <3>1, <3>2
  <2>4. WalkAhead'
    <3> SUFFICES ASSUME NEW f \in Flusher, NEW k \in DirectKey, flush[f].pc = "walk",
                        direct'[k] # NoEntry, FlushCovers(flush[f].name, direct'[k]),
                        direct'[k].ver < flush[f].since
                 PROVE  k \in flush[f].keys \cup UNION flush[f].shards
      BY <1>2 DEF WalkAhead, FlushCovers, DependsOn
    <3>1. flush[f].since \in Nat /\ e.ver \in Nat
      BY <1>1 DEF FlushInv, TypeOK, FlushState, Answer
    <3>2. direct'[k] = direct[k]
      BY <2>1, <2>2, <3>1
    <3> QED BY <3>2 DEF FlushInv, WalkAhead
  <2>5. FlushedStaysGone'
    <3> SUFFICES ASSUME NEW n \in Name
                 PROVE  /\ \A k \in DirectKey :
                             direct'[k] # NoEntry /\ n \in DependsOn(direct'[k]) =>
                                 floor[n] <= direct'[k].ver
                        /\ \A q \in Question, p \in Prefix :
                             scoped'[q][p] # NoEntry /\ n \in DependsOn(scoped'[q][p]) =>
                                 floor[n] <= scoped'[q][p].ver
      BY <1>2 DEF FlushedStaysGone, DependsOn
    <3>1. floor[n] <= e.ver
      BY <2>1
    <3> QED BY <2>2, <2>3, <3>1 DEF FlushInv, FlushedStaysGone
  <2> QED BY <1>3, <1>4, <2>4, <2>5 DEF FlushInv
<1> QED BY <1>1, <1>5, <1>6 DEF StoreAnswer, IfCurrent, tierVars

\* Starting a flush outdates every fetch in flight; no entry is newer than the
\* world the flush starts in, and the whole tier is ahead of its walk.
LEMMA InvalidateStep ==
    ASSUME FlushInv, TypeOK', NEW f \in Flusher, NEW n \in Name \cup {AllNames},
           Invalidate(f, n)
    PROVE  FlushInv'
<1> USE DEF tierVars, procVars, envVars
<1>1. GenerationsPast' /\ AnsweredCurrent'
  BY DEF FlushInv, GenerationsPast, AnsweredCurrent, Invalidate, TypeOK
<1>2. FlushesPast'
  BY DEF FlushInv, FlushesPast, Invalidate, TypeOK
<1>3. WalkAhead'
  <2> SUFFICES ASSUME NEW h \in Flusher, NEW k \in DirectKey, flush'[h].pc = "walk",
                      direct[k] # NoEntry, FlushCovers(flush'[h].name, direct[k]),
                      direct[k].ver < flush'[h].since
               PROVE  k \in flush'[h].keys \cup UNION flush'[h].shards
    BY DEF WalkAhead, FlushCovers, DependsOn, Invalidate
  <2>1. CASE h = f
    <3>1. flush'[h].shards = Shards
      BY <2>1 DEF Invalidate, FlushInv, TypeOK
    <3> QED BY <3>1, CacheAssumption
  <2>2. CASE h # f
    BY <2>2 DEF Invalidate, FlushInv, TypeOK, WalkAhead
  <2> QED BY <2>1, <2>2
<1>4. FlushedStaysGone'
  BY DEF FlushInv, FlushedStaysGone, DependsOn, Invalidate
<1> QED BY <1>1, <1>2, <1>3, <1>4 DEF FlushInv

\* Listing a shard's keys moves them from the shards ahead to the keys ahead.
LEMMA WalkShardStep ==
    ASSUME FlushInv, TypeOK', NEW f \in Flusher, NEW s \in Shards, WalkShard(f, s)
    PROVE  FlushInv'
<1> USE DEF tierVars, storeVars, procVars, envVars
<1>1. GenerationsPast' /\ AnsweredCurrent' /\ FlushesPast' /\ FlushedStaysGone'
  <2>1. \A h \in Flusher : flush'[h].since = flush[h].since
    BY DEF WalkShard, FlushInv, TypeOK
  <2> QED BY <2>1 DEF FlushInv, GenerationsPast, AnsweredCurrent, FlushesPast,
                      FlushedStaysGone, DependsOn, WalkShard
<1>2. WalkAhead'
  <2> SUFFICES ASSUME NEW h \in Flusher, NEW k \in DirectKey, flush'[h].pc = "walk",
                      direct[k] # NoEntry, FlushCovers(flush'[h].name, direct[k]),
                      direct[k].ver < flush'[h].since
               PROVE  k \in flush'[h].keys \cup UNION flush'[h].shards
    BY DEF WalkAhead, FlushCovers, DependsOn, WalkShard
  <2>1. CASE h = f
    <3>1. /\ flush'[f].keys = Present(s) /\ flush'[f].shards = flush[f].shards \ {s}
          /\ flush'[f].name = flush[f].name /\ flush'[f].since = flush[f].since
      BY DEF WalkShard, FlushInv, TypeOK
    <3>2. k \in UNION flush[f].shards
      BY <2>1, <3>1 DEF WalkShard, FlushInv, WalkAhead
    <3> QED BY <2>1, <3>1, <3>2 DEF Present
  <2>2. CASE h # f
    BY <2>2 DEF WalkShard, FlushInv, TypeOK, WalkAhead
  <2> QED BY <2>1, <2>2
<1> QED BY <1>1, <1>2 DEF FlushInv

\* Visiting a key drops its entry or leaves one the flush does not cover.
LEMMA WalkKeyStep ==
    ASSUME FlushInv, TypeOK', NEW f \in Flusher, NEW k \in DirectKey, WalkKey(f, k)
    PROVE  FlushInv'
<1> USE DEF procVars, envVars
<1>1. \A h \in Flusher :
          /\ flush'[h].since = flush[h].since
          /\ flush'[h].name = flush[h].name
          /\ flush'[h].pc = flush[h].pc
          /\ flush'[h].shards = flush[h].shards
          /\ flush[h].keys \subseteq flush'[h].keys \cup (IF h = f THEN {k} ELSE {})
  BY DEF WalkKey, FlushInv, TypeOK
<1>2. \A j \in DirectKey : direct'[j] \in {direct[j], NoEntry}
  BY DEF WalkKey, FlushInv, TypeOK
<1>3. direct'[k] = NoEntry \/ ~FlushCovers(flush[f].name, direct'[k])
  BY DEF WalkKey, FlushInv, TypeOK, FlushCovers, DependsOn
<1>4. GenerationsPast' /\ AnsweredCurrent' /\ FlushesPast'
  BY <1>1 DEF FlushInv, GenerationsPast, AnsweredCurrent, FlushesPast, WalkKey
<1>5. FlushedStaysGone'
  BY <1>2 DEF FlushInv, FlushedStaysGone, DependsOn, WalkKey
<1>6. WalkAhead'
  BY <1>1, <1>2, <1>3 DEF FlushInv, WalkAhead, FlushCovers, DependsOn
<1> QED BY <1>4, <1>5, <1>6 DEF FlushInv

\* The flush returns: its walk is empty, so by WalkAhead no covered entry of the
\* direct tier is older than it, and the scoped tier loses the covered ones.
LEMMA ClearScopedStep ==
    ASSUME FlushInv, TypeOK', NEW f \in Flusher, ClearScoped(f)
    PROVE  FlushInv'
<1> USE DEF procVars, envVars
<1>1. /\ flush[f].since \in Nat /\ \A n \in Name : floor[n] \in Nat
      /\ \A h \in Flusher : flush'[h] \in {flush[h], IdleFlush}
  BY DEF FlushInv, TypeOK, FlushState, ClearScoped
<1>2. \A n \in Name :
          \/ floor'[n] = floor[n]
          \/ floor'[n] = flush[f].since /\ flush[f].name \in {n, AllNames}
  BY <1>1 DEF ClearScoped
<1>3. IdleFlush.since = 0 /\ IdleFlush.pc = "idle"
  BY DEF IdleFlush
<1>4. FlushesPast'
  BY <1>1, <1>2, <1>3 DEF FlushInv, FlushesPast, ClearScoped, TypeOK
<1>5. GenerationsPast' /\ AnsweredCurrent'
  <2>1. \A g \in Proc : pc[g] = "answered" => got[g].ver \in Nat
    BY DEF FlushInv, TypeOK, Answer
  <2> QED BY <1>1, <1>2, <1>3, <2>1 DEF FlushInv, GenerationsPast, AnsweredCurrent, ClearScoped
<1>6. WalkAhead'
  BY <1>1, <1>3 DEF FlushInv, WalkAhead, FlushCovers, DependsOn, ClearScoped
<1>7. FlushedStaysGone'
  <2> SUFFICES ASSUME NEW n \in Name
               PROVE  /\ \A k \in DirectKey :
                           direct[k] # NoEntry /\ n \in DependsOn(direct[k]) =>
                               floor'[n] <= direct[k].ver
                      /\ \A q \in Question, p \in Prefix :
                           scoped'[q][p] # NoEntry /\ n \in DependsOn(scoped'[q][p]) =>
                               floor'[n] <= scoped'[q][p].ver
    BY DEF FlushedStaysGone, DependsOn, ClearScoped
  <2>1. \A q \in Question, p \in Prefix : scoped'[q][p] # NoEntry =>
           scoped'[q][p] = scoped[q][p] /\ ~FlushCovers(flush[f].name, scoped[q][p])
    BY DEF ClearScoped, FlushedScoped, Held
  <2>2. CASE floor'[n] = floor[n]
    BY <2>1, <2>2 DEF FlushInv, FlushedStaysGone
  <2>3. CASE floor'[n] = flush[f].since /\ flush[f].name \in {n, AllNames}
    <3>1. \A k \in DirectKey : direct[k] # NoEntry /\ n \in DependsOn(direct[k]) =>
             ~(direct[k].ver < flush[f].since)
      BY <2>3 DEF ClearScoped, FlushInv, WalkAhead, FlushCovers
    <3>2. \A k \in DirectKey : direct[k] # NoEntry => direct[k].ver \in Nat
      BY DEF FlushInv, TypeOK, Answer
    <3> QED BY <1>1, <2>1, <2>3, <3>1, <3>2 DEF FlushCovers
  <2> QED BY <1>2, <2>2, <2>3
<1> QED BY <1>4, <1>5, <1>6, <1>7 DEF FlushInv

\* FlushInv is inductive: only a store, a flush's own steps and a new answer can
\* disturb it, and each has its lemma above.
LEMMA FlushInvStep == FlushInv /\ [Next]_vars => FlushInv'
<1> SUFFICES ASSUME FlushInv, [Next]_vars PROVE FlushInv'
  OBVIOUS
<1>0. TypeOK /\ TypeOK'
  BY StepTyped DEF FlushInv
<1> USE DEF storeVars, tierVars, procVars, flushVars, envVars
<1>1. ASSUME NEW g \in Worker, NEW c \in Client, NEW q \in Question, ServeDNS(g, c, q)
      PROVE  FlushInv'
  <2>1. g \in Proc /\ \A p \in Proc : pc'[p] = "answered" => pc[p] = "answered"
    BY <1>0, <1>1 DEF ServeDNS, TypeOK, Proc
  <2> QED BY <1>0, <1>1, <2>1, QuietStep DEF ServeDNS
<1>2. ASSUME NEW g \in Proc, NEW e, Hit(g, e), pc[g] \in {"scoped", "direct"}
      PROVE  FlushInv'
  <2>1. \A p \in Proc : pc'[p] = "answered" => pc[p] = "answered" /\ p # g
    BY <1>0, <1>2 DEF Hit, IdleRefresher, TypeOK, Proc
  <2>2. \A p \in Proc : p # g => got'[p] = got[p]
    BY <1>0, <1>2 DEF Hit, TypeOK
  <2> QED BY <1>0, <1>2, <2>1, <2>2, QuietStep DEF Hit
<1>3. ASSUME NEW g \in Proc, GetScopedHit(g)
      PROVE  FlushInv'
  BY <1>2, <1>3 DEF GetScopedHit
<1>4. ASSUME NEW g \in Proc, GetScopedMiss(g)
      PROVE  FlushInv'
  <2>1. \A p \in Proc : pc'[p] = "answered" => pc[p] = "answered"
    BY <1>0, <1>4 DEF GetScopedMiss, TypeOK
  <2> QED BY <1>0, <1>4, <2>1, QuietStep DEF GetScopedMiss
<1>5. ASSUME NEW g \in Proc, GetDirectHit(g)
      PROVE  FlushInv'
  BY <1>2, <1>5 DEF GetDirectHit
<1>6. ASSUME NEW g \in Proc, GetDirectMiss(g)
      PROVE  FlushInv'
  <2>1. \A p \in Proc : pc'[p] = "answered" => pc[p] = "answered"
    BY <1>0, <1>6 DEF GetDirectMiss, TypeOK
  <2> QED BY <1>0, <1>6, <2>1, QuietStep DEF GetDirectMiss
<1>7. ASSUME NEW g \in Proc, JoinFlight(g)
      PROVE  FlushInv'
  <2>1. \A p \in Proc : pc'[p] = "answered" => pc[p] = "answered"
    BY <1>0, <1>7 DEF JoinFlight, TypeOK
  <2> QED BY <1>0, <1>7, <2>1, QuietStep DEF JoinFlight
<1>8. ASSUME NEW g \in Proc, ReadGeneration(g)
      PROVE  FlushInv'
  <2>1. \A p \in Proc : pc'[p] = "answered" => pc[p] = "answered" /\ p # g
    BY <1>0, <1>8 DEF ReadGeneration, TypeOK
  <2>2. \A p \in Proc : gen'[p] = IF p = g THEN epoch ELSE gen[p]
    BY <1>0, <1>8 DEF ReadGeneration, TypeOK
  <2> QED BY <1>0, <1>8, <2>1, <2>2, QuietStep DEF ReadGeneration
<1>9. ASSUME NEW g \in Proc, NextAnswers(g) \/ NextFails(g)
      PROVE  FlushInv'
  <2>1. /\ UNCHANGED <<direct, scoped, epoch, flush, floor, world, gen>>
        /\ pc' = [pc EXCEPT ![g] = "answered"]
    BY <1>9 DEF NextAnswers, NextFails
  <2>2. got'[g].ver = world /\ \A p \in Proc : p # g => got'[p] = got[p]
    BY <1>0, <1>9 DEF NextAnswers, NextFails, TypeOK
  <2>3. \A p \in Proc : p # g => pc'[p] = pc[p]
    BY <1>0, <2>1 DEF TypeOK
  <2> QED BY <1>0, <2>1, <2>2, <2>3, QuietStep
<1>10. ASSUME NEW g \in Proc, NextSilent(g)
       PROVE  FlushInv'
  <2>1. \A p \in Proc : pc'[p] = "answered" => pc[p] = "answered" /\ got'[p] = got[p]
    BY <1>0, <1>10 DEF NextSilent, TypeOK
  <2> QED BY <1>0, <1>10, <2>1, QuietStep DEF NextSilent
<1>11. ASSUME NEW g \in Proc, Store(g)
       PROVE  FlushInv'
  BY <1>0, <1>11, StoreStep
<1>12. ASSUME NEW g \in Proc, FinishFlight(g)
       PROVE  FlushInv'
  <2>1. \A p \in Proc : gen'[p] = IF p = g THEN 0 ELSE gen[p]
    BY <1>0, <1>12 DEF FinishFlight, TypeOK
  <2>2. \A p \in Proc : pc'[p] = "answered" =>
           p # g /\ pc[p] = "answered" /\ got'[p] = got[p]
    <3> SUFFICES ASSUME NEW p \in Proc, pc'[p] = "answered"
                 PROVE  p # g /\ pc[p] = "answered" /\ got'[p] = got[p]
      OBVIOUS
    <3>1. p \notin Party(g)
      BY <1>12 DEF FinishFlight, AfterFetch
    <3> QED BY <1>12, <3>1 DEF FinishFlight, Party
  <2> QED BY <1>0, <1>12, <2>1, <2>2, QuietStep DEF FinishFlight
<1>13. ASSUME NEW g \in Proc, Deliver(g)
       PROVE  FlushInv'
  <2>1. \A p \in Proc : pc'[p] = "answered" => pc[p] = "answered" /\ got'[p] = got[p]
    BY <1>0, <1>13 DEF Deliver, TypeOK
  <2> QED BY <1>0, <1>13, <2>1, QuietStep DEF Deliver
<1>14. CASE Tick
  BY <1>0, <1>14, QuietStep DEF Tick
<1>15. CASE UNCHANGED vars
  BY <1>0, <1>15, QuietStep DEF vars
<1>16. CASE UpstreamChange
  <2>1. UNCHANGED <<direct, scoped, epoch, flush, floor, pc, gen, got>> /\ world' = world + 1
    BY <1>16 DEF UpstreamChange
  <2>2. FlushesPast'
    <3>1. /\ world \in Nat /\ \A f \in Flusher : flush[f].since \in Nat
          /\ \A n \in Name : floor[n] \in Nat
      BY <1>0 DEF TypeOK, FlushState
    <3> QED BY <2>1, <3>1 DEF FlushInv, FlushesPast
  <2>3. GenerationsPast' /\ AnsweredCurrent' /\ WalkAhead' /\ FlushedStaysGone'
    BY <2>1 DEF FlushInv, GenerationsPast, AnsweredCurrent, WalkAhead, FlushedStaysGone,
                FlushCovers, DependsOn
  <2> QED BY <1>0, <2>2, <2>3 DEF FlushInv
<1> QED
  BY <1>0, <1>1, <1>3, <1>4, <1>5, <1>6, <1>7, <1>8, <1>9, <1>10, <1>11, <1>12, <1>13,
     <1>14, <1>15, <1>16, InvalidateStep, WalkShardStep, WalkKeyStep, ClearScopedStep
     DEF Next, ProcStep, FlushStep

\* Once a flush of a name has returned, no entry of either tier that depends on
\* the name comes from upstream data older than the flush, whatever queries,
\* refreshes and other flushes were under way: the epoch check of ifCurrent and
\* the order "invalidate, then walk" are enough for any number of goroutines.
THEOREM FlushIsFinal == Spec => []FlushedStaysGone
<1>1. Init => FlushInv
  <2> SUFFICES ASSUME Init PROVE FlushInv
    OBVIOUS
  <2>1. TypeOK
    BY InitTyped
  <2>2. GenerationsPast /\ AnsweredCurrent
    BY DEF Init, GenerationsPast, AnsweredCurrent
  <2>3. FlushesPast
    BY DEF Init, FlushesPast, IdleFlush
  <2>4. WalkAhead
    BY DEF Init, WalkAhead
  <2>5. FlushedStaysGone
    BY DEF Init, FlushedStaysGone
  <2> QED BY <2>1, <2>2, <2>3, <2>4, <2>5 DEF FlushInv
<1>2. FlushInv => FlushedStaysGone
  BY DEF FlushInv
<1> QED BY <1>1, <1>2, FlushInvStep, PTL DEF Spec
-----------------------------------------------------------------------------
(* singleflight's table                                                    *)

\* What leaves the table and those it concerns alone keeps it right.
LEMMA FlightsAlone ==
    ASSUME FlightsAreLed, UNCHANGED flight,
           \A p \in Proc : /\ Leading(p)' <=> Leading(p)
                           /\ pc'[p] = "wait" => pc[p] = "wait"
                           /\ Leading(p) \/ pc[p] = "wait" => fkey'[p] = fkey[p],
           flight \in [FlightKey -> Proc \cup {NoFlight}]
    PROVE  FlightsAreLed'
BY DEF FlightsAreLed, Leading

\* A caller that finds its key free leads it; one that does not waits for a leader.
LEMMA JoinFlights ==
    ASSUME TypeOK, FlightsAreLed, NEW g \in Proc, JoinFlight(g) PROVE FlightsAreLed'
<1>1. /\ pc[g] = "join" /\ UNCHANGED fkey /\ fkey[g] \in FlightKey
      /\ \A p \in Proc : p # g => pc'[p] = pc[p] /\ p \in Proc
      /\ \A p \in Proc : fkey[p] \in FlightKey
  BY DEF JoinFlight, TypeOK
<1>2. CASE Leads(g)
  <2>1. pc'[g] = "generation" /\ flight[fkey[g]] = NoFlight
        /\ \A k \in FlightKey : flight'[k] = IF k = fkey[g] THEN g ELSE flight[k]
    BY <1>2 DEF JoinFlight, TypeOK, Leads
  <2>2. g # NoFlight /\ NoFlight \notin Proc
    BY CacheAssumption
  <2>3. \A p \in Proc : Leading(p)' => flight'[fkey'[p]] = p
    BY <1>1, <2>1, <2>2 DEF FlightsAreLed, Leading
  <2>4. \A p \in Proc : pc'[p] = "wait" => flight'[fkey'[p]] \in Proc
    BY <1>1, <2>1, <2>2 DEF FlightsAreLed
  <2>5. \A k \in FlightKey : flight'[k] # NoFlight =>
           (Leading(flight[k]) /\ fkey[flight[k]] = k)'
    <3> TAKE k \in FlightKey
    <3>1. CASE k = fkey[g]
      BY <1>1, <2>1, <3>1 DEF Leading
    <3>2. CASE k # fkey[g] /\ flight[k] # NoFlight
      <4>1. flight'[k] = flight[k] /\ flight[k] \in Proc /\ Leading(flight[k])
            /\ fkey[flight[k]] = k
        BY <2>1, <3>2 DEF FlightsAreLed, TypeOK
      <4>2. flight[k] # g
        BY <1>1, <3>2, <4>1
      <4> QED
        BY <1>1, <4>1, <4>2 DEF Leading
    <3> QED
      BY <2>1, <3>1, <3>2
  <2> QED
    BY <2>3, <2>4, <2>5 DEF FlightsAreLed
<1>3. CASE ~Leads(g)
  <2>1. pc'[g] = "wait" /\ UNCHANGED flight /\ flight[fkey[g]] \in Proc
    BY <1>1, <1>3 DEF JoinFlight, TypeOK, Leads
  <2>2. \A p \in Proc : Leading(p)' <=> Leading(p)
    BY <1>1, <2>1 DEF Leading
  <2> QED
    BY <1>1, <2>1, <2>2 DEF FlightsAreLed, TypeOK, Leading
<1> QED
  BY <1>2, <1>3

\* A finished call releases its leader and all that waited under its key; no one
\* else leads that key.
LEMMA FinishFlights ==
    ASSUME TypeOK, FlightsAreLed, NEW g \in Proc, FinishFlight(g) PROVE FlightsAreLed'
<1>0. \A p \in Proc : fkey[p] \in FlightKey
  BY DEF TypeOK
<1>1. /\ pc[g] = "finish" /\ fkey[g] \in FlightKey /\ flight[fkey[g]] = g
      /\ \A k \in FlightKey : flight'[k] = IF k = fkey[g] THEN NoFlight ELSE flight[k]
  BY DEF FinishFlight, FlightsAreLed, Leading, TypeOK
<1>2. \A p \in Proc : Leading(p)' \/ pc'[p] = "wait" => p \notin Party(g)
  BY DEF FinishFlight, AfterFetch, Leading
<1>3. \A p \in Proc : p \notin Party(g) => /\ p # g /\ pc'[p] = pc[p] /\ fkey'[p] = fkey[p]
                                           /\ pc[p] = "wait" => fkey[p] # fkey[g]
  BY DEF FinishFlight, Party
<1>4. \A p \in Proc : Leading(p)' => flight'[fkey'[p]] = p
  <2> SUFFICES ASSUME NEW p \in Proc, Leading(p)' PROVE flight'[fkey'[p]] = p
    OBVIOUS
  <2>1. p # g /\ Leading(p) /\ fkey'[p] = fkey[p] /\ fkey[p] \in FlightKey
    BY <1>0, <1>2, <1>3 DEF Leading
  <2>2. flight[fkey[p]] = p
    BY <2>1 DEF FlightsAreLed
  <2> QED
    BY <1>1, <2>1, <2>2
<1>5. \A p \in Proc : pc'[p] = "wait" => flight'[fkey'[p]] \in Proc
  <2> SUFFICES ASSUME NEW p \in Proc, pc'[p] = "wait" PROVE flight'[fkey'[p]] \in Proc
    OBVIOUS
  <2>1. pc[p] = "wait" /\ fkey'[p] = fkey[p] /\ fkey[p] # fkey[g] /\ fkey[p] \in FlightKey
    BY <1>0, <1>2, <1>3
  <2>2. flight[fkey[p]] \in Proc
    BY <2>1 DEF FlightsAreLed
  <2> QED
    BY <1>1, <2>1, <2>2
<1>6. \A k \in FlightKey : flight'[k] # NoFlight =>
         (Leading(flight[k]) /\ fkey[flight[k]] = k)'
  <2> SUFFICES ASSUME NEW k \in FlightKey, flight'[k] # NoFlight
               PROVE  (Leading(flight[k]) /\ fkey[flight[k]] = k)'
    OBVIOUS
  <2>1. /\ k # fkey[g] /\ flight'[k] = flight[k] /\ flight[k] \in Proc
        /\ Leading(flight[k]) /\ fkey[flight[k]] = k
    BY <1>1 DEF FlightsAreLed, TypeOK
  <2>2. flight[k] \notin Party(g)
    BY <2>1 DEF Party, Leading
  <2> QED
    BY <1>3, <2>1, <2>2 DEF Leading
<1> QED
  BY <1>4, <1>5, <1>6 DEF FlightsAreLed

\* Every step keeps singleflight's table.
LEMMA FlightsStep == TypeOK /\ FlightsAreLed /\ [Next]_vars => FlightsAreLed'
<1> SUFFICES ASSUME TypeOK, FlightsAreLed, [Next]_vars PROVE FlightsAreLed'
  OBVIOUS
<1> USE DEF storeVars, tierVars, procVars, flushVars, envVars
<1>0. flight \in [FlightKey -> Proc \cup {NoFlight}]
  BY DEF TypeOK
<1>1. ASSUME NEW g \in Worker, NEW c \in Client, NEW q \in Question, ServeDNS(g, c, q)
      PROVE  FlightsAreLed'
  <2>1. g \in Proc /\ \A p \in Proc : p # g => pc'[p] = pc[p]
    BY <1>1 DEF ServeDNS, TypeOK, Proc
  <2> QED
    BY <1>0, <1>1, <2>1, FlightsAlone DEF ServeDNS, TypeOK, Leading
<1>2. ASSUME NEW g \in Proc, NEW e, Hit(g, e), pc[g] \in {"scoped", "direct"}
      PROVE  FlightsAreLed'
  <2>1. \A p \in Proc : \/ pc'[p] = pc[p] /\ fkey'[p] = fkey[p]
                        \/ pc[p] \in {"scoped", "direct", "idle"} /\ pc'[p] \in {"deliver", "join"}
    BY <1>2 DEF Hit, IdleRefresher, TypeOK, Proc
  <2> QED
    BY <1>0, <1>2, <2>1, FlightsAlone DEF Hit, Leading
<1>3. ASSUME NEW g \in Proc, GetScopedHit(g) \/ GetDirectHit(g)
      PROVE  FlightsAreLed'
  BY <1>2, <1>3 DEF GetScopedHit, GetDirectHit
<1>4. ASSUME NEW g \in Proc,
             \/ GetScopedMiss(g) \/ GetDirectMiss(g) \/ ReadGeneration(g) \/ NextAnswers(g)
             \/ NextFails(g) \/ NextSilent(g) \/ Store(g) \/ Deliver(g)
      PROVE  FlightsAreLed'
  <2>1. /\ UNCHANGED flight
        /\ \A p \in Proc : p # g => pc'[p] = pc[p] /\ fkey'[p] = fkey[p]
    BY <1>4 DEF GetScopedMiss, GetDirectMiss, ReadGeneration, NextAnswers, NextFails,
                NextSilent, Store, Deliver, TypeOK
  <2>2. /\ Leading(g)' <=> Leading(g)
        /\ pc'[g] # "wait" /\ pc[g] # "wait"
        /\ Leading(g) => fkey'[g] = fkey[g]
    BY <1>4 DEF GetScopedMiss, GetDirectMiss, ReadGeneration, NextAnswers, NextFails,
                NextSilent, Store, Deliver, TypeOK, Leading
  <2>3. \A p \in Proc : p # g => (Leading(p)' <=> Leading(p))
    BY <2>1 DEF Leading
  <2> QED
    BY <1>0, <2>1, <2>2, <2>3, FlightsAlone
<1>5. ASSUME NEW g \in Proc, JoinFlight(g)
      PROVE  FlightsAreLed'
  BY <1>5, JoinFlights
<1>6. ASSUME NEW g \in Proc, FinishFlight(g)
      PROVE  FlightsAreLed'
  BY <1>6, FinishFlights
<1>7. ASSUME UNCHANGED <<flight, pc, fkey>>
      PROVE  FlightsAreLed'
  BY <1>0, <1>7, FlightsAlone DEF Leading
<1>8. ASSUME NEW f \in Flusher, NEW n \in Name \cup {AllNames}, Invalidate(f, n)
      PROVE  FlightsAreLed'
  BY <1>7, <1>8 DEF Invalidate
<1>9. ASSUME NEW f \in Flusher, FlushStep(f)
      PROVE  FlightsAreLed'
  BY <1>7, <1>9 DEF FlushStep, WalkShard, WalkKey, ClearScoped
<1>10. CASE Tick \/ UpstreamChange \/ UNCHANGED vars
  BY <1>7, <1>10 DEF Tick, UpstreamChange, vars
<1> QED
  BY <1>1, <1>3, <1>4, <1>5, <1>6, <1>8, <1>9, <1>10 DEF Next, ProcStep

\* Misses of one key are coalesced soundly for any number of goroutines: every call
\* in singleflight's table is led by a process still working on it, nobody waits on
\* a call that is gone, and no key is led twice.
THEOREM CallsAreLed == Spec => []FlightsAreLed
<1>1. Init => FlightsAreLed
  BY DEF Init, FlightsAreLed, Leading
<1> QED
  BY <1>1, FlightsStep, TypeCorrect, PTL DEF Spec
-----------------------------------------------------------------------------
(* Who receives which answer                                               *)

\* The keys a request looks up and fetches under name its bucket and question.
LEMMA KeysOf ==
    ASSUME NEW r \in Request
    PROVE  /\ r.client \in Client /\ r.q \in Question /\ BucketOf[r.client] \in Bucket
           /\ BucketKey(r).bucket = BucketOf[r.client] /\ IPKey(r).bucket = BucketOf[r.client]
           /\ BucketKey(r).q = r.q /\ IPKey(r).q = r.q
           /\ BucketKey(r).ip = AnyIP /\ IPKey(r).ip = r.client /\ r.client # AnyIP
BY CacheAssumption DEF Request, BucketKey, IPKey

\* Dropping entries leaves the others in place.
LEMMA EntriesDropped ==
    ASSUME EntriesInPlace,
           \A k \in DirectKey : direct'[k] \in {direct[k], NoEntry},
           \A q \in Question, p \in Prefix : scoped'[q][p] \in {scoped[q][p], NoEntry}
    PROVE  EntriesInPlace'
<1>1. \A b \in Bucket, q \in Question : <<b, q>> \in DirectKey
  BY DEF DirectKey
<1> QED
  BY <1>1 DEF EntriesInPlace

\* When only one process moves, the others' answers stay what they were.
LEMMA OneMoves ==
    ASSUME FetchesInPlace, AnswerAppropriate, NEW g \in Proc,
           \A p \in Proc : p # g => /\ pc'[p] = pc[p] /\ req'[p] = req[p]
                                    /\ fkey'[p] = fkey[p] /\ got'[p] = got[p],
           pc'[g] \in FetchingAt => fkey'[g] \in {BucketKey(req'[g]), IPKey(req'[g])},
           pc'[g] \in {"answered", "finish"} /\ got'[g] # NoAnswer =>
              /\ got'[g].q = req'[g].q /\ got'[g].asker = req'[g].client
              /\ got'[g].scope # NoScope => req'[g].client \in got'[g].scope,
           pc'[g] # "deliver"
    PROVE  FetchesInPlace' /\ AnswerAppropriate'
<1>1. FetchesInPlace'
  BY DEF FetchesInPlace
<1>2. AnswerAppropriate'
  BY DEF AnswerAppropriate, Proc
<1> QED
  BY <1>1, <1>2

\* A hit replies with an entry for the request's question that is scoped to a
\* network with the client, or was asked for the client's bucket; the refresh it
\* may start fetches for the same request.
LEMMA HitAppropriate ==
    ASSUME TypeOK, FetchesInPlace, AnswerAppropriate, NEW g \in Proc, NEW e, Hit(g, e),
           pc[g] \in {"scoped", "direct"}, e.q = req[g].q,
           IF StoredScoped(e) THEN req[g].client \in e.scope
           ELSE BucketOf[e.asker] = BucketOf[req[g].client]
    PROVE  FetchesInPlace' /\ AnswerAppropriate'
<1>1. /\ pc'[g] = "deliver" /\ got'[g] = e /\ req'[g] = req[g]
      /\ \A p \in Proc : p # g => got'[p] = got[p]
  BY DEF Hit, TypeOK, IdleRefresher, Proc
<1>2. \A p \in Proc : p # g =>
         \/ pc'[p] = pc[p] /\ req'[p] = req[p] /\ fkey'[p] = fkey[p]
         \/ pc'[p] = "join" /\ fkey'[p] = BucketKey(req'[p])
  BY DEF Hit, TypeOK, IdleRefresher, Proc
<1>3. FetchesInPlace'
  BY <1>1, <1>2 DEF FetchesInPlace, FetchingAt
<1>4. AnswerAppropriate'
  BY <1>1, <1>2 DEF AnswerAppropriate, Proc
<1> QED
  BY <1>3, <1>4

\* The leader stores its answer under its own bucket and question, or under the
\* network the answer is scoped to.
LEMMA StoredInPlace ==
    ASSUME TypeOK, EntriesInPlace, FetchesInPlace, NEW g \in Proc, Store(g)
    PROVE  EntriesInPlace'
<1> DEFINE e == got[g]
<1>1. /\ pc[g] = "answered" /\ e \in Answer /\ e # NoAnswer /\ StoreAnswer(g, e)
      /\ e.q = req[g].q /\ e.asker = req[g].client /\ req[g] \in Request
  <2>1. e \in Answer /\ req[g] \in Request /\ StoreAnswer(g, e) /\ pc[g] = "answered"
    BY DEF Store, TypeOK
  <2>2. e # NoAnswer
    BY <2>1 DEF Answer, NoAnswer
  <2> QED
    BY <2>1, <2>2 DEF FetchesInPlace
<1> HIDE DEF e
<1>2. CASE UNCHANGED tierVars
  BY <1>2, EntriesDropped DEF tierVars
<1>3. CASE StoredScoped(e) /\ SetScoped(req[g].q, e.scope, e) /\ UNCHANGED direct
  <2>1. \A q \in Question, p \in Prefix :
           \/ scoped'[q][p] \in {scoped[q][p], NoEntry}
           \/ q = e.q /\ p = e.scope /\ scoped'[q][p] = e
    <3> TAKE q \in Question, p \in Prefix
    <3>1. CASE q = req[g].q
      BY <1>1, <1>3, <3>1 DEF SetScoped, TypeOK
    <3>2. CASE q # req[g].q
      BY <1>3, <3>2 DEF SetScoped, TypeOK
    <3> QED
      BY <3>1, <3>2
  <2> QED
    BY <1>3, <2>1 DEF EntriesInPlace
<1>4. CASE /\ ~StoredScoped(e) /\ UNCHANGED <<scoped, age>>
           /\ SetDirect(DirectKeyOf(req[g]), e)
  <2>1. \A k \in DirectKey : \/ direct'[k] \in {direct[k], NoEntry}
                             \/ k = DirectKeyOf(req[g]) /\ direct'[k] = e
    BY <1>4 DEF SetDirect, TypeOK
  <2>2. \A b \in Bucket, q \in Question :
           \/ direct'[<<b, q>>] \in {direct[<<b, q>>], NoEntry}
           \/ b = BucketOf[e.asker] /\ q = e.q /\ direct'[<<b, q>>] = e
    BY <1>1, <2>1 DEF DirectKey, DirectKeyOf
  <2> QED
    BY <1>4, <2>2 DEF EntriesInPlace
<1> QED
  BY <1>1, <1>2, <1>3, <1>4 DEF StoreAnswer

\* A call's result goes only to those it is meant for: a party of it asked the
\* leader's question from the leader's bucket, and fetched under its own address
\* or is inside the scope.
LEMMA FinishAppropriate ==
    ASSUME TypeOK, FetchesInPlace, AnswerAppropriate, NEW g \in Proc, FinishFlight(g)
    PROVE  FetchesInPlace' /\ AnswerAppropriate'
<1> DEFINE e == got[g]
<1>1. pc[g] = "finish" /\ \A p \in Party(g) : p \in Proc /\ pc[p] \in FetchingAt /\ fkey[p] = fkey[g]
  BY DEF FinishFlight, Party, FetchingAt
<1>2. \A p \in Proc : p \notin Party(g) =>
         pc'[p] = pc[p] /\ req'[p] = req[p] /\ fkey'[p] = fkey[p] /\ got'[p] = got[p]
  BY DEF FinishFlight
<1>3. \A p \in Party(g) :
         /\ pc'[p] = AfterFetch(p, e)
         /\ req'[p] = IF AfterFetch(p, e) = "idle" THEN SomeRequest ELSE req[p]
         /\ Refetches(p, e) => fkey'[p] = IPKey(req[p])
         /\ AfterFetch(p, e) = "deliver" => got'[p] = e
  BY <1>1 DEF FinishFlight
<1>4. ASSUME NEW p \in Party(g), pc'[p] = "deliver"
      PROVE  /\ got'[p].q = req'[p].q
             /\ IF StoredScoped(got'[p]) THEN req'[p].client \in got'[p].scope
                ELSE BucketOf[got'[p].asker] = BucketOf[req'[p].client]
  <2>1. AfterFetch(p, e) = "deliver" /\ got'[p] = e /\ req'[p] = req[p]
    BY <1>3, <1>4
  <2>2. p \in Worker /\ e # NoAnswer /\ ~Refetches(p, e)
    BY <2>1 DEF AfterFetch
  <2>3. /\ fkey[g] \in {BucketKey(req[g]), IPKey(req[g])} /\ fkey[p] = fkey[g]
        /\ fkey[p] \in {BucketKey(req[p]), IPKey(req[p])} /\ p \in Proc
        /\ e.q = req[g].q /\ e.asker = req[g].client
        /\ e.scope # NoScope => req[g].client \in e.scope
    BY <1>1, <2>2 DEF FetchesInPlace, FetchingAt
  <2>4. req[g] \in Request /\ req[p] \in Request
    BY <2>3 DEF TypeOK
  <2>5. BucketOf[req[p].client] = BucketOf[req[g].client] /\ req[p].q = req[g].q
    BY <2>3, <2>4, KeysOf
  <2>6. fkey[p].ip = AnyIP \/ req[p].client = req[g].client
    BY <2>3, <2>4, KeysOf
  <2>7. StoredScoped(e) => req[p].client \in e.scope
    <3>1. CASE fkey[p].ip = AnyIP
      BY <2>2, <3>1 DEF Refetches, AppliesTo
    <3>2. CASE req[p].client = req[g].client
      BY <2>3, <3>2 DEF StoredScoped
    <3> QED
      BY <2>6, <3>1, <3>2
  <2> QED
    BY <2>1, <2>3, <2>5, <2>7
<1>5. ASSUME NEW p \in Party(g)
      PROVE  /\ pc'[p] \in FetchingAt => fkey'[p] = IPKey(req'[p])
             /\ pc'[p] \notin {"answered", "finish"}
  <2>1. pc'[p] \in {"join", "deliver", "idle"} /\ (pc'[p] = "join" => Refetches(p, e))
    BY <1>3, <1>5 DEF AfterFetch
  <2>2. pc'[p] = "join" => req'[p] = req[p] /\ fkey'[p] = IPKey(req[p])
    BY <1>3, <1>5, <2>1
  <2> QED
    BY <2>1, <2>2 DEF FetchingAt
<1>6. FetchesInPlace'
  BY <1>2, <1>5 DEF FetchesInPlace
<1>7. AnswerAppropriate'
  BY <1>2, <1>4 DEF AnswerAppropriate, Proc
<1> QED
  BY <1>6, <1>7

\* SharingInv is inductive.
LEMMA SharingStep == TypeOK /\ SharingInv /\ [Next]_vars => SharingInv'
<1> SUFFICES ASSUME TypeOK, SharingInv, [Next]_vars PROVE SharingInv'
  OBVIOUS
<1> USE DEF storeVars, tierVars, procVars, flushVars, envVars
<1>0. EntriesInPlace /\ FetchesInPlace /\ AnswerAppropriate
  BY DEF SharingInv
<1>1. ASSUME UNCHANGED <<direct, scoped>> PROVE EntriesInPlace'
  BY <1>0, <1>1 DEF EntriesInPlace
<1>2. ASSUME UNCHANGED <<pc, req, fkey, got>> PROVE FetchesInPlace' /\ AnswerAppropriate'
  BY <1>0, <1>2 DEF FetchesInPlace, AnswerAppropriate
<1>3. ASSUME NEW g \in Worker, NEW c \in Client, NEW q \in Question, ServeDNS(g, c, q)
      PROVE  SharingInv'
  <2>1. g \in Proc /\ pc'[g] = "scoped"
        /\ \A p \in Proc : p # g => pc'[p] = pc[p] /\ req'[p] = req[p]
    BY <1>3 DEF ServeDNS, TypeOK, Proc
  <2>2. FetchesInPlace' /\ AnswerAppropriate'
    BY <1>0, <1>3, <2>1, OneMoves DEF ServeDNS, FetchingAt
  <2> QED
    BY <1>1, <1>3, <2>2 DEF SharingInv, ServeDNS
<1>4. ASSUME NEW g \in Proc, GetScopedHit(g)
      PROVE  SharingInv'
  <2>1. PICK seen \in Scans(req[g].q) :
           \E p \in BestScoped(seen, req[g].q, req[g].client, req[g].at) :
               Hit(g, scoped[req[g].q][p])
    BY <1>4 DEF GetScopedHit
  <2>2. PICK p \in BestScoped(seen, req[g].q, req[g].client, req[g].at) :
           Hit(g, scoped[req[g].q][p])
    BY <2>1
  <2>3. seen \subseteq Held(req[g].q)
    BY <2>1 DEF Scans
  <2>4. p \in Prefix /\ scoped[req[g].q][p] # NoEntry /\ req[g].client \in p
        /\ req[g].q \in Question
    BY <2>2, <2>3 DEF BestScoped, Held, TypeOK, Request
  <2>5. FetchesInPlace' /\ AnswerAppropriate'
    BY <1>0, <1>4, <2>2, <2>4, HitAppropriate DEF EntriesInPlace, GetScopedHit
  <2> QED
    BY <1>1, <2>2, <2>5 DEF SharingInv, Hit
<1>5. ASSUME NEW g \in Proc, GetDirectHit(g)
      PROVE  SharingInv'
  <2>1. req[g].q \in Question /\ BucketOf[req[g].client] \in Bucket
    BY KeysOf DEF TypeOK
  <2>2. FetchesInPlace' /\ AnswerAppropriate'
    BY <1>0, <1>5, <2>1, HitAppropriate DEF EntriesInPlace, GetDirectHit, DirectKeyOf
  <2> QED
    BY <1>1, <1>5, <2>2 DEF SharingInv, GetDirectHit, Hit
<1>6. ASSUME NEW g \in Proc, GetScopedMiss(g) \/ GetDirectMiss(g)
      PROVE  SharingInv'
  <2>1. /\ UNCHANGED <<req, got>> /\ pc'[g] \in {"direct", "join"}
        /\ pc'[g] = "join" => fkey'[g] = BucketKey(req[g])
        /\ \A p \in Proc : p # g => pc'[p] = pc[p] /\ fkey'[p] = fkey[p]
    BY <1>6 DEF GetScopedMiss, GetDirectMiss, TypeOK
  <2>2. FetchesInPlace' /\ AnswerAppropriate'
    BY <1>0, <2>1, OneMoves DEF FetchingAt
  <2> QED
    BY <1>1, <1>6, <2>2 DEF SharingInv, GetScopedMiss, GetDirectMiss
<1>7. ASSUME NEW g \in Proc, JoinFlight(g)
      PROVE  SharingInv'
  <2>1. /\ UNCHANGED <<fkey, got>> /\ pc[g] = "join" /\ pc'[g] \in {"generation", "wait"}
        /\ req'[g].client = req[g].client /\ req'[g].q = req[g].q
        /\ \A p \in Proc : p # g => pc'[p] = pc[p] /\ req'[p] = req[p]
    BY <1>7 DEF JoinFlight, TypeOK
  <2>2. BucketKey(req'[g]) = BucketKey(req[g]) /\ IPKey(req'[g]) = IPKey(req[g])
    BY <2>1 DEF BucketKey, IPKey
  <2>3. fkey[g] \in {BucketKey(req[g]), IPKey(req[g])}
    BY <1>0, <2>1 DEF FetchesInPlace, FetchingAt
  <2>4. FetchesInPlace' /\ AnswerAppropriate'
    BY <1>0, <2>1, <2>2, <2>3, OneMoves
  <2> QED
    BY <1>1, <1>7, <2>4 DEF SharingInv, JoinFlight
<1>8. ASSUME NEW g \in Proc,
             ReadGeneration(g) \/ NextAnswers(g) \/ NextFails(g) \/ NextSilent(g)
      PROVE  SharingInv'
  <2>1. /\ UNCHANGED <<req, fkey>> /\ pc[g] \in FetchingAt
        /\ pc'[g] \in {"ask", "answered", "finish"}
        /\ \A p \in Proc : p # g => pc'[p] = pc[p] /\ got'[p] = got[p]
    BY <1>8 DEF ReadGeneration, NextAnswers, NextFails, NextSilent, TypeOK, FetchingAt
  <2>2. pc'[g] \in {"answered", "finish"} /\ got'[g] # NoAnswer =>
           /\ got'[g].q = req[g].q /\ got'[g].asker = req[g].client
           /\ got'[g].scope # NoScope => req[g].client \in got'[g].scope
    BY <1>8 DEF ReadGeneration, NextAnswers, NextFails, NextSilent, TypeOK
  <2>3. fkey[g] \in {BucketKey(req[g]), IPKey(req[g])}
    BY <1>0, <2>1 DEF FetchesInPlace
  <2>4. FetchesInPlace' /\ AnswerAppropriate'
    BY <1>0, <2>1, <2>2, <2>3, OneMoves
  <2> QED
    BY <1>1, <1>8, <2>4
       DEF SharingInv, ReadGeneration, NextAnswers, NextFails, NextSilent
<1>9. ASSUME NEW g \in Proc, Store(g)
      PROVE  SharingInv'
  <2>1. /\ UNCHANGED <<req, fkey, got>> /\ pc[g] = "answered" /\ pc'[g] = "finish"
        /\ \A p \in Proc : p # g => pc'[p] = pc[p]
    BY <1>9 DEF Store, TypeOK
  <2>2. FetchesInPlace' /\ AnswerAppropriate'
    BY <1>0, <2>1, OneMoves DEF FetchesInPlace, FetchingAt
  <2> QED
    BY <1>0, <1>9, <2>2, StoredInPlace DEF SharingInv
<1>10. ASSUME NEW g \in Proc, FinishFlight(g)
       PROVE  SharingInv'
  BY <1>0, <1>1, <1>10, FinishAppropriate DEF SharingInv, FinishFlight
<1>11. ASSUME NEW g \in Proc, Deliver(g)
       PROVE  SharingInv'
  <2>1. /\ UNCHANGED fkey /\ pc'[g] = "idle"
        /\ \A p \in Proc : p # g => pc'[p] = pc[p] /\ req'[p] = req[p] /\ got'[p] = got[p]
    BY <1>11 DEF Deliver, TypeOK
  <2>2. FetchesInPlace' /\ AnswerAppropriate'
    BY <1>0, <2>1, OneMoves DEF FetchingAt
  <2> QED
    BY <1>1, <1>11, <2>2 DEF SharingInv, Deliver
<1>12. ASSUME NEW f \in Flusher, FlushStep(f)
       PROVE  SharingInv'
  <2>1. /\ \A k \in DirectKey : direct'[k] \in {direct[k], NoEntry}
        /\ \A q \in Question, p \in Prefix : scoped'[q][p] \in {scoped[q][p], NoEntry}
    BY <1>12 DEF FlushStep, WalkShard, WalkKey, ClearScoped, TypeOK
  <2> QED
    BY <1>0, <1>2, <1>12, <2>1, EntriesDropped
       DEF SharingInv, FlushStep, WalkShard, WalkKey, ClearScoped
<1>13. ASSUME NEW f \in Flusher, NEW n \in Name \cup {AllNames}, Invalidate(f, n)
       PROVE  SharingInv'
  BY <1>1, <1>2, <1>13 DEF SharingInv, Invalidate
<1>14. CASE Tick \/ UpstreamChange \/ UNCHANGED vars
  BY <1>1, <1>2, <1>14 DEF SharingInv, Tick, UpstreamChange, vars
<1> QED
  BY <1>3, <1>4, <1>5, <1>6, <1>7, <1>8, <1>9, <1>10, <1>11, <1>12, <1>13, <1>14
     DEF Next, ProcStep

\* A client only ever receives an answer meant for it, however many queries are
\* coalesced, refreshed or flushed at the same time: an answer filed under a scope
\* goes to clients inside it, any other to the VLAN bucket it was asked for.
THEOREM AnswersAreMeant == Spec => []AnswerAppropriate
<1>1. Init => SharingInv
  BY DEF Init, SharingInv, EntriesInPlace, FetchesInPlace, AnswerAppropriate, FetchingAt,
         DirectKey, Proc
<1>2. SharingInv => AnswerAppropriate
  BY DEF SharingInv
<1> QED
  BY <1>1, <1>2, SharingStep, TypeCorrect, PTL DEF Spec
-----------------------------------------------------------------------------
(* The scoped tier's lists                                                 *)

\* A full list has an oldest entry, and only one.
LEMMA OldestDropped ==
    ASSUME TypeOK, ScopedInv, NEW q \in Question, NEW p \in Prefix, p \notin Held(q),
           Cardinality(Held(q)) >= MaxScoped
    PROVE  \E o \in Held(q) : Dropped(q, p) = {o}
<1> DEFINE H == Held(q)
           Ages == {age[q][r] : r \in H}
           f == [r \in H |-> age[q][r]]
<1>1. IsFiniteSet(H) /\ H \in SUBSET Prefix
  BY DEF ScopedInv, Held
<1>2. \A r \in H : age[q][r] \in Nat
  BY <1>1 DEF TypeOK
<1>3. H # {}
  <2>1. Cardinality(H) \in Nat /\ MaxScoped \in Nat \ {0}
    BY <1>1, FS_CardinalityType, CacheAssumption
  <2> QED
    BY <2>1, FS_EmptySet
<1>4. Ages # {} /\ Ages \in SUBSET Nat
  BY <1>2, <1>3
<1>5. f \in Surjection(H, Ages)
  BY DEF Surjection
<1>6. IsFiniteSet(Ages)
  BY <1>1, <1>5, FS_Surjection
<1>7. PICK x \in Ages : \A y \in Ages : y <= x
  <2> HIDE DEF Ages
  <2> QED
    BY <1>4, <1>6, LargestNat
<1>8. PICK o \in H : age[q][o] = x
  BY <1>7
<1>9. \A r \in H : age[q][r] <= age[q][o]
  BY <1>7, <1>8
<1>10. \A r \in H : age[q][o] <= age[q][r] => r = o
  <2> SUFFICES ASSUME NEW r \in H, age[q][o] <= age[q][r] PROVE r = o
    OBVIOUS
  <2>1. age[q][r] = age[q][o]
    BY <1>2, <1>9
  <2> QED
    BY <2>1 DEF ScopedInv, ScopedBounded
<1>11. Dropped(q, p) = {o}
  BY <1>9, <1>10 DEF Dropped
<1> QED
  BY <1>11

\* Storing under a network keeps the list within its bound and its order.
LEMMA SetScopedBounded ==
    ASSUME TypeOK, TypeOK', ScopedInv, NEW q \in Question, NEW p \in Prefix,
           NEW e \in Answer, e.scope = p, SetScoped(q, p, e)
    PROVE  ScopedInv'
<1>0. e # NoEntry
  BY DEF Answer, NoEntry
<1>1. \A r \in Prefix :
         /\ scoped'[q][r] = IF r = p THEN e ELSE IF r \in Dropped(q, p) THEN NoEntry
                            ELSE scoped[q][r]
         /\ age'[q][r] = IF r \notin Held(q) \/ r \in Dropped(q, p) THEN 0
                         ELSE IF p \in Held(q) THEN age[q][r] ELSE age[q][r] + 1
  BY DEF SetScoped, TypeOK
<1>2. \A u \in Question : u # q => scoped'[u] = scoped[u] /\ age'[u] = age[u]
  BY DEF SetScoped, TypeOK
<1>3. Held(q)' = (Held(q) \ Dropped(q, p)) \cup {p}
  BY <1>0, <1>1 DEF Held
<1>4. /\ IsFiniteSet(Held(q)) /\ Cardinality(Held(q)) \in Nat /\ MaxScoped \in Nat
      /\ Cardinality(Held(q)) <= MaxScoped
  BY FS_CardinalityType, CacheAssumption DEF ScopedInv, ScopedBounded
<1>5. IsFiniteSet(Held(q)') /\ Cardinality(Held(q)') <= MaxScoped
  <2>1. CASE p \in Held(q)
    <3>1. Held(q)' = Held(q)
      BY <1>3, <2>1 DEF Dropped
    <3> QED
      BY <1>4, <3>1
  <2>2. CASE p \notin Held(q) /\ ~(Cardinality(Held(q)) >= MaxScoped)
    <3>1. Held(q)' = Held(q) \cup {p}
      BY <1>3, <2>2 DEF Dropped
    <3>2. IsFiniteSet(Held(q) \cup {p}) /\ Cardinality(Held(q) \cup {p}) = Cardinality(Held(q)) + 1
      BY <1>4, <2>2, FS_AddElement
    <3> QED
      BY <1>4, <2>2, <3>1, <3>2
  <2>3. CASE p \notin Held(q) /\ Cardinality(Held(q)) >= MaxScoped
    <3>1. PICK o \in Held(q) : Dropped(q, p) = {o}
      BY <2>3, OldestDropped
    <3>2. IsFiniteSet(Held(q) \ {o}) /\ Cardinality(Held(q) \ {o}) = Cardinality(Held(q)) - 1
      BY <1>4, FS_RemoveElement
    <3>3. p \notin Held(q) \ {o}
      BY <2>3
    <3>4. /\ IsFiniteSet((Held(q) \ {o}) \cup {p})
          /\ Cardinality((Held(q) \ {o}) \cup {p}) = Cardinality(Held(q) \ {o}) + 1
      BY <3>2, <3>3, FS_AddElement
    <3> QED
      BY <1>3, <1>4, <3>1, <3>2, <3>4
  <2> QED
    BY <2>1, <2>2, <2>3
<1>6. \A r \in Held(q)' : scoped'[q][r].scope = r
  BY <1>1, <1>3 DEF ScopedInv, ScopedBounded, Held
<1>7. \A r, s \in Held(q)' : age'[q][r] = age'[q][s] => r = s
  <2>1. \A r \in Held(q) : r \in Prefix /\ age[q][r] \in Nat
    BY DEF Held, TypeOK
  <2>2. \A r, s \in Held(q) : age[q][r] = age[q][s] => r = s
    BY DEF ScopedInv, ScopedBounded
  <2>3. CASE p \in Held(q)
    <3>1. Dropped(q, p) = {}
      BY <2>3 DEF Dropped
    <3> QED
      BY <1>1, <1>3, <2>1, <2>2, <2>3, <3>1
  <2>4. CASE p \notin Held(q)
    <3>1. age'[q][p] = 0
      BY <1>1, <2>4
    <3>2. \A r \in Held(q) \ Dropped(q, p) : age'[q][r] = age[q][r] + 1 /\ r \in Held(q)
      BY <1>1, <2>1, <2>4
    <3>3. \A r \in Held(q) \ Dropped(q, p) : age'[q][r] # 0
      BY <2>1, <3>2
    <3>4. \A r, s \in Held(q) \ Dropped(q, p) : age'[q][r] = age'[q][s] => r = s
      BY <2>1, <2>2, <3>2
    <3> QED
      BY <1>3, <3>1, <3>3, <3>4
  <2> QED
    BY <2>3, <2>4
<1>8. \A u \in Question : u # q => Held(u)' = Held(u)
  BY <1>2 DEF Held
<1> QED
  BY <1>2, <1>5, <1>6, <1>7, <1>8 DEF ScopedInv, ScopedBounded

\* Dropping entries keeps the lists within their bound and in order.
LEMMA ScopedDropped ==
    ASSUME ScopedInv,
           \A q \in Question, p \in Prefix :
              scoped'[q][p] # NoEntry => scoped'[q][p] = scoped[q][p] /\ age'[q][p] = age[q][p]
    PROVE  ScopedInv'
<1> SUFFICES ASSUME NEW q \in Question
             PROVE  /\ IsFiniteSet(Held(q)') /\ Cardinality(Held(q)') <= MaxScoped
                    /\ \A p \in Held(q)' : scoped'[q][p].scope = p
                    /\ \A p, r \in Held(q)' : age'[q][p] = age'[q][r] => p = r
  BY DEF ScopedInv, ScopedBounded
<1>1. Held(q)' \in SUBSET Held(q)
  BY DEF Held
<1>2. IsFiniteSet(Held(q)) /\ Cardinality(Held(q)) <= MaxScoped
  BY DEF ScopedInv, ScopedBounded
<1>3. IsFiniteSet(Held(q)') /\ Cardinality(Held(q)') <= Cardinality(Held(q))
  BY <1>1, <1>2, FS_Subset
<1>4. Cardinality(Held(q)') \in Nat /\ Cardinality(Held(q)) \in Nat /\ MaxScoped \in Nat
  BY <1>2, <1>3, FS_CardinalityType, CacheAssumption
<1>5. /\ \A p \in Held(q)' : scoped'[q][p].scope = p
      /\ \A p, r \in Held(q)' : age'[q][p] = age'[q][r] => p = r
  <2>1. \A p \in Held(q)' : scoped'[q][p] = scoped[q][p] /\ age'[q][p] = age[q][p]
    BY DEF Held
  <2> QED
    BY <1>1, <2>1 DEF ScopedInv, ScopedBounded
<1> QED
  BY <1>2, <1>3, <1>4, <1>5

\* ScopedInv is inductive: only a store and a flush's last step touch the tier.
LEMMA ScopedStep == TypeOK /\ ScopedInv /\ [Next]_vars => ScopedInv'
<1> SUFFICES ASSUME TypeOK, ScopedInv, [Next]_vars PROVE ScopedInv'
  OBVIOUS
<1> USE DEF storeVars, tierVars, procVars, flushVars, envVars
<1>0. TypeOK'
  BY StepTyped
<1>1. ASSUME UNCHANGED <<scoped, age>> PROVE ScopedInv'
  BY <1>1 DEF ScopedInv, ScopedBounded, Held
<1>2. ASSUME NEW g \in Proc, Store(g) PROVE ScopedInv'
  <2>1. got[g] \in Answer /\ StoreAnswer(g, got[g]) /\ req[g].q \in Question
    BY <1>2 DEF Store, TypeOK, Request
  <2>2. CASE StoredScoped(got[g]) /\ SetScoped(req[g].q, got[g].scope, got[g])
    <3>1. got[g].scope \in Prefix
      BY <2>1, <2>2 DEF StoredScoped, Answer
    <3> QED
      BY <1>0, <2>1, <2>2, <3>1, SetScopedBounded
  <2> QED
    BY <1>1, <2>1, <2>2 DEF StoreAnswer
<1>3. ASSUME NEW f \in Flusher, ClearScoped(f) PROVE ScopedInv'
  <2>1. \A q \in Question, p \in Prefix :
           scoped'[q][p] # NoEntry => scoped'[q][p] = scoped[q][p] /\ age'[q][p] = age[q][p]
    BY <1>3 DEF ClearScoped
  <2> QED
    BY <2>1, ScopedDropped
<1>4. ASSUME NEW g \in Proc, ProcStep(g) PROVE ScopedInv'
  BY <1>1, <1>2, <1>4
     DEF ProcStep, GetScopedHit, GetScopedMiss, GetDirectHit, GetDirectMiss, Hit, JoinFlight,
         ReadGeneration, NextAnswers, NextFails, NextSilent, FinishFlight, Deliver
<1>5. ASSUME NEW f \in Flusher, FlushStep(f) PROVE ScopedInv'
  BY <1>1, <1>3, <1>5 DEF FlushStep, WalkShard, WalkKey
<1> QED
  BY <1>1, <1>4, <1>5 DEF Next, ServeDNS, Invalidate, Tick, UpstreamChange, vars

\* The scoped tier stays within its bound for any maxScopedPerKey and any number of
\* networks: a question's list never outgrows it, each entry is under the network
\* its answer was scoped to, and the list always has one oldest entry to drop.
THEOREM ScopedStaysBounded == Spec => []ScopedBounded
<1>1. Init => ScopedInv
  <2> SUFFICES ASSUME Init PROVE ScopedInv
    OBVIOUS
  <2>1. \A q \in Question : Held(q) = {}
    BY DEF Init, Held
  <2>2. \A q \in Question : Cardinality(Held(q)) = 0 /\ IsFiniteSet(Held(q))
    BY <2>1, FS_EmptySet
  <2>3. MaxScoped \in Nat
    BY CacheAssumption
  <2> QED
    BY <2>1, <2>2, <2>3 DEF ScopedInv, ScopedBounded
<1>2. ScopedInv => ScopedBounded
  BY DEF ScopedInv
<1> QED
  BY <1>1, <1>2, ScopedStep, TypeCorrect, PTL DEF Spec
=============================================================================
