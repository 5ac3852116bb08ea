---------------------------- MODULE ClientNames ----------------------------
(***************************************************************************)
(* Names for the clients of the query log (plugins/clientnames): the table *)
(* of the clients seen, the bounded queue of reverse lookups, the worker   *)
(* that serves it and sweeps the table once an hour, and the GUI service   *)
(* that starts, stops and configures it.  Queries observe their client     *)
(* after they were answered (querylog's client observer).                  *)
(*                                                                         *)
(* The reverse lookup is external: it answers with the client's name, or   *)
(* fails or finds nothing for a while.                                     *)
(***************************************************************************)
EXTENDS Naturals, Sequences, FiniteSets

CONSTANTS
    Client,
    V6,             \* the clients with an IPv6 address
    VlanOf,         \* the VLAN a client's address matches
    Settings,       \* the settings and hosts files that may be saved
    Routed,         \* the VLANs with an interface that has a default route
    HasV4,          \* the VLANs with an IPv4 network
    DefaultRoute,   \* some interface has a default route
    QueueSize,      \* resolveQueueSize
    MaxSaves

VARIABLES
    on,             \* a table exists and is the query log's observer
    cfg,            \* Table.cfg
    entries,        \* per client: unseen, or the Source of its cached name
    queue,          \* resolveQ
    at,             \* where each client's query is
    worker,         \* the lookups Run has before it: the one under way first
    up,             \* external: the reverse resolvers answer
    dropped,        \* history: the clients of this table a full queue turned away
    saves

vars == <<on, cfg, entries, queue, at, worker, up, dropped, saves>>

\* heuristicGateway: the first address of the VLAN's IPv4 network, if it has one.
Heuristic(v) == v \in HasV4

\* gatewaydetect's detect: the VLANs, "" for clients of none, with a gateway. A
\* client of no VLAN only has one when there is a default route.
Gateways(vlans) ==
    {v \in vlans : v \in Routed \/ Heuristic(v)} \cup IF DefaultRoute THEN {""} ELSE {}

\* clientNamesConfig: a resolver that was set serves every VLAN, else each one's
\* gateway does.
ClientNamesConfig(s) ==
    [hosts |-> s.hosts, mdns |-> s.mdns, refresh |-> s.refresh,
     resolvers |-> IF s.ptrUpstream THEN s.vlans \cup {""} ELSE Gateways(s.vlans)]

\* resolverFor: the VLANs, "" for none, that have a reverse resolver.
ResolverFor(c) == VlanOf[c] \in cfg.resolvers

\* resolveLive: hosts.yaml, then a discovered device with this address.
ResolveLive(c) ==
    IF c \in cfg.hosts THEN "hosts" ELSE IF c \in cfg.mdns THEN "mdns" ELSE "none"

\* Resolve, and each row of Snapshot: the live tiers before the cached one.
Resolve(c) == IF ResolveLive(c) # "none" THEN ResolveLive(c)
              ELSE IF entries[c] = "ptr" THEN "ptr" ELSE "none"

\* A client sends a query.
Query(c) ==
    /\ at[c] = "idle"
    /\ at' = [at EXCEPT ![c] = "observe"]
    /\ UNCHANGED <<on, cfg, entries, queue, worker, up, dropped, saves>>

\* Observe, under the lock: the client is entered; only one not seen before that
\* no live tier names goes on to the queue.
Observe(c) ==
    /\ at[c] = "observe"
    /\ entries' = IF on /\ entries[c] = "unseen" THEN [entries EXCEPT ![c] = "none"] ELSE entries
    /\ at' = [at EXCEPT ![c] =
                IF on /\ entries[c] = "unseen" /\ ResolverFor(c) /\ ResolveLive(c) = "none"
                THEN "queue" ELSE "idle"]
    /\ UNCHANGED <<on, cfg, queue, worker, up, dropped, saves>>

\* The send, which does not wait: a full queue drops the client.
Enqueue(c) ==
    /\ at[c] = "queue"
    /\ queue' = IF on /\ Len(queue) < QueueSize THEN Append(queue, c) ELSE queue
    /\ dropped' = IF on /\ Len(queue) >= QueueSize THEN dropped \cup {c} ELSE dropped
    /\ at' = [at EXCEPT ![c] = "idle"]
    /\ UNCHANGED <<on, cfg, entries, worker, up, saves>>

\* Run takes a client from the queue.
Dequeue ==
    /\ on /\ worker = <<>> /\ queue # <<>>
    /\ worker' = <<Head(queue)>>
    /\ queue' = Tail(queue)
    /\ UNCHANGED <<on, cfg, entries, at, up, dropped, saves>>

\* Sweep, once an hour: what a reverse lookup named before is looked up again,
\* as far as the setting wants.
SweepList(mode) ==
    {c \in Client : /\ entries[c] = "ptr"
                    /\ mode # "none"
                    /\ mode = "ipv4_only" => c \notin V6}

Sweep ==
    /\ on /\ worker = <<>>
    /\ worker' \in {s \in [1 .. Cardinality(SweepList(cfg.refresh)) -> SweepList(cfg.refresh)] :
                        \A i, j \in DOMAIN s : s[i] = s[j] => i = j}
    /\ UNCHANGED <<on, cfg, entries, queue, at, up, dropped, saves>>

\* attemptPTR: a lookup that finds a name caches it, one that does not changes
\* nothing.
AttemptPTR ==
    /\ on /\ worker # <<>>
    /\ LET c == Head(worker)
       IN entries' = IF entries[c] # "unseen" /\ ResolverFor(c) /\ up
                     THEN [entries EXCEPT ![c] = "ptr"] ELSE entries
    /\ worker' = Tail(worker)
    /\ UNCHANGED <<on, cfg, queue, at, up, dropped, saves>>

\* reconcileClientNames after a settings save: StartClientNames makes a new
\* table, StopClientNames drops it, refreshClientNames configures it (as a hosts
\* edit does).
SaveSettings(enabled, s) ==
    /\ saves < MaxSaves
    /\ saves' = saves + 1
    /\ on' = enabled
    /\ cfg' = IF enabled THEN ClientNamesConfig(s) ELSE cfg
    /\ IF enabled = on THEN UNCHANGED <<entries, queue, worker, dropped>>
       ELSE /\ entries' = [c \in Client |-> "unseen"]
            /\ queue' = <<>>
            /\ worker' = <<>>
            /\ dropped' = {}
    /\ UNCHANGED <<at, up>>

\* The routers answer reverse queries again.
ResolversRecover ==
    /\ ~up /\ up' = TRUE
    /\ UNCHANGED <<on, cfg, entries, queue, at, worker, dropped, saves>>

Init ==
    /\ on \in BOOLEAN /\ cfg \in {ClientNamesConfig(s) : s \in Settings}
    /\ up \in BOOLEAN
    /\ entries = [c \in Client |-> "unseen"]
    /\ queue = <<>> /\ worker = <<>>
    /\ at = [c \in Client |-> "idle"]
    /\ dropped = {} /\ saves = 0

Next ==
    \/ \E c \in Client : Query(c) \/ Observe(c) \/ Enqueue(c)
    \/ Dequeue \/ Sweep \/ AttemptPTR
    \/ \E enabled \in BOOLEAN, s \in Settings : SaveSettings(enabled, s)
    \/ ResolversRecover

\* Every client goes on sending queries and every query is served; the worker
\* gets to run, takes what is queued even when the ticker fires again and again,
\* and the resolvers answer in the end.
FairSpec ==
    /\ Init /\ [][Next]_vars
    /\ \A c \in Client : WF_vars(Query(c)) /\ WF_vars(Observe(c)) /\ WF_vars(Enqueue(c))
    /\ SF_vars(Dequeue) /\ SF_vars(Sweep) /\ WF_vars(AttemptPTR)
    /\ WF_vars(ResolversRecover)

---------------------------------------------------------------------------
\* table.go of the full queue: "A dropped IP just stays SourceNone until Sweep's
\* next hourly pass, or a future query resolves it."  While client names are on,
\* a client that was dropped, goes on sending queries and has a resolver that
\* answers gets a name, or one of these ends.
DroppedIsNamed ==
    \A c \in Client :
        (on /\ c \in dropped) ~> (Resolve(c) # "none" \/ ~on \/ ~ResolverFor(c))
=============================================================================
