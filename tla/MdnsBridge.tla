----------------------------- MODULE MdnsBridge -----------------------------
(***************************************************************************)
(* Discovery over mDNS: the browses of a listener (MdnsBrowser), the table *)
(* they feed (plugins/mdnsbridge), the DNS handler that answers from it,   *)
(* and the GUI service that owns table and listener across settings saves  *)
(* and engine reloads.  Each browse is a goroutine with its own socket:    *)
(* messages may be lost, repeated or come in any order, and a browse that  *)
(* was cancelled may still take one and report it before it notices.       *)
(*                                                                         *)
(* One unit of the clock is a poll interval of the browses.  A callback,   *)
(* and a cancelled browse's way out, take less than a unit.                *)
(***************************************************************************)
EXTENDS MdnsBrowser, Sequences

CONSTANTS
    Service,
    Message,        \* the messages a socket may deliver: MdnsBrowser's, with service and iface
    Setting,        \* the settings the GUI may save, see Build
    Bound,          \* the bindings of names to devices a start may find in records.yaml
    LabelOf,        \* firstLabel: the DNS label of a host
    Suffix,
    V6,             \* the addresses that are IPv6
    MaxNow, MaxMessages, MaxSaves

ASSUME MessageAssumption == \A m \in Message : Parsed(m) /\ m.service \in Service
ASSUME SettingAssumption == \A x \in Setting : x.services \subseteq Service
ASSUME BoundsAssumption == MaxNow \in Nat

VARIABLES
    now,
    disk,           \* settings.yaml and the type:mdns bindings of records.yaml
    vlans,          \* vlanmatch.Current(): the VLAN of each address
    tables,         \* the discovery tables made so far
    gui,            \* Service.mdns and the injected table, 0 for nil
    handler,        \* the table of the running engine's handler, 0 without the stanza
    listeners,      \* the listeners started so far
    current,        \* the listener mdnsCancel cancels, 0 for nil
    browses,        \* the browses started so far, by listener and service
    save,           \* where the operation that holds Service.mu is
    budget,         \* messages and saves left
    heard,          \* ghost: when each key was last announced to a browse
    latest,         \* ghost: the addresses last announced for each host
    asked,          \* ghost: what each browse asked for since it last met it
    undone,         \* ghost: keys a cancelled browse removed or cut short, see KnownIsListed
    behind          \* ghost: the table was not rederived since a change, see ServedAsConfigured

serviceVars == <<disk, vlans, gui, handler, listeners, current, save, behind>>
ghosts == <<heard, latest, asked, undone>>
vars == <<now, tables, browses, serviceVars, ghosts, budget>>

Idle == [at |-> "idle"]
Browse == Nat \X Service
Key == Service \X Instance \X Host
Name == {<<LabelOf[h], x>> : h \in Host, x \in Suffix}

ASSUME BoundAssumption == \A promoted \in Bound : DOMAIN promoted \subseteq Name

---------------------------------------------------------------------------
(* Selectors.  A glob is the set of values it matches. *)

InVlan(addrs, vlan) == \E a \in addrs : vlans[a] = vlan

\* Selector.Match, without its condition on TXT keys: entries carry no TXT data
\* here, so a selector that has one is not among those modelled.
Match(sel, k, addrs) ==
    /\ k[1] \in sel.service
    /\ k[2] \in sel.instance
    /\ k[3] \in sel.host
    /\ sel.family = "ipv4" => addrs \ V6 # {}
    /\ sel.family = "ipv6" => addrs \cap V6 # {}
    /\ sel.vlan # "" => InVlan(addrs, sel.vlan)

MatchAny(sels, k, addrs) == \E sel \in sels : Match(sel, k, addrs)

\* The first naming rule that matches, else the default suffix.
SuffixFor(cfg, k, addrs) ==
    LET rules == {i \in DOMAIN cfg.naming : Match(cfg.naming[i].match, k, addrs)}
    IN IF rules = {} THEN cfg.suffix ELSE cfg.naming[Min(rules)].suffix

\* mdnscfg.Build: a table's configuration from settings and records.
Build(d) == [suffix |-> d.settings.suffix, naming |-> d.settings.naming,
             auto |-> d.settings.auto, promoted |-> d.promoted]

---------------------------------------------------------------------------
(* The table. *)

NewTable(cfg) == [cfg |-> cfg, entries |-> <<>>]

\* rederive: what the configuration makes of an entry.
Derived(cfg, k, e) ==
    LET promoted == \E n \in DOMAIN cfg.promoted : Match(cfg.promoted[n], k, e.addrs)
    IN [name      |-> <<LabelOf[k[3]], SuffixFor(cfg, k, e.addrs)>>,
        promoted  |-> promoted,
        published |-> e.manual \/ MatchAny(cfg.auto, k, e.addrs) \/ promoted]

Rederive(cfg, k, e) == [e EXCEPT !.served = Derived(cfg, k, e)]

\* Mutant: the table's own, much longer, TTL is used for every entry.
TableExpiredByDefault(e) == now - e.lastSeen > 2 * MaxNow

TableExpired(e) == now - e.lastSeen > e.ttl

\* Mutant: a new configuration applies to entries found from now on.
SetConfigLazily(t, cfg) == [t EXCEPT !.cfg = cfg]

SetConfig(t, cfg) ==
    [cfg |-> cfg, entries |-> [k \in DOMAIN t.entries |-> Rederive(cfg, k, t.entries[k])]]

\* An instance that is met again keeps its approval and all its addresses.
Upsert(t, k, b) ==
    LET old == IF k \in DOMAIN t.entries THEN t.entries[k]
               ELSE [addrs |-> {}, ttl |-> 0, manual |-> FALSE, lastSeen |-> 0, served |-> <<>>]
        met == [old EXCEPT !.addrs = @ \cup b.addrs, !.lastSeen = now,
                           !.ttl = IF b.ttl > 0 THEN b.ttl ELSE @]
    IN [t EXCEPT !.entries = Over([j \in {k} |-> Rederive(t.cfg, k, met)], t.entries)]

Remove(t, k) == [t EXCEPT !.entries = Restrict(@, DOMAIN @ \ {k})]

Live(t) == {k \in DOMAIN t.entries : ~TableExpired(t.entries[k])}

Expire(t) == [t EXCEPT !.entries = Restrict(@, Live(t))]

Collect(t, keys) == UNION {t.entries[k].addrs : k \in keys}

\* The answer to a name: a promoted name is owned whether or not a device
\* matches; any other while a live entry is served under it.
Resolve(t, n) ==
    IF n \in DOMAIN t.cfg.promoted
    THEN LET keys == {k \in Live(t) : Match(t.cfg.promoted[n], k, t.entries[k].addrs)}
         IN [addrs |-> Collect(t, keys), owned |-> TRUE]
    ELSE LET keys == {k \in Live(t) : t.entries[k].served.published /\ t.entries[k].served.name = n}
         IN [addrs |-> Collect(t, keys), owned |-> Collect(t, keys) # {}]

\* MDNSBridge.ServeDNS: answers of the family asked for, or the next plugin.
Answer(t, n, v6) ==
    LET found == Resolve(t, n)
    IN [rrs |-> IF v6 THEN found.addrs \cap V6 ELSE found.addrs \ V6, next |-> ~found.owned]

---------------------------------------------------------------------------
(* The browses of a listener. *)

NewBrowse == [at |-> "run", state |-> NewState, add |-> {}, rmv |-> {}, polled |-> FALSE]

Waiting(b) == browses[b].at = "run" /\ browses[b].add = {} /\ browses[b].rmv = {}

Cancelled(b) == ~listeners[b[1]].on

Call(b, i, e) == [key |-> <<b[2], i, e.host>>, entry |-> e]

\* Browse takes a message of an interface it listens on.
Hear(b, m) ==
    /\ Waiting(b)
    /\ budget.messages > 0
    /\ m.service = b[2]
    /\ LET allowed == listeners[b[1]].params.ifaces IN allowed = {} \/ m.iface \in allowed
    /\ LET before == browses[b].state
           r == Ingest(before, m, now)
           adds == {Call(b, i, r.state.entries[i]) : i \in r.added}
       IN /\ browses' = [browses EXCEPT ![b].state = r.state, ![b].add = adds,
                             ![b].rmv = {Call(b, i, before.entries[i]) : i \in r.removed}]
          /\ heard' = Over([k \in {c.key : c \in adds} |-> now], heard)
          /\ latest' = [h \in Host |-> IF \E p \in m.a : p[1] = h
                                       THEN {p[2] : p \in {q \in m.a : q[1] = h}}
                                       ELSE latest[h]]
          /\ asked' = [asked EXCEPT ![b] = @ \ DOMAIN m.ptr]
    /\ budget' = [budget EXCEPT !.messages = @ - 1]
    /\ UNCHANGED <<now, tables, serviceVars, undone>>

\* Browse's ticker fires.
PollBrowse(b) ==
    /\ Waiting(b)
    /\ ~browses[b].polled
    /\ LET before == browses[b].state
           r == Poll(before, now)
       IN /\ browses' = [browses EXCEPT ![b].state = r.state, ![b].polled = TRUE,
                             ![b].rmv = {Call(b, i, before.entries[i]) : i \in r.removed}]
          /\ asked' = [asked EXCEPT ![b] = (@ \cup r.asked) \cap DOMAIN r.state.cache]
    /\ UNCHANGED <<now, tables, serviceVars, heard, latest, undone, budget>>

\* A report that cuts short what the table allowed the entry.
Shortens(t, c) == c.key \in DOMAIN t.entries /\ c.entry.ttl < t.entries[c.key].ttl

\* Listener.ingest and Listener.remove, called for what a message or a poll
\* reported, the additions first.
AddInstance(b) ==
    \E c \in browses[b].add :
        /\ tables' = [tables EXCEPT ![listeners[b[1]].table] = Upsert(@, c.key, c.entry)]
        /\ browses' = [browses EXCEPT ![b].add = @ \ {c}]
        /\ undone' = IF ~Cancelled(b) THEN undone \ {c.key}
                     ELSE IF Shortens(tables[listeners[b[1]].table], c) THEN undone \cup {c.key}
                     ELSE undone
        /\ UNCHANGED <<now, serviceVars, heard, latest, asked, budget>>

RemoveInstance(b) ==
    /\ browses[b].add = {}
    /\ \E c \in browses[b].rmv :
        /\ tables' = [tables EXCEPT ![listeners[b[1]].table] = Remove(@, c.key)]
        /\ browses' = [browses EXCEPT ![b].rmv = @ \ {c}]
        /\ undone' = IF Cancelled(b) THEN undone \cup {c.key} ELSE undone
        /\ UNCHANGED <<now, serviceVars, heard, latest, asked, budget>>

\* The socket cannot be opened or the first query not sent: nothing tries again.
BrowseFails(b) ==
    /\ Waiting(b)
    /\ browses[b].state = NewState
    /\ ~browses[b].polled
    /\ browses' = [browses EXCEPT ![b].at = "ended"]
    /\ UNCHANGED <<now, tables, serviceVars, ghosts, budget>>

\* A cancelled browse leaves when its select takes ctx.Done.
BrowseLeaves(b) ==
    /\ Waiting(b)
    /\ Cancelled(b)
    /\ browses' = [browses EXCEPT ![b].at = "ended"]
    /\ UNCHANGED <<now, tables, serviceVars, ghosts, budget>>

\* typeBrowserState.Ingest: a type is reported once per browse, and for good.
NewType(l, s) == <<l, s>> \notin DOMAIN browses

\* browseAllTypes: a type that was not met before is browsed.
HearType(l, s) ==
    /\ l \in DOMAIN listeners
    /\ listeners[l].types
    /\ NewType(l, s)
    /\ browses' = Over([b \in {<<l, s>>} |-> NewBrowse], browses)
    /\ asked' = Over([b \in {<<l, s>>} |-> {}], asked)
    /\ UNCHANGED <<now, tables, serviceVars, heard, latest, undone, budget>>

TypesLeave(l) ==
    /\ l \in DOMAIN listeners
    /\ listeners[l].types /\ ~listeners[l].on
    /\ listeners' = [listeners EXCEPT ![l].types = FALSE]
    /\ UNCHANGED <<now, tables, browses, disk, vlans, gui, handler, current, save, behind, ghosts, budget>>

\* Run's timer drops what is expired.
ExpireTable(l) ==
    /\ l \in DOMAIN listeners
    /\ listeners[l].on
    /\ LET t == listeners[l].table
       IN /\ Live(tables[t]) # DOMAIN tables[t].entries
          /\ tables' = [tables EXCEPT ![t] = Expire(@)]
    /\ UNCHANGED <<now, browses, serviceVars, ghosts, budget>>

---------------------------------------------------------------------------
(* The GUI service. *)

\* mdnsListenerConfig: what a listener is started with.
BrowseParams(x) == [dynamic |-> x.dynamic, services |-> x.services, ifaces |-> x.ifaces]

\* StartMDNS on table t, with the other listeners as given.
StartMDNS(t, x, others) ==
    LET l == Len(others) + 1
        new == IF x.dynamic THEN {} ELSE {<<l, s>> : s \in x.services}
    IN /\ listeners' = Append(others, [table |-> t, params |-> BrowseParams(x), types |-> x.dynamic, on |-> TRUE])
       /\ current' = l
       /\ browses' = Over([b \in new |-> NewBrowse], browses)
       /\ asked' = Over([b \in new |-> {}], asked)

Cancel(l) == [listeners EXCEPT ![l].on = FALSE]

\* SaveSettings up to the reload: mdnsPreReload makes the table when mDNS is
\* being turned on.
SaveSettings(x) ==
    /\ save = Idle
    /\ budget.saves > 0
    /\ disk' = [disk EXCEPT !.settings = x]
    /\ vlans' = x.vlans
    /\ LET make == x.enabled /\ gui = 0
       IN /\ tables' = IF make THEN Append(tables, NewTable(Build(disk'))) ELSE tables
          /\ gui' = IF make THEN Len(tables) + 1 ELSE gui
    /\ save' = [at |-> "reload", kind |-> "settings"]
    /\ budget' = [budget EXCEPT !.saves = @ - 1]
    /\ UNCHANGED <<now, browses, handler, listeners, current, ghosts, behind>>

\* Settings that do not validate: render has already set the VLANs.
RejectSettings(x) ==
    /\ save = Idle
    /\ budget.saves > 0
    /\ x.vlans # vlans
    /\ vlans' = x.vlans
    /\ behind' = TRUE
    /\ budget' = [budget EXCEPT !.saves = @ - 1]
    /\ UNCHANGED <<now, tables, browses, disk, gui, handler, listeners, current, save, ghosts>>

\* applyRecords up to the reload.
ApplyRecords(promoted) ==
    /\ save = Idle
    /\ budget.saves > 0
    /\ disk' = [disk EXCEPT !.promoted = promoted]
    /\ vlans' = disk.settings.vlans
    /\ save' = [at |-> "reload", kind |-> "records"]
    /\ budget' = [budget EXCEPT !.saves = @ - 1]
    /\ UNCHANGED <<now, tables, browses, gui, handler, listeners, current, ghosts, behind>>

\* PromoteMDNS: a listed entry becomes a record bound to its host.
PromoteMDNS(n) ==
    /\ gui # 0
    /\ n \notin DOMAIN disk.promoted
    /\ \E k \in Live(tables[gui]) :
        /\ tables[gui].entries[k].served.name = n
        /\ LET sel == [service |-> Service, instance |-> Instance, host |-> {k[3]}, family |-> "", vlan |-> ""]
           IN ApplyRecords(Over([m \in {n} |-> sel], disk.promoted))

DeleteRecord(n) ==
    /\ n \in DOMAIN disk.promoted
    /\ ApplyRecords(Restrict(disk.promoted, DOMAIN disk.promoted \ {n}))

\* RestartEngine, and a hosts edit: only render and reload.
RestartEngine ==
    /\ save = Idle
    /\ budget.saves > 0
    /\ vlans' = disk.settings.vlans
    /\ behind' = (behind \/ vlans' # vlans)
    /\ save' = [at |-> "reload", kind |-> "restart"]
    /\ budget' = [budget EXCEPT !.saves = @ - 1]
    /\ UNCHANGED <<now, tables, browses, disk, gui, handler, listeners, current, ghosts>>

\* The engine's reload: setup takes the injected table; a reload that fails
\* leaves the old chain running.
Reload(ok) ==
    /\ save.at = "reload"
    /\ handler' = IF ~ok THEN handler ELSE IF disk.settings.enabled THEN gui ELSE 0
    /\ save' = IF save.kind = "restart" THEN Idle ELSE [save EXCEPT !.at = "post"]
    /\ UNCHANGED <<now, tables, browses, disk, vlans, gui, listeners, current, behind, ghosts, budget>>

\* refreshMDNS after the records were reloaded.
RefreshMDNS ==
    /\ save.at = "post"
    /\ \/ save.kind = "records"
       \/ /\ save.kind = "settings" /\ disk.settings.enabled /\ current # 0
          /\ BrowseParams(disk.settings) = listeners[current].params
    /\ tables' = IF gui = 0 THEN tables ELSE [tables EXCEPT ![gui] = SetConfig(@, Build(disk))]
    /\ behind' = FALSE
    /\ save' = Idle
    /\ UNCHANGED <<now, browses, disk, vlans, gui, handler, listeners, current, ghosts, budget>>

\* mdnsPostReload's other cases: off; just turned on; other browse parameters,
\* where the table is emptied and the listener replaced.
StopMDNS ==
    /\ save.at = "post" /\ save.kind = "settings"
    /\ ~disk.settings.enabled
    /\ listeners' = IF current = 0 THEN listeners ELSE Cancel(current)
    /\ current' = 0
    /\ gui' = 0
    /\ behind' = FALSE
    /\ save' = Idle
    /\ UNCHANGED <<now, tables, browses, disk, vlans, handler, ghosts, budget>>

FirstStart ==
    /\ save.at = "post" /\ save.kind = "settings"
    /\ disk.settings.enabled /\ current = 0
    /\ StartMDNS(gui, disk.settings, listeners)
    /\ behind' = FALSE
    /\ save' = Idle
    /\ UNCHANGED <<now, tables, disk, vlans, gui, handler, heard, latest, undone, budget>>

\* Mutant: the old listener is left running.
RestartListenerKeepsOld ==
    /\ save.at = "post" /\ save.kind = "settings"
    /\ disk.settings.enabled /\ current # 0
    /\ BrowseParams(disk.settings) # listeners[current].params
    /\ tables' = [tables EXCEPT ![gui].entries = <<>>]
    /\ StartMDNS(gui, disk.settings, listeners)
    /\ behind' = TRUE
    /\ save' = Idle
    /\ UNCHANGED <<now, disk, vlans, gui, handler, heard, latest, undone, budget>>

RestartListener ==
    /\ save.at = "post" /\ save.kind = "settings"
    /\ disk.settings.enabled /\ current # 0
    /\ BrowseParams(disk.settings) # listeners[current].params
    /\ tables' = [tables EXCEPT ![gui].entries = <<>>]
    /\ StartMDNS(gui, disk.settings, Cancel(current))
    /\ behind' = TRUE
    /\ save' = Idle
    /\ UNCHANGED <<now, disk, vlans, gui, handler, heard, latest, undone, budget>>

\* SetMDNSPublished: the GUI approves or unapproves what maps to a name.
SetPublished(n, approve) ==
    /\ gui # 0
    /\ LET t == tables[gui]
           hit == {k \in DOMAIN t.entries : t.entries[k].served.name = n}
           approved(k) == Rederive(t.cfg, k, [t.entries[k] EXCEPT !.manual = approve])
       IN /\ \E k \in hit : t.entries[k].manual # approve
          /\ tables' = [tables EXCEPT ![gui].entries = Over([k \in hit |-> approved(k)], t.entries)]
    /\ UNCHANGED <<now, browses, serviceVars, ghosts, budget>>

Tick ==
    /\ now < MaxNow
    /\ \A b \in DOMAIN browses :
        browses[b].at = "run" => Waiting(b) /\ browses[b].polled /\ ~Cancelled(b)
    /\ \A l \in DOMAIN listeners : listeners[l].types => listeners[l].on
    /\ now' = now + 1
    /\ browses' = [b \in DOMAIN browses |-> [browses[b] EXCEPT !.polled = FALSE]]
    /\ UNCHANGED <<tables, serviceVars, ghosts, budget>>

\* The process starts with the settings on disk: the table is made and injected
\* before the engine, the listener started after it.
Init ==
    /\ now = 0
    /\ \E x \in Setting, promoted \in Bound :
        LET new == IF x.enabled /\ ~x.dynamic THEN {<<1, s>> : s \in x.services} ELSE {}
        IN /\ disk = [settings |-> x, promoted |-> promoted]
           /\ vlans = x.vlans
           /\ tables = IF x.enabled THEN <<NewTable(Build(disk))>> ELSE <<>>
           /\ gui = Len(tables) /\ handler = gui /\ current = gui
           /\ listeners = IF x.enabled
                          THEN <<[table |-> 1, params |-> BrowseParams(x), types |-> x.dynamic, on |-> TRUE]>>
                          ELSE <<>>
           /\ browses = [b \in new |-> NewBrowse]
           /\ asked = [b \in new |-> {}]
    /\ save = Idle
    /\ budget = [messages |-> MaxMessages, saves |-> MaxSaves]
    /\ heard = <<>>
    /\ undone = {}
    /\ latest = [h \in Host |-> {}]
    /\ behind = FALSE

BrowseStep(b) ==
    \/ \E m \in Message : Hear(b, m)
    \/ PollBrowse(b) \/ AddInstance(b) \/ RemoveInstance(b) \/ BrowseFails(b) \/ BrowseLeaves(b)

ListenerStep(l) == (\E s \in Service : HearType(l, s)) \/ TypesLeave(l) \/ ExpireTable(l)

ServiceStep ==
    \/ \E x \in Setting : SaveSettings(x) \/ RejectSettings(x)
    \/ \E n \in Name : PromoteMDNS(n) \/ DeleteRecord(n)
    \/ RestartEngine
    \/ \E ok \in BOOLEAN : Reload(ok)
    \/ RefreshMDNS \/ StopMDNS \/ FirstStart \/ RestartListener
    \/ \E n \in Name, approve \in BOOLEAN : SetPublished(n, approve)

Next ==
    \/ \E b \in DOMAIN browses : BrowseStep(b)
    \/ \E l \in DOMAIN listeners : ListenerStep(l)
    \/ ServiceStep
    \/ Tick

Spec == Init /\ [][Next]_vars

---------------------------------------------------------------------------
(* Properties. *)

\* Every variable has its type.  In particular no listener feeds, and no handler
\* answers from, a table that was never made, and no browse counts more refreshes
\* of a record than there are thresholds.
TypeOK ==
    /\ now \in 0 .. MaxNow
    /\ disk.settings \in Setting /\ DOMAIN disk.promoted \subseteq Name
    /\ {gui, handler} \subseteq 0 .. Len(tables)
    /\ current \in 0 .. Len(listeners)
    /\ \A l \in DOMAIN listeners : listeners[l].table \in DOMAIN tables
    /\ \A t \in DOMAIN tables : DOMAIN tables[t].entries \subseteq Key
    /\ DOMAIN asked = DOMAIN browses
    /\ \A b \in DOMAIN browses :
        /\ b[1] \in DOMAIN listeners /\ b[2] \in Service
        /\ \A i \in DOMAIN browses[b].state.cache : browses[b].state.cache[i] \in CacheRecord
        /\ \A i \in DOMAIN browses[b].state.entries : browses[b].state.entries[i] \in Entry

\* What a browse of the current listener knows, has the addresses of and has not
\* given up, the table lists, or is about to: the table's own clock never drops
\* what mdnssd still keeps alive (browser.go: the heartbeat of Ingest).  Except
\* what a cancelled browse of the same type took out again, or reported late with
\* a shorter TTL.
KnownIsListed ==
    \A b \in DOMAIN browses : browses[b].at = "run" /\ ~Cancelled(b) =>
        LET state == browses[b].state
        IN \A i \in DOMAIN state.entries :
            /\ Resolvable(state.entries[i])
            /\ ~Expired(state.cache[i], now)
            => LET c == Call(b, i, state.entries[i])
               IN c \in browses[b].add \/ c.key \in Live(tables[listeners[b[1]].table]) \cup undone

\* No instance is given up before it was asked for again, without the query
\* offering it as known, since it was last met, if its TTL is five polls or more
\* (cache.go: refreshThresholds, knownanswer.go).
AskedBeforeDropped ==
    \A b \in DOMAIN browses : browses[b].at = "run" =>
        LET cache == browses[b].state.cache
        IN \A i \in DOMAIN cache : Expired(cache[i], now) /\ cache[i].ttl >= 5 => i \in asked[b]

\* Every entry that may be answered or listed was announced within its TTL,
\* whatever became of the browse that found it: a goodbye under another host, a
\* cancelled browse's late report and a lost goodbye last no longer than that.
AnswersWereHeard ==
    \A t \in DOMAIN tables : \A k \in Live(tables[t]) :
        k \in DOMAIN heard /\ now - heard[k] <= tables[t].entries[k].ttl

\* Between saves the GUI's table carries the configuration on disk, and every
\* entry the name and the published state that it gives it: entries found before
\* a change too.  Except since a save that replaced the listener, which keeps the
\* old configuration, or VLANs that changed without a refresh.
ServedAsConfigured ==
    save = Idle /\ gui # 0 /\ ~behind =>
        LET t == tables[gui]
        IN /\ t.cfg = Build(disk)
           /\ \A k \in DOMAIN t.entries : t.entries[k].served = Derived(t.cfg, k, t.entries[k])

\* Between saves, one listener runs if mDNS is on and none if it is off; it feeds
\* the GUI's table and browses what the settings on disk ask for.
OneListenerAsConfigured ==
    save = Idle =>
        /\ {l \in DOMAIN listeners : listeners[l].on} = {current} \ {0}
        /\ disk.settings.enabled <=> current # 0
        /\ current # 0 => /\ listeners[current].table = gui
                          /\ listeners[current].params = BrowseParams(disk.settings)

---------------------------------------------------------------------------
(* What the proofs carry along. *)

\* A table of discovered entries.
TableShaped(t) ==
    /\ DOMAIN t = {"cfg", "entries"}
    /\ DOMAIN t.entries \subseteq Key
    /\ \A k \in DOMAIN t.entries :
        /\ DOMAIN t.entries[k] = {"addrs", "ttl", "manual", "lastSeen", "served"}
        /\ {t.entries[k].ttl, t.entries[k].lastSeen} \subseteq Nat

\* What a browse has of its type: one record in the cache for every instance.
StateShaped(state, n) ==
    /\ DOMAIN state = {"cache", "entries"}
    /\ DOMAIN state.cache \subseteq Instance
    /\ DOMAIN state.entries = DOMAIN state.cache
    /\ \A i \in DOMAIN state.cache :
        /\ state.cache[i] \in CacheRecord /\ state.entries[i] \in Entry
        /\ state.cache[i].storedAt <= n
        /\ state.cache[i].ttl = state.entries[i].ttl

\* A browse, whose reports are of what it has, or of what it just gave up.
BrowseShaped(b, w) ==
    /\ DOMAIN w = {"at", "state", "add", "rmv", "polled"}
    /\ w.at # "run" => w.add = {} /\ w.rmv = {}
    /\ \A c \in w.add : \E i \in DOMAIN w.state.entries :
          c = Call(b, i, w.state.entries[i]) /\ Resolvable(w.state.entries[i])
    /\ \A c \in w.rmv : \E i \in Instance \ DOMAIN w.state.entries, e \in Entry : c = Call(b, i, e)

ListenerShaped(x) == DOMAIN x = {"table", "params", "types", "on"} /\ x.table \in DOMAIN tables

\* The phases of an operation under Service.mu.
SavePhases == {Idle} \cup [at : {"reload"}, kind : {"settings", "records", "restart"}]
                     \cup [at : {"post"}, kind : {"settings", "records"}]

FilesShaped ==
    /\ now \in 0 .. MaxNow
    /\ DOMAIN disk = {"settings", "promoted"}
    /\ disk.settings \in Setting /\ DOMAIN disk.promoted \subseteq Name
    /\ save \in SavePhases

TablesShaped ==
    /\ tables \in Seq(Range(tables))
    /\ {gui, handler} \subseteq 0 .. Len(tables)
    /\ \A t \in DOMAIN tables : TableShaped(tables[t])

ListenersShaped ==
    /\ listeners \in Seq(Range(listeners))
    /\ current \in 0 .. Len(listeners)
    /\ \A l \in DOMAIN listeners : ListenerShaped(listeners[l])

BrowsesShaped ==
    /\ DOMAIN asked = DOMAIN browses
    /\ \A b \in DOMAIN browses :
        /\ b \in Browse /\ b[1] \in DOMAIN listeners
        /\ StateShaped(browses[b].state, now) /\ BrowseShaped(b, browses[b])

\* TypeOK with what it takes to keep it.
Shaped == FilesShaped /\ TablesShaped /\ ListenersShaped /\ BrowsesShaped

\* OneListenerAsConfigured, in the middle of a save too: only a save of settings
\* may find table and listener out of step.
ListenerInv ==
    /\ {l \in DOMAIN listeners : listeners[l].on} = {current} \ {0}
    /\ current # 0 => gui # 0 /\ listeners[current].table = gui
    /\ save = Idle \/ save.kind # "settings" =>
        /\ disk.settings.enabled <=> current # 0
        /\ gui # 0 => current # 0
        /\ current # 0 => listeners[current].params = BrowseParams(disk.settings)
    /\ save # Idle /\ disk.settings.enabled => gui # 0

EntriesDerived(t) == \A k \in DOMAIN t.entries : t.entries[k].served = Derived(t.cfg, k, t.entries[k])

\* ServedAsConfigured, in the middle of a save too: a restart changes nothing the
\* names depend on, and the table mdnsPreReload makes is as configured.
ServedInv ==
    /\ gui # 0
    /\ IF save = Idle \/ save.kind = "restart" THEN ~behind ELSE save.kind = "settings" /\ current = 0
    => tables[gui].cfg = Build(disk) /\ EntriesDerived(tables[gui])

\* An entry was last seen no later than it was heard, and a report is made in the
\* unit of the clock in which its key was heard.
HeardInv ==
    /\ \A k \in DOMAIN heard : heard[k] \in 0 .. now
    /\ \A t \in DOMAIN tables : \A k \in DOMAIN tables[t].entries :
        k \in DOMAIN heard /\ tables[t].entries[k].lastSeen <= heard[k]
    /\ \A b \in DOMAIN browses : \A c \in browses[b].add : c.key \in DOMAIN heard /\ heard[c.key] = now

\* The table's entry outlasts the browse's record of the instance.
Outlasts(t, k, r) ==
    k \in DOMAIN t.entries /\ t.entries[k].lastSeen >= r.storedAt /\ t.entries[k].ttl >= r.ttl

KnownInv ==
    \A b \in DOMAIN browses : browses[b].at = "run" /\ ~Cancelled(b) =>
        LET state == browses[b].state
        IN \A i \in DOMAIN state.entries : Resolvable(state.entries[i]) =>
            LET c == Call(b, i, state.entries[i])
            IN \/ c \in browses[b].add \/ c.key \in undone
               \/ Expired(state.cache[i], now)
               \/ Outlasts(tables[listeners[b[1]].table], c.key, state.cache[i])

\* A refresh that was sent asked for the instance, and a poll sends one for every
\* record that is past a threshold.
AskedInv ==
    \A b \in DOMAIN browses : browses[b].at = "run" =>
        LET cache == browses[b].state.cache
        IN \A i \in DOMAIN cache :
            /\ cache[i].refreshesSent > 0 => i \in asked[b]
            /\ browses[b].polled /\ 100 * Elapsed(cache[i], now) >= 80 * cache[i].ttl
                 => i \in asked[b]

---------------------------------------------------------------------------
\* docs/mdns-bridge.md of a promoted record: "If the device changes IP, the
\* answer updates with it."  When nothing is under way, a promoted name is
\* answered with addresses its host was last announced with.
AnswerFollowsDevice ==
    (\A b \in DOMAIN browses : Waiting(b)) /\ save = Idle /\ handler # 0 =>
        LET t == tables[handler]
        IN \A n \in DOMAIN t.cfg.promoted :
            \A v6 \in BOOLEAN : Answer(t, n, v6).rrs \subseteq UNION {latest[h] : h \in t.cfg.promoted[n].host}
=============================================================================
