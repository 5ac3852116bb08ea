--------------------------- MODULE ConfigService ---------------------------
(***************************************************************************)
(* How an edit becomes the configuration that answers queries: the GUI's   *)
(* Service (internal/gui/service.go), the ACME manager's reloadFn and the  *)
(* start-up in internal/cli/cli.go, the in-process swap of                 *)
(* internal/engine, and the process-wide values the CoreDNS plugins pick   *)
(* up while the swap runs their setup(): vlanmatch.Current, the injected   *)
(* mDNS table, querylog's CurrentStore, the two .runtime/zones files and   *)
(* vlancache's registry of live caches.                                    *)
(*                                                                         *)
(* Two actors reload the engine.  Requests to the Service hold Service.mu  *)
(* from the first read to the last reconcile; reloadFn does not take that  *)
(* mutex.  Both write the files under .runtime/zones and both end in       *)
(* Engine.Reload, which is the only step they exclude each other from.     *)
(***************************************************************************)
EXTENDS Naturals, FiniteSets

CONSTANTS
    Vlans,        \* names of VLANs an operator may declare
    Hosts,        \* contents hosts.yaml may have
    NoHosts,      \* the one read from a missing hosts.yaml
    Features,     \* the switches of settings.yaml
    Pages,        \* the sets of them a submitted settings page may have on
    Admins,       \* HTTP requests the GUI may be serving at once
    MaxRequests,  \* bound: requests started
    MaxReloads,   \* bound: reloads the ACME manager asks for
    MaxFaults,    \* bound: writes, store openings and engine swaps that fail
    MaxRestarts   \* bound: stops and restarts of the process

\* "browse" stands for the browse parameters (service_types, interfaces):
\* one of two values, so that a request can change them.
ASSUME ServiceAssumption ==
    /\ Features \subseteq {"mdns", "browse", "querylog", "advertise", "clientnames"}
    /\ Pages \subseteq SUBSET Features
    /\ NoHosts \in Hosts
    /\ {MaxRequests, MaxReloads, MaxFaults, MaxRestarts} \subseteq Nat

VARIABLES
    disk,      \* settings.yaml, records.yaml and hosts.yaml
    zone,      \* .runtime/zones/records.json: the records it was written from
    hostsTxt,  \* .runtime/zones/hosts.txt: the hosts it was written from
    vlans,     \* vlanmatch.Current()
    names,     \* querylog.hostNames: the hosts it was set from
    table,     \* mdnsbridge's injected table, which is also Service.mdns
    browse,    \* the browse goroutine: its table and parameters, or NoBrowse
    store,     \* querylog.CurrentStore()
    advert,    \* the settings the self-advertiser announces, or NoAdvert
    clients,   \* what clientnames.Table was configured from, or NoClients
    engine,    \* the running CoreDNS instance, as its plugins were set up
    next,      \* the instance a reload is building (Engine.mu held), or NoNext
    live,      \* vlancache's registry: the instances FlushCache reaches
    admin,     \* per HTTP request: the settings form it works on
    job,       \* per reloader: where its reload stands
    fresh,     \* the next unused identity of a table, store or instance
    applied,   \* history: the last reload was undisturbed and worked, and no save since
    solo,      \* history: the reloader nobody has disturbed since it began
    used       \* what has been spent of the four bounds

vars == <<disk, zone, hostsTxt, vlans, names, table, browse, store, advert,
          clients, engine, next, live, admin, job, fresh, applied, solo, used>>

files    == <<zone, hostsTxt>>
globals  == <<vlans, names>>
sidecars == <<table, browse, advert, clients>>
swapping == <<engine, next, live, fresh>>
history  == <<applied, solo>>

None      == 0                       \* a nil *Table or *Store
NoNext    == [id |-> None]
NoBrowse  == [table |-> None, all |-> FALSE]
NoAdvert  == [off |-> TRUE]
NoClients == [off |-> TRUE]
NoForm    == [pc |-> "idle"]

---------------------------------------------------------------------------
(* Settings, records and hosts *)

\* model.Settings: the VLANs declared and the features switched on.
Settings == [vlans : SUBSET Vlans, on : SUBSET Features]

\* model.RecordSet: the VLANs its overrides and selectors name.
Records == SUBSET Vlans

Configs == [settings : Settings, records : Records, hosts : Hosts]

\* Mutant of Validate: each file is checked by itself.
ValidateAlone(c) == c.records \subseteq Vlans

\* configgen.Validate over the three files together.  What a file can get
\* wrong by itself is not told apart; what matters here is the check across
\* files: a record may only name a VLAN the settings declare.
Validate(c) == c.records \subseteq c.settings.vlans

\* What a settings handler does to the settings it has read: vlanAdd, vlanRemove
\* and vlanUpdate take a VLAN away, add one or give one another name,
\* settingsSave sets every switch as the submitted page has it.
UpToOne == {{}} \cup {{v} : v \in Vlans}
Edits == [drop : UpToOne, add : UpToOne] \cup [on : Pages]

Apply(e, s) ==
    IF "on" \in DOMAIN e THEN [s EXCEPT !.on = e.on]
                         ELSE [s EXCEPT !.vlans = (@ \ e.drop) \cup e.add]

\* vlanUpdate answers a VLAN that is not there with NotFound; a second one of
\* the same name is what a file can get wrong by itself.
Offered(e, s) ==
    "on" \notin DOMAIN e =>
        e.drop \subseteq s.vlans /\ e.add \cap s.vlans = {} /\ e.drop # e.add

On(c, f) == f \in c.settings.on

---------------------------------------------------------------------------
(* Start-up: run() in internal/cli *)

\* caddy runs every plugin's setup() against the rendered Corefile; each one
\* captures the process-wide value or reads the file it depends on.
Instance(c, z, h, v, t, s, id) ==
    [config |-> c, zone |-> z, hosts |-> h, vlans |-> v,
     table  |-> IF On(c, "mdns") THEN t ELSE None,
     store  |-> IF On(c, "querylog") THEN s ELSE None,
     id     |-> id]

BootTable(c) == IF On(c, "mdns") THEN 1 ELSE None

BootStore(c) == IF On(c, "querylog") THEN 2 ELSE None

BootEngine(c) == Instance(c, c.records, c.hosts, c.settings.vlans,
                          BootTable(c), BootStore(c), 3)

Browsing(c, t) == IF On(c, "mdns") THEN [table |-> t, all |-> On(c, "browse")]
                                   ELSE NoBrowse

Announcing(c) == IF On(c, "advertise") THEN [settings |-> c.settings]
                                       ELSE NoAdvert

NamesFrom(c, t) == IF On(c, "clientnames") THEN [hosts |-> c.hosts, table |-> t]
                                           ELSE NoClients

Reloaders == {"gui", "acme"}

NoJob == [pc |-> "idle"]

\* The process starts on the files of a first start (no VLAN, no record, no
\* hosts.yaml) or on files an earlier process left, with every feature off.
Starts == {c \in Configs : /\ c.records \subseteq c.settings.vlans
                           /\ c.settings.on = {} /\ c.hosts = NoHosts}

Init ==
    /\ disk \in Starts
    /\ zone = disk.records   /\ hostsTxt = disk.hosts
    /\ vlans = disk.settings.vlans /\ names = disk.hosts
    /\ table = BootTable(disk)     /\ store = BootStore(disk)
    /\ browse = Browsing(disk, BootTable(disk))
    /\ advert = Announcing(disk)
    /\ clients = NamesFrom(disk, BootTable(disk))
    /\ engine = BootEngine(disk)   /\ next = NoNext /\ live = {3}
    /\ admin = [a \in Admins |-> NoForm]
    /\ job = [w \in Reloaders |-> NoJob]
    /\ fresh = 4
    /\ applied = TRUE /\ solo = "none"
    /\ used = [requests |-> 0, reloads |-> 0, faults |-> 0, restarts |-> 0]

\* The process stops anywhere (a crash or a shutdown) and starts again from
\* the three files; a configuration that does not render never starts.
Reboot ==
    /\ used.restarts < MaxRestarts
    /\ Validate(disk)
    /\ used' = [used EXCEPT !.restarts = @ + 1]
    /\ zone' = disk.records  /\ hostsTxt' = disk.hosts
    /\ vlans' = disk.settings.vlans /\ names' = disk.hosts
    /\ table' = BootTable(disk)     /\ store' = BootStore(disk)
    /\ browse' = Browsing(disk, BootTable(disk))
    /\ advert' = Announcing(disk)
    /\ clients' = NamesFrom(disk, BootTable(disk))
    /\ engine' = BootEngine(disk)   /\ next' = NoNext /\ live' = {3}
    /\ admin' = [a \in Admins |-> NoForm]
    /\ job' = [w \in Reloaders |-> NoJob]
    /\ fresh' = 4
    /\ applied' = TRUE /\ solo' = "none"
    /\ UNCHANGED disk

---------------------------------------------------------------------------
(* Shared steps *)

Unlocked == job["gui"].pc = "idle"        \* Service.mu is free

\* A write, an open or a swap fails, within the bound.
Fault == used.faults < MaxFaults /\ used' = [used EXCEPT !.faults = @ + 1]

Goto(w, pc) == job' = [job EXCEPT ![w] = [pc |-> pc, kind |-> @.kind, config |-> @.config]]

Finish(w) == job' = [job EXCEPT ![w] = NoJob]

\* The request holding Service.mu is answered.
Answer == admin' = [a \in Admins |-> IF admin[a].pc = "busy" THEN NoForm ELSE admin[a]]

\* reload() has returned, with or without an error.  SaveSettings goes on to
\* its reconcilers either way; every other caller returns.
Returned(w) ==
    IF job[w].kind = "settings"
    THEN Goto(w, "post") /\ UNCHANGED admin
    ELSE Finish(w) /\ IF w = "gui" THEN Answer ELSE UNCHANGED admin

\* querylog.ReconcileStore closes, keeps or opens the store; the path never
\* changes, so an open store is only retuned.
ReconcileStore(c) ==
    /\ store' = IF ~On(c, "querylog") THEN None ELSE IF store # None THEN store ELSE fresh
    /\ fresh' = IF store' = fresh THEN fresh + 1 ELSE fresh

OpenStoreFails(c) == On(c, "querylog") /\ store = None /\ Fault

---------------------------------------------------------------------------
(* Requests to the GUI *)

Request == used.requests < MaxRequests /\ used' = [used EXCEPT !.requests = @ + 1]

\* A settings handler (settingsSave, vlanAdd, vlanUpdate, vlanRemove) reads
\* the settings through Service.Settings, which gives Service.mu back.
OpenForm(a, e) ==
    /\ Unlocked /\ admin[a].pc = "idle" /\ Request
    /\ Offered(e, disk.settings)
    /\ admin' = [admin EXCEPT ![a] = [pc |-> "form", edit |-> e, settings |-> disk.settings]]
    /\ UNCHANGED <<disk, files, globals, sidecars, store, swapping, job, history>>

\* Service.render: the process-wide VLAN table is replaced first, then the
\* configuration is validated.  A rejected request is answered at once.
Render(a, kind, c) ==
    /\ vlans' = c.settings.vlans
    /\ \/ /\ Validate(c)
          /\ job' = [job EXCEPT !["gui"] =
                        [pc |-> IF kind = "restart" THEN "zone" ELSE "save",
                         kind |-> kind, config |-> c]]
          /\ admin' = [admin EXCEPT ![a] = [pc |-> "busy"]]
       \/ /\ ~Validate(c)
          /\ admin' = [admin EXCEPT ![a] = NoForm]
          /\ UNCHANGED job
    /\ solo' = IF job["acme"].pc = "idle" THEN "gui" ELSE "none"
    /\ UNCHANGED <<disk, files, names, sidecars, store, swapping, applied>>

\* SaveSettings with the edited form; records and hosts are read again.
SubmitForm(a) ==
    /\ Unlocked /\ admin[a].pc = "form"
    /\ Render(a, "settings", [disk EXCEPT !.settings = Apply(admin[a].edit, admin[a].settings)])
    /\ UNCHANGED used

\* AddRecord, UpdateRecord, DeleteRecord: read, change and apply in one
\* critical section.
EditRecords(a, r) ==
    /\ Unlocked /\ admin[a].pc = "idle" /\ r # disk.records /\ Request
    /\ Render(a, "records", [disk EXCEPT !.records = r])

\* AddHost, UpdateHost, DeleteHost.
EditHosts(a, h) ==
    /\ Unlocked /\ admin[a].pc = "idle" /\ h # disk.hosts /\ Request
    /\ Render(a, "hosts", [disk EXCEPT !.hosts = h])

\* RestartEngine.
RestartEngine(a) ==
    /\ Unlocked /\ admin[a].pc = "idle" /\ Request
    /\ Render(a, "restart", disk)

\* store.SaveSettings, SaveRecords or SaveHosts: temp file, fsync, rename.
\* applyHosts also gives a running client-name table the new hosts.
Save ==
    LET c == job["gui"].config
        kind == job["gui"].kind
    IN  /\ job["gui"].pc = "save"
        /\ \/ /\ disk' = CASE kind = "settings" -> [disk EXCEPT !.settings = c.settings]
                         [] kind = "records"  -> [disk EXCEPT !.records = c.records]
                         [] kind = "hosts"    -> [disk EXCEPT !.hosts = c.hosts]
              /\ applied' = FALSE
              /\ Goto("gui", IF kind = "settings" THEN "pre" ELSE "zone")
              /\ clients' = IF kind = "hosts" /\ clients # NoClients
                            THEN NamesFrom(c, table) ELSE clients
              /\ UNCHANGED <<admin, used>>
           \/ /\ Fault /\ Finish("gui") /\ Answer
              /\ UNCHANGED <<disk, applied, clients>>
        /\ UNCHANGED <<files, globals, table, browse, advert, store, swapping, solo>>

\* mdnsPreReload: the table must be there when setup() looks for it.
PreReload ==
    /\ job["gui"].pc = "pre"
    /\ table' = IF On(job["gui"].config, "mdns") /\ table = None THEN fresh ELSE table
    /\ fresh' = IF table' = fresh THEN fresh + 1 ELSE fresh
    /\ Goto("gui", "zone")
    /\ UNCHANGED <<disk, files, globals, browse, advert, clients, store,
                   engine, next, live, admin, history, used>>

\* mdnsPostReload and reconcileAdvertise, whether or not the reload worked.
PostReload ==
    LET c == job["gui"].config
    IN  /\ job["gui"].pc = "post"
        /\ table' = IF On(c, "mdns") THEN table ELSE None
        /\ browse' = Browsing(c, table)
        /\ \/ advert' = Announcing(c) /\ UNCHANGED used
           \/ On(c, "advertise") /\ advert = NoAdvert /\ Fault /\ UNCHANGED advert
        /\ Goto("gui", "tail")
        /\ UNCHANGED <<disk, files, globals, clients, store, swapping, admin, history>>

\* reconcileQueryLogStore, then reconcileClientNames; the request is answered.
Reconcile ==
    LET c == job["gui"].config
    IN  /\ job["gui"].pc = "tail"
        /\ \/ ReconcileStore(c) /\ UNCHANGED used
           \/ OpenStoreFails(c) /\ UNCHANGED <<store, fresh>>
        /\ clients' = NamesFrom(c, table)
        /\ Finish("gui") /\ Answer
        /\ UNCHANGED <<disk, files, globals, table, browse, advert,
                       engine, next, live, history>>

---------------------------------------------------------------------------
(* The ACME manager's reloadFn, which takes no mutex of the Service *)

AcmeLoad ==
    /\ job["acme"].pc = "idle" /\ used.reloads < MaxReloads
    /\ used' = [used EXCEPT !.reloads = @ + 1]
    /\ job' = [job EXCEPT !["acme"] = [pc |-> "load", kind |-> "acme", config |-> disk]]
    /\ solo' = IF Unlocked THEN "acme" ELSE "none"
    /\ UNCHANGED <<disk, files, globals, sidecars, store, swapping, admin, applied>>

\* Records and hosts are read after the settings: a save may come between.
AcmeLoadRest ==
    LET c == [disk EXCEPT !.settings = job["acme"].config.settings]
    IN  /\ job["acme"].pc = "load"
        /\ job' = [job EXCEPT !["acme"] = [pc |-> "store", kind |-> "acme", config |-> c]]
        /\ vlans' = c.settings.vlans /\ names' = c.hosts
        /\ UNCHANGED <<disk, files, sidecars, store, swapping, admin, history, used>>

\* The store is reconciled before the configuration is validated.
AcmeStore ==
    LET c == job["acme"].config
    IN  /\ job["acme"].pc = "store"
        /\ \/ /\ ReconcileStore(c) /\ UNCHANGED used
              /\ IF Validate(c) THEN Goto("acme", "zone") ELSE Finish("acme")
           \/ OpenStoreFails(c) /\ Finish("acme") /\ UNCHANGED <<store, fresh>>
        /\ UNCHANGED <<disk, files, globals, sidecars, engine, next, live, admin, history>>

---------------------------------------------------------------------------
(* The reload itself, the same for both *)

\* Mutant of WriteZoneData: its error is ignored, as the one of the Corefile
\* copy is.
ZoneErrorIgnored(w) ==
    /\ job[w].pc = "zone"
    /\ \/ zone' = job[w].config.records /\ UNCHANGED used
       \/ Fault /\ UNCHANGED zone
    /\ Goto(w, "hosts")
    /\ UNCHANGED <<disk, hostsTxt, globals, sidecars, store, swapping, admin, history>>

WriteZoneData(w) ==
    /\ job[w].pc = "zone"
    /\ \/ zone' = job[w].config.records /\ Goto(w, "hosts") /\ UNCHANGED <<admin, used>>
       \/ Fault /\ Returned(w) /\ UNCHANGED zone
    /\ UNCHANGED <<disk, hostsTxt, globals, sidecars, store, swapping, history>>

WriteHostsData(w) ==
    /\ job[w].pc = "hosts"
    /\ \/ hostsTxt' = job[w].config.hosts /\ Goto(w, "setup") /\ UNCHANGED <<admin, used>>
       \/ Fault /\ Returned(w) /\ UNCHANGED hostsTxt
    /\ UNCHANGED <<disk, zone, globals, sidecars, store, swapping, history>>

\* Engine.Reload up to the new instance: Instance.Restart runs the OnRestart
\* callbacks of the running instance (vlancache unregisters its cache), then
\* the setup() of every plugin of the new one (vlancache registers its own).
Setup(w) ==
    /\ job[w].pc = "setup" /\ next = NoNext
    /\ next' = Instance(job[w].config, zone, hostsTxt, vlans, table, store, fresh)
    /\ live' = (live \ {engine.id}) \cup {fresh}
    /\ fresh' = fresh + 1
    /\ Goto(w, "swap")
    /\ UNCHANGED <<disk, files, globals, sidecars, store, engine, admin, history, used>>

\* mdnsbridge's setup() fails without an injected table.
Startable(inst) == On(inst.config, "mdns") => inst.table # None

\* The new instance took over the listeners and the old one was stopped.
Swap(w) ==
    /\ job[w].pc = "swap" /\ Startable(next)
    /\ engine' = next /\ next' = NoNext
    /\ applied' = (solo = w)
    /\ Returned(w)
    /\ UNCHANGED <<disk, files, globals, sidecars, store, live, fresh, solo, used>>

\* Mutant of SwapFails: the new instance is stored before the error is looked at.
SwapFailsNil(w) ==
    /\ job[w].pc = "swap"
    /\ IF Startable(next) THEN Fault ELSE UNCHANGED used
    /\ engine' = NoNext /\ next' = NoNext /\ applied' = FALSE
    /\ Returned(w)
    /\ UNCHANGED <<disk, files, globals, sidecars, store, live, fresh, solo>>

\* Mutant of SwapFails: Engine.mu is not given back on the error path.
SwapFailsLocked(w) ==
    /\ job[w].pc = "swap"
    /\ IF Startable(next) THEN Fault ELSE UNCHANGED used
    /\ applied' = FALSE
    /\ Returned(w)
    /\ UNCHANGED <<disk, files, globals, sidecars, store, swapping, solo>>

\* Mutant of SwapFails: a failed reload ends the request before its
\* reconcilers ran.
SwapFailsReturns(w) ==
    /\ job[w].pc = "swap"
    /\ IF Startable(next) THEN Fault ELSE UNCHANGED used
    /\ next' = NoNext /\ applied' = FALSE
    /\ Finish(w) /\ IF w = "gui" THEN Answer ELSE UNCHANGED admin
    /\ UNCHANGED <<disk, files, globals, sidecars, store, engine, live, fresh, solo>>

\* The new instance is discarded and the old one goes on.  Whether the new
\* cache had been registered depends on which plugin failed.
SwapFails(w) ==
    /\ job[w].pc = "swap"
    /\ IF Startable(next) THEN Fault ELSE UNCHANGED used
    /\ live' \in {live, live \ {next.id}}
    /\ next' = NoNext
    /\ applied' = FALSE
    /\ Returned(w)
    /\ UNCHANGED <<disk, files, globals, sidecars, store, engine, fresh, solo>>

---------------------------------------------------------------------------

Reload(w) == WriteZoneData(w) \/ WriteHostsData(w) \/ Setup(w) \/ Swap(w) \/ SwapFails(w)

GuiStep == Save \/ PreReload \/ PostReload \/ Reconcile \/ Reload("gui")

AcmeStep == AcmeLoadRest \/ AcmeStore \/ Reload("acme")

Ask(a) ==
    \/ \E e \in Edits : OpenForm(a, e)
    \/ \E r \in Records : EditRecords(a, r)
    \/ \E h \in Hosts : EditHosts(a, h)
    \/ RestartEngine(a)

Next ==
    \/ \E a \in Admins : Ask(a) \/ SubmitForm(a)
    \/ GuiStep
    \/ AcmeLoad \/ AcmeStep
    \/ Reboot

Spec == Init /\ [][Next]_vars

\* A request that holds Service.mu and a reload of the ACME manager run on
\* goroutines of their own; a sync.Mutex hands itself to a waiter that has
\* waited a millisecond, so a form is not passed over for ever.
FairSpec ==
    /\ Spec
    /\ WF_vars(GuiStep) /\ WF_vars(AcmeStep)
    /\ \A a \in Admins : SF_vars(SubmitForm(a))

---------------------------------------------------------------------------
(* Properties *)

Quiet == \A w \in Reloaders : job[w].pc = "idle"

Ids == 0 .. (fresh - 1)

Instances ==
    [config : Configs, zone : Records, hosts : Hosts, vlans : SUBSET Vlans,
     table : Ids, store : Ids, id : Ids]

Forms == [pc : {"form"}, edit : Edits, settings : Settings]

Jobs == [pc : {"save", "pre", "load", "store", "zone", "hosts", "setup", "swap", "post", "tail"},
         kind : {"settings", "records", "hosts", "restart", "acme"}, config : Configs]

\* The types, in parts: the files and the values set from them,
FilesTyped ==
    /\ disk \in Configs /\ zone \in Records /\ hostsTxt \in Hosts
    /\ vlans \in SUBSET Vlans /\ names \in Hosts

\* what lives beside the engine,
BesideTyped ==
    /\ table \in Ids /\ store \in Ids
    /\ browse \in [table : Ids, all : BOOLEAN]
    /\ advert \in {NoAdvert} \cup [settings : Settings]
    /\ clients \in {NoClients} \cup [hosts : Hosts, table : Ids]

\* the engine,
EngineTyped ==
    /\ engine \in Instances /\ next \in {NoNext} \cup Instances
    /\ live \subseteq Ids

\* the requests and the reloads, the history and the bounds.
AdminTyped == admin \in [Admins -> {NoForm, [pc |-> "busy"]} \cup Forms]
JobTyped == job \in [Reloaders -> {NoJob} \cup Jobs]
HistoryTyped == applied \in BOOLEAN /\ solo \in Reloaders \cup {"none"}
UsedTyped == used \in [requests : 0 .. MaxRequests, reloads : 0 .. MaxReloads,
                       faults : 0 .. MaxFaults, restarts : 0 .. MaxRestarts]

\* Every variable has its type: whatever a reload fails at, there is a running
\* instance (Engine.instance is never nil), and every table, store and cache in
\* use was handed out before.
TypeOK ==
    /\ FilesTyped /\ fresh \in Nat \ {0} /\ BesideTyped /\ EngineTyped
    /\ AdminTyped /\ JobTyped /\ HistoryTyped /\ UsedTyped

\* Its inductive strengthening, Engine.mu: one reload at a time is between setting
\* up an instance and swapping it in, and that instance is there.
EngineHeld ==
    /\ \A w \in Reloaders : job[w].pc = "swap" => next \in Instances
    /\ \A w, o \in Reloaders : job[w].pc = "swap" /\ job[o].pc = "swap" => w = o

\* The three files render together at every moment, so that the process can
\* be started again after a stop anywhere: no record names a VLAN the settings
\* do not declare, although each request writes one file and the check spans
\* them.
DiskRenderable == disk.records \subseteq disk.settings.vlans

\* An engine set up from exactly the files on disk.
Serves(e, d) ==
    /\ e.config = d
    /\ e.zone = d.records /\ e.hosts = d.hosts
    /\ e.vlans = d.settings.vlans

\* After a reload that nobody disturbed, whatever failed or raced before it,
\* the running engine is the one the files on disk describe: the Corefile,
\* the zone data, the hosts and the VLANs it captured agree, it looks names
\* up in the table the browse goroutine fills, it logs to no closed store,
\* and "Clear DNS cache" reaches its cache.
AppliedIsServed ==
    applied /\ Quiet =>
        /\ Serves(engine, disk)
        /\ engine.table = table
        /\ engine.store \in {None, store}
        /\ engine.id \in live

\* The mDNS table exists and is browsed with the saved parameters exactly when
\* mDNS is on, the self-advertiser announces the saved settings or nothing.
MdnsFollows ==
    /\ (table # None) <=> On(disk, "mdns")
    /\ browse = Browsing(disk, table)
    /\ advert \in {NoAdvert, Announcing(disk)}

\* Once a request is answered, with or without an error, what lives beside
\* the engine follows settings.yaml and hosts.yaml: the mDNS table, its browse
\* goroutine and the self-advertiser do, and client names are taken from the
\* saved hosts and from that same table.
SidecarsFollowDisk == Unlocked => MdnsFollows /\ clients = NamesFrom(disk, table)

\* A request that reaches the service is answered: neither Service.mu nor
\* Engine.mu stays held, whichever step fails.
RequestsAnswered == \A a \in Admins : admin[a].pc # "idle" ~> admin[a].pc = "idle"

---------------------------------------------------------------------------
(* The inductive invariant behind DiskRenderable and SidecarsFollowDisk *)

\* The shape of what the steps below take apart.
Shaped ==
    /\ disk = [settings |-> disk.settings, records |-> disk.records, hosts |-> disk.hosts]
    /\ job = [w \in Reloaders |-> job[w]]
    /\ fresh \in Nat \ {0}

\* While Service.mu is held nobody else writes the three files: until its save
\* a request's configuration differs from them in its own file only, and
\* afterwards not at all.
RequestCurrent ==
    LET g == job["gui"]
    IN  /\ g.pc = "save" =>
               \/ g.kind = "settings" /\ g.config = [disk EXCEPT !.settings = g.config.settings]
               \/ g.kind = "records"  /\ g.config = [disk EXCEPT !.records = g.config.records]
               \/ g.kind = "hosts"    /\ g.config = [disk EXCEPT !.hosts = g.config.hosts]
        /\ g.pc = "save" => Validate(g.config)
        /\ g.pc \in {"pre", "zone", "hosts", "setup", "swap", "post", "tail"} => g.config = disk
        /\ g.pc \in {"pre", "post", "tail"} => g.kind = "settings"
        /\ g.pc \in {"idle", "save", "pre", "zone", "hosts", "setup", "swap", "post", "tail"}

\* reloadFn never runs the reconcilers of SaveSettings.
AcmePlain ==
    /\ job["acme"].pc \in {"idle", "load", "store", "zone", "hosts", "setup", "swap"}
    /\ job["acme"].pc # "idle" => job["acme"].kind = "acme"

\* How far SaveSettings has brought what lives beside the engine: nothing is
\* touched before the save nor by the other requests; from mdnsPreReload on a
\* table is there if it will be needed; after mdnsPostReload only the client
\* names are left.
SidecarsAlong ==
    LET g == job["gui"]
        under == g.pc \in {"zone", "hosts", "setup", "swap"}
    IN  /\ g.pc \in {"idle", "save"} \/ (under /\ g.kind # "settings")
               => MdnsFollows /\ clients = NamesFrom(disk, table)
        /\ under \/ g.pc = "post" => (On(disk, "mdns") => table # None)
        /\ g.pc = "tail" => MdnsFollows

ServiceInv ==
    Shaped /\ DiskRenderable /\ RequestCurrent /\ AcmePlain /\ SidecarsAlong

---------------------------------------------------------------------------
(* The inductive invariant behind AppliedIsServed *)

\* An instance whose plugins captured what is there now.
Captured(e) ==
    /\ Serves(e, disk)
    /\ e.table = IF On(disk, "mdns") THEN table ELSE None
    /\ e.store \in {None, store}
    /\ On(disk, "querylog") \/ e.store = None

\* While nobody disturbs reloader w the other one is idle, its configuration is
\* that of the files (once a request has saved it), and what it has set or
\* written so far is that configuration's, up to the instance it has built.
Undisturbed(w) ==
    LET j == job[w]
    IN  /\ \A o \in Reloaders : o # w => job[o].pc = "idle"
        /\ j.pc \in {"load", "store", "zone", "hosts", "setup", "swap"} => j.config = disk
        /\ j.pc \in {"save", "pre", "store", "zone", "hosts", "setup"}
               => vlans = j.config.settings.vlans
        /\ j.pc \in {"hosts", "setup"} => zone = j.config.records
        /\ j.pc = "setup" => hostsTxt = j.config.hosts
        /\ j.pc = "swap" => Captured(next) /\ next.id \in live
SoloCaptures == \A w \in Reloaders : solo = w => Undisturbed(w)

\* As long as the last reload counts as applied, the engine is what it built, no
\* table is about to be made, and a reload of the ACME manager under way has read
\* the saved settings.
AppliedCaptures ==
    applied =>
        /\ Captured(engine)
        /\ (\A w \in Reloaders : job[w].pc # "swap") => engine.id \in live
        /\ job["gui"].pc # "pre"
        /\ job["acme"].pc \in {"load", "store"} => job["acme"].config.settings = disk.settings

AppliedInv == SoloCaptures /\ AppliedCaptures
=============================================================================
