# BrambleGate in TLA+

A specification of the parts of BrambleGate in which several goroutines, files
and process restarts meet, the TLC runs that check it on small instances, and
TLAPS proofs of its main invariants for every instance.

`PROJECT.json` is the index: components, runs, mutants, the map from
definitions to source lines, findings, hazards and theorems.

## 1. The system

BrambleGate is one process: an embedded CoreDNS engine with plugins of its own,
a web GUI that edits three YAML files and reloads the engine in place, an ACME
manager that keeps the certificate of the encrypted listeners, and goroutines
that browse, announce and name hosts beside the engine.

| Component | State it keeps | Operations | Shared with | What makes it correct |
|---|---|---|---|---|
| vlancache | direct tier per VLAN bucket, scoped tier per question, flush epoch, singleflight calls | ServeDNS, background refresh, flush all / one name | one registry of live caches, flushed from the GUI | a flush is final; no client gets another network's answer; every query ends |
| ACME manager | `certs/` (key, certificate, issuer marker, cache per CA), its configuration | check, promote from cache, obtain, install, cache, reload | the files with start-up and every reload; settings with the GUI | files agree; no CA is asked early; it settles |
| start-up (`internal/cli`) | none of its own | bootstrap pair, open what lives beside the engine, `engine.New`; `reloadFn` for the manager | everything below | starts from any files a stopped process left |
| engine | the running CoreDNS instance, under `Engine.mu` | New, Reload, Stop | called by the GUI and by `reloadFn` | a failed reload leaves the old instance serving |
| GUI service | `Service.mu`; mDNS table and browser, advertiser, client names | save settings, edit records / hosts, restart the engine, flush | files, process-wide values, engine | what is saved is valid, is served, and is followed by everything beside the engine |
| configgen / store / model | three YAML files, `.runtime/zones` | Validate, Render, write atomically | all of the above | one check across three files |
| process-wide values | `vlanmatch.Current`, the injected mDNS table, `querylog.CurrentStore`, host names | set by the service and by `reloadFn`, captured by plugin set-up | plugins | captured values belong to the configuration they are captured for |
| query log | ring per capacity, rollups, store (channel, writer goroutine, SQLite) | ServeDNS, Record, flush, prune, retune, drain on close; aggregates | handler, GUI pages, settings saves, end of the process | what is accepted is written once and in order; tiers agree; one ring per process |
| mDNS bridge, mdnssd | table of discovered hosts; per browse: cache with TTLs | hear, poll, upsert, remove, expire, clear; publish, promote | listener goroutines, DNS handler, GUI | only live hosts are answered; live ones are not dropped; entries follow the settings |
| self-advertiser | registrations, some of them in flight | reconcile | service | announced set follows the settings |
| client names | names per client address, resolve queue | observe, resolve, sweep | query log | never blocks; who is seen gets a name |
| localrecords, hosts | none after set-up | answer per VLAN, aliases, designated resolvers | zone data, VLAN table | split-horizon answers as written; nothing hidden leaks |

Behaviours that are hard here: a fetch in flight across a flush; coalesced
queries of clients that must not share an answer; a process stop between two
renames; a settings change while a CA is asked; a reload by the ACME manager,
which takes no lock of the GUI, in the middle of a save; a reload that fails
after the file was written; values captured by set-up before or after they were
replaced; a store that is closed while its writer has a batch in hand; browses
that were cancelled and still report; registrations that finish after the next
change; edits of one file that decide what another one may contain. The hazards in `PROJECT.json` list them line by line.

## 2. The modules

    VlanCache      <- MCVlanCache       VlanCacheProofs
    AcmeManager    <- MCAcmeManager     AcmeManagerProofs
    ConfigService  <- MCConfigService   ConfigServiceProofs
    DurableLog     <- QueryStore (refines)  <- MCQueryStore     QueryStoreProofs
    QueryLog       <- MCQueryLog        QueryLogProofs
    MdnsBrowser    <- MdnsBridge        <- MCMdnsBridge         MdnsBridgeProofs
    Advertiser     (run directly)
    ClientNames    <- MCClientNames
    LocalRecords   <- ConfigGen <- SplitHorizon <- MCSplitHorizon   SplitHorizonProofs

Each component module declares its parameters and bounds as CONSTANTS; the MC
module gives them small values; a proof module extends its component and TLAPS,
and `CommonFacts` (lemmas about the least of a set of numbers, finite sets,
functions and sequences that several proofs need). `MdnsBrowser`, `LocalRecords` and `ConfigGen` have no state: they are the
pure functions of their part, and `MdnsBridge` and `SplitHorizon` run them.

### VlanCache (plugins/vlancache)

* State: `direct` and `scoped` are the two tiers of `store`, `age` the order of a
  question's list, `epoch` the flush counter, `flight` singleflight's table, and
  `pc`/`req`/`fkey`/`gen`/`got` the locals of the goroutines. A worker runs
  `ServeDNS`, a refresher `refresh`, a flusher `clear` or `clearName`.
* Granularity: one action is what happens between two lock releases. The epoch
  check and the store it guards are one step because `ifCurrent` holds the read
  lock over both; the walk of a flush is a step per shard listing and per key,
  as `ccache.Walk` does it; the scoped tier is cleared in one step under `s.mu`.
  `getScoped` scans its slice after it has released the lock, so while a
  `clearName` compacts the lists in place the scan may miss any of the entries
  (`Scans`): it then finds a less specific one, or none.
* Data: an answer is the question, the version of the upstream's data it was read
  from, the client asked for, scope, kind, alias chain, TTL and time. `world` is
  the upstream; it changes at any time. Networks are sets of clients, so that
  containment is `\in` and the longest prefix the smallest set.
* Kinds of answer: success, denial, failure, truncated (never stored, but it may
  carry a scope) and uncacheable.
* Left out: key hash collisions, message bodies, an upstream echoing a scope of
  the other address family, the loop over several registered caches (each is
  flushed on its own; which ones are registered is ConfigService's part).

### AcmeManager (internal/acme, internal/cli)

* State: the files of `certs/` one by one, the process (`phase`), the listener's
  certificate (`served`), the manager's configuration and its place in
  `reconcile`, and two ghosts: `latest`, the CA's own books, and `hurt`, which
  says that an installation was cut short or lost a write.
* Granularity: every rename is a step, because the process may stop between any
  two and the GUI may reload there. `writePEM` of the bootstrap pair is not
  atomic: a stop leaves a truncated file.
* A certificate and its key share a serial; time is a small counter. Settings are
  reduced to what decides about certificates.
* Left out: the ACME exchange itself and the provider registry (`Obtain` is a
  step that may fail), the status page.

### ConfigService (internal/gui, internal/cli, internal/engine, internal/configgen)

* State: the three files; the two zone files; the process-wide values; what lives
  beside the engine; the running instance with everything its plugins captured;
  the instance under construction (`next`, present exactly while `Engine.mu` is
  held); vlancache's registry; per HTTP request its form; per reloader its place.
* Actions follow `SaveSettings`, `applyRecords`, `applyHosts` and `RestartEngine`
  line by line: render (which replaces the VLAN table before it validates), save,
  `mdnsPreReload`, zone data, hosts data, engine set-up, swap or failure,
  `mdnsPostReload` with `reconcileAdvertise`, and the remaining reconcilers.
  `reloadFn` shares the steps of the reload and takes no `Service.mu`. Settings
  handlers read and save in two critical sections (`OpenForm`, `SubmitForm`). The
  settings page sets every switch at once (`Pages`); the VLAN handlers add, rename
  or remove one VLAN of what they read (`Edits`, `Offered`).
* Tables, stores and instances have identities from one counter, so that "the same
  table" can be said.
* Abstractions: all set-up functions of one reload capture at one instant; the
  Corefile copy under `.runtime` (its errors are ignored, nothing reads it) and
  the plugin status registry are left out; `table` stands for both the injected
  table and `Service.mdns`, which are always set together; of what a file can get
  wrong only the check across files is kept; closing a store does not fail; the
  contents of files and tables are the other modules' part; the Windows reload
  path and edits of the files by hand are not modelled.

### DurableLog, QueryStore (plugins/querylog: store.go, store_lifecycle.go)

* `DurableLog` is what the store promises, in four variables: an entry is accepted
  or ignored once; accepted ones become rows in order, under ids that are never
  used again, or are given up in order; rows only disappear; nothing waits for ever.
* `QueryStore` has the channel and drop counter of each store, the writer's place,
  batch and ticker, the retune signal, the lifecycle operation under `storeMu`, the
  table with its id sequence, and the process. `select` is one action per case; a
  statement run with the context fails once it is cancelled; `Commit` may find the
  context cancelled since `BeginTx`. Any file operation may fail, and the process
  may die anywhere, within `MaxFaults`.
* The refinement mapping keeps `fresh`, `table` and `last` and makes `pending` the
  batch followed by the channel of the store whose goroutine runs. So an entry put
  into the channel of a closed store is *ignored*, one in a batch whose transaction
  failed is *given up*.
* Ghosts: `lost` (accepted and never a row), `room` (row cap of the last prune that
  worked plus what was written since). One file path; the branch for a changed path
  cannot be reached from the callers. Columns of a row are left out.

### QueryLog (plugins/querylog: handler, ring, stats, setup, log; GUI paging)

* State: per query where its `ServeDNS` is, its entry and the ring of the handler it
  came through; rings with buffer, head and size; the rollup; the rows; the parse
  under way, block by block. Ghosts: what was pushed to each ring, and `torn` (a
  reload that wanted another capacity failed). A process may start with the query
  log off; there is no ring then until a reload switches it on.
* The four maps of the rollup are one map from the combined key, of which each is a
  sum. The SQL aggregates (`Series`, `TopClients`, `ClientActivity`) are written as
  the sets and counts they select. The store only accepts or drops; how rows get
  there is QueryStore's part.

### MdnsBrowser, MdnsBridge (mdnssd, plugins/mdnsbridge, the service's mDNS part)

* `MdnsBrowser`: what a message and a poll do to one browse: refresh thresholds,
  expiry, known answers, instances. A message is what `parseAnswers` keeps: PTR with
  TTL, SRV, TXT, addresses.
* `MdnsBridge`: tables, listeners and browses made so far, the running handler's
  table, the operation that holds `Service.mu`. A browse hears any message at any
  time, or none; its callbacks are steps of their own, so a cancelled browse may
  still report into a table that was cleared. A query counts as asked although
  `SendQuery` may fail, as the code takes it. A glob is the set of values it
  matches, and the TXT condition of a selector is left out; a unit of time is a poll interval; callbacks and a cancelled browse's
  way out take less than one.
* Ghosts: `heard`, `latest`, `asked` (what was announced, and asked for), `undone`
  and `behind` (exceptions named in the properties, each one a disagreement listed
  below).

### Advertiser (plugins/mdnsadvertise), ClientNames (plugins/clientnames)

* `Advertiser`: what is tracked, the goroutines that register and unregister, and
  what the (external) responder announces. `Reconcile` is one step under the mutex;
  a registration enters the map when it is finished.
* `ClientNames`: the table, the bounded queue, the worker with the lookup or the
  sweep before it, the place of each query between its two critical sections, and
  the settings and hosts it was configured from, with gateway detection reduced to
  which VLANs have one. The ghost `dropped` has the clients that found the queue full.

### LocalRecords, ConfigGen, SplitHorizon (localrecords, configgen, selfip, model)

* `LocalRecords`: VLAN lookup, `effective`, `namePresent`, `buildAnswers`, glue and
  `ServeDNS` as functions of a loaded plugin and a query. The code's recursion over
  aliases has no bound; here a chain longer than there are names ends in
  `Exhausted`, which stands for the stack exhaustion of the process.
* `ConfigGen`: `Validate` check by check, the synthesized records of the ACME domain
  with address detection, the designated-resolver records, the zones, the server
  blocks (one per listener, the first of which consumes the observability directives),
  and the order in which a block asks: the stock hosts plugin (external),
  `mdnsbridge` over a discovery table, `localrecords`. A CIDR is the set of addresses it
  holds and its first one; names are opaque, with their ancestors.
* `SplitHorizon`: the three files, the machine's addresses, the current VLAN table,
  the serving instance, and a form in its stages (settings read, records read and
  checked, submitted); one action per operation of the service and per handler in
  front of it. The update form goes on when its record is not found, and the type of
  a submitted record is upper-cased on the way in (`Decoded`). The instance keeps the
  VLAN table that was current when it was set up. What the discovery table holds is a
  choice per query (`BridgePool`); how it comes to hold it is MdnsBridge's. Requests are serial here
  (`Service.mu`); their overlap with the ACME reload is ConfigService's.

## 3. The runs

| Run | Checks | Shows |
|---|---|---|
| `cache_flush` | TypeOK, FlushedStaysGone, EveryFlushEnds | a flush, of everything or of a name reached through an alias, against a query and a refresh, with fresh, near-expiry, stale and expired hits and changing upstream data |
| `cache_sharing` | AnswerAppropriate, ScopedBounded, FlightsAreLed, EveryQueryEnds | two queries at once from three addresses in two VLANs, stored and truncated answers of every scope and failed calls, a full scoped list, a full shard: queries wait for each other's calls, share the answer, or fetch again when it is scoped to another address |
| `acme` | TypeOK, CacheTruth, NotReissuedEarly, FilesAgree, Converges | two settings changes, one failing operation, one process stop anywhere |
| `service` | TypeOK, DiskRenderable, AppliedIsServed, SidecarsFollowDisk, RequestsAnswered | two requests, one reload of the ACME manager, one failing step, one restart, in every order |
| `query_store` | TypeOK, RowsBounded, TuningReachesTicker, Implements, LifecycleEnds | a settings change, a failing statement, close or crash, and a restart against the writer: it implements DurableLog, its table stays bounded, a new interval arrives, and every close ends |
| `query_log` | TypeOK, RingHoldsNewest, SnapshotIsNewest, OneRing, TiersAgree, ActivityAddsUp | two queries at once over two blocks, wrapping rings and buckets, a reload that may fail half-way: ring, rollup and rows say the same |
| `mdns` | TypeOK, KnownIsListed, AskedBeforeDropped, AnswersWereHeard, ServedAsConfigured, OneListenerAsConfigured | an instance that comes, moves to another host and goes, with messages lost or repeated, while mDNS is switched on and off, the browse parameters change, a device is promoted or its record deleted, a save is rejected or its reload fails |
| `records` | TypeOK, DiskStaysValid, AnswersAsConfigured, NothingLeaks, DesignatedIsReachable, ServesOneConfiguration | any three edits from any saved settings, forms left open across them, a failing reload, changing interfaces: what each client is told about each name against a definition of its own |

Four runs are expected to be violated. Each states what a comment or a document
of the repository says, and its counterexample is a finding:

* `query_close`: a graceful end loses entries, because a batch that fills up after
  the cancellation is flushed with the cancelled context and dropped.
* `mdns_address`: a promoted name keeps answering with the address its device had
  before, since addresses of a known instance are only ever added.
* `advertise`: a settings save during a registration leaves an announcement that
  nobody wants any more, or two of the same.
* `names`: a client dropped from the full queue is not resolved by a future query
  or a sweep, as the comment says; it stays without a name although its resolver
  answers.

### Disagreements without a run

Met while modelling, and reproduced with the model or read off one action:

* vlancache: `fetch` sets the scope of a shared answer only where it stores it
  (handler.go:351), so a truncated answer scoped to one address goes to everyone of
  the VLAN who waited, against fetchResult's comment (handler.go:275);
  `AnswerAppropriate` keeps such an answer to its VLAN and asks no more. A failed
  refresh caches its SERVFAIL over the entry
  the comment on `refresh` says is left in place; with serve_stale on, a SERVFAIL
  is servable beyond `maxFailTTL` (store.go:65). After a failed reload the running
  cache is no longer in the registry, and "Clear DNS cache" misses it (setup.go:57).
* ACME: the self-signed fallback switched on in a running process has no pair until
  a restart (cli.go:127; docs/encrypted-dns.md:38 says immediately). A stop between
  the renames of key and certificate leaves a pair no later start can load
  (manager.go:308). A reload that fails after an installation is never repeated
  (manager.go:196). The bootstrap pair is written in place (selfsigned.go:88). A
  marker write that fails or is cut off makes the next check ask the CA again
  (manager.go:314). The last two and the mismatched pair are the cases `hurt` exempts.
* Service: the ACME manager's reload reads the files without `Service.mu` and may
  put an older configuration back after a save (cli.go:322). The query log switched
  on in the GUI is not persisted until the next reload, since set-up captures the
  store before it is opened (service.go:487). Two settings forms at once lose one
  edit (handlers_ui.go:504). `SetMDNSPublished` and `PromoteMDNS` read `s.mdns`
  outside the mutex (service.go:349). `SetHostNames` is not called by edits of the
  hosts file, so attribution follows them only after the ACME manager's reload.
* mDNS: a save that changes the browse parameters keeps the table's old
  configuration (service.go:555-568, against :400-402; ghost `behind`), and so does
  `render`, which sets the VLANs before it validates (:783). A cancelled browse can
  take out what its successor has just added (`undone`). A browse whose socket
  cannot be opened is not tried again (`BrowseFails`).
* Query log: a reload that wanted another capacity and failed leaves the GUI on an
  empty ring (setup.go:98; ghost `torn`).
* Records: when the domain of the certificate lies under `home.arpa`, names under it
  without an answer are passed on (localrecords/handler.go:90), although nothing
  below `home.arpa` should ever leak (configgen.go:26); so are, wherever the domain
  lies, its records on a VLAN they are suppressed on, instead of an authoritative
  NXDOMAIN (docs/local-records.md:66). `NothingLeaks` says what holds outside these
  two cases. Two alias records that name each other pass `Validate`, and a query for
  either recurses until the process ends (localrecords/handler.go:220); the answer
  `Serve` gives then is "nobody", and `AnswersAsConfigured` promises nothing for it.
  A form for (name, mdns) whose record was not there when it was read is
  not refused (handlers_ui.go:256), so that submitted after a promotion it addresses
  the linked record. A start fails when the machine has lost every address its own
  domain was to resolve to, although a missing address is not to fail a render
  (selfip.go:88-91; `DiskStaysValid` names the case). The JSON
  handler upper-cases the type, so that "mdns" cannot be submitted (server.go:268).
  Shadow warnings of a records edit are discarded.

`AppliedIsServed` says what remains true beside several of these: one reload that
nobody disturbs repairs everything an earlier failure or overlap left behind,
including the registry and a store that was closed under the running handler.

### Bounds

Every bound is a constant named in the module. They are the smallest at which
the interesting cases occur: two processes per race, one more network than the
scoped tier holds, a shard of one entry so that eviction happens, two CAs and
two domains so that every switch and the way back exist, certificates that fall
due within the run, one fault and one stop (each property is about recovery from
one), two requests so that the second meets what the first left. The `service` run has
one admin and one VLAN, so its two requests are sequential: the race with the other
reloader is in it, the race of two forms, a rename and several VLANs are covered by
the theorems only. `cache_flush` has one bucket, hence one direct key in one shard,
and one network; walks over several shards are the theorem's. `cache_sharing` leaves
out denials, filed as successes are, uncacheable answers, dropped as truncated ones
are, and refreshes. `acme` gives
certificates a lifetime of at least `RenewBefore`, which validate.go:190 does not
enforce: below it the manager would ask again at every check. `query_store`: one
settings change per run; a channel of one and a batch of two, so
that a full channel, a full and a part-filled batch all occur; two stores, so that
a handler can hold the older one. `query_log`: rings of one and two, two buckets
and a clock that goes round them. `mdns`: TTLs of two polls
and of five, the smallest for which the first refresh threshold falls on a poll
before the expiry, so that an instance may also be announced for longer or shorter
than before, and a clock that outlives both; three messages, so that an instance can come, move and be heard
of again. `records`: three edits from any saved settings are enough for a record,
a settings change its validity depends on and an edit through a form opened
before (opening one counts as an edit); one discovery table, with a device that is
there and one that is away; the pool has an alias loop on one VLAN only, hidden, overridden and linked
records, an alias and a hosts entry at the name of the discovery query,
overlapping VLANs and refused settings. Symmetry is used in
`query_log` only, which checks no liveness.

`CHECK_DEADLOCK FALSE` is said where the modelled part may really be done: a
process without a manager, or one whose bounded requests are spent.

### Fairness

* `VlanCache` (`cache_flush`, `cache_sharing`): weak fairness of every goroutine and
  flush. The Go scheduler runs
  what can run; `Next` returns because forward bounds each exchange.
* `AcmeManager`: weak fairness of the start-up and of the manager's loop (a
  supervisor restarts the container, timers fire), strong fairness of
  `ObtainSucceeds`: the CA issues if it is asked again and again.
* `ConfigService`: weak fairness of the request that holds `Service.mu` and of the
  ACME reload; strong fairness of a waiting form, since a Go mutex goes to a
  waiter that has starved for a millisecond.
* `QueryStore`: weak fairness of the writer between two selects and of the
  lifecycle operation under `storeMu`; strong fairness of `Receive`, `FlushTick` and
  `Done`, since `select` picks at random among the cases that are ready.
* `ClientNames`: every client keeps sending queries and is served, the worker gets
  to its queue and its ticker (strongly, for the same reason), and the resolvers
  answer in the end. The violation is one *in spite of* all of that.
* `QueryLog`, `MdnsBridge`, `Advertiser` and `SplitHorizon` check safety only.

Nothing is assumed about time, upstream changes, requests, faults or stops.

## 4. The proofs

All are for arbitrary constants, within the named assumptions: any number of
goroutines, names, records, networks, instances or requests, and any bounds. Every
invariant of every passing run is stated by a theorem; each inductive
invariant was checked by TLC on the run's instance before it was proved.

* `VlanCacheProofs`: `TypeCorrect` and `FlushIsFinal`. `FlushedStaysGone` is not
  inductive: an old entry may be in the store while a flush is walking. `FlushInv`
  adds that no leader holds a future epoch, that an answer that would still pass
  `ifCurrent` is as new as every flush begun so far, and that an entry older than
  a running flush that covers it is ahead of the walk. The lemma `StoreStep` is
  the heart: it is where the epoch check is used. `CallsAreLed` is inductive as it
  stands. `AnswersAreMeant` needs `SharingInv`: each tier files an answer under what
  it was asked for or scoped to, and a process works under one of the two keys of
  its request with an answer to that request. `ScopedStaysBounded` needs that a
  list is finite and has an oldest entry to drop.
* `AcmeManagerProofs`: `AcmeInductive`, and from it `AcmeTyped`, `CacheIsTrue`,
  `NoEarlyReissue`, `FilesStayInAgreement`. `AcmeInv` says for each place of
  `reconcile` which file already is the held pair's and that, unless something was
  cut short, the CA's last certificate is cached or on its way there. There is one
  lemma per conjunct and one case per action.
* `ConfigServiceProofs`: `ServiceInductive`, and from it `FilesAlwaysRender` and
  `SidecarsFollow`. `ServiceInv` says how far the holder of `Service.mu` has come:
  before its save its configuration differs from disk in its own file only, after
  it not at all (`RequestCurrent`); `reloadFn` never runs the reconcilers
  (`AcmePlain`); the table is there from `mdnsPreReload` on and only the client
  names are behind after `mdnsPostReload` (`SidecarsAlong`). `ServiceTyped` needs
  `EngineHeld`: one reload at a time is between set-up and swap, and the instance
  it swaps in is there. `ReloadIsServed` rests on `AppliedInv`: a reload that nobody
  disturbs has captured, step by step, what the files say, and the engine it left
  stays so until the next request begins.
* `QueryStoreProofs`: `StoreTyped`, `TuningArrives`, `RowsStayBounded` and
  `StoreImplements`. The types
  are proved part by part, each from the parts it needs. `TuningReachesTicker` and
  `RowsBounded` are inductive with the types; the latter needs how many rows the row
  cap's `DELETE` leaves, which follows from the ids without an induction. The
  refinement needs `WriterInv` besides the types: no
  goroutine runs without a current store or without a process, the channel of a
  store to come is empty, a flush has something to write and the last one leaves
  nothing behind. Then every action is one step of `DurableLog` or none: `Record`
  is `Accept` or `Ignore`, a row insert is `Write` of the batch's length, a failed one
  `GiveUp` of it, the goroutine's return and a crash `GiveUp` of everything, a prune
  `Forget`; receiving and draining move the border between batch and channel and
  change nothing pending. `StoreImplements` is the safety part of `Implements`,
  which the run `query_store` checks together with its fairness.
* `QueryLogProofs`: `LogTyped`, `BlocksShareRing` and `RingKeepsNewest`. Going back
  from the head of a ring is going back from the last push (`RingsAreTails`); the
  arithmetic of one step round the buffer is `StepsBack`. `ReloadInv` says where a
  reload stands: the blocks set up so far share the current ring, and the running
  ones do too unless a failure left them apart or another capacity was asked for; a
  block without a ring means that the log is off in all of them.
  `StatsMatchRows` is `TiersAgree`. It needs `CountedInv`, four parts that are
  inductive together: how old a query under way can be (`StartsInv`), which queries
  are rows (`RowsInv`), and that the totals and each bucket count the ended queries
  of their key or epoch (`CountsInv`, `BucketsInv`). The heart is `NoLapLate`: a
  query counted within `MaxLatency` of its start never meets a slot that already
  belongs to a later lap, so that no bucket is taken back and none loses what it
  counted. `SnapshotsHoldNewest` is `SnapshotIsNewest`: the walk back from the head
  keeps, slot by slot, the places of the entries that match (`SnapshotSelects`), and
  the pages, which are adjacent pieces of one sequence, join to it (`PagesAreAll`).
  `ActivityMatchesSeries` is `ActivityAddsUp`: the buckets of a window cover it
  (`BucketsCover`), clients can always be ranked (`Ranks`), the ranked ones
  and the folded remainder part the rows of each bucket (`ActivityAdds`), and the
  first n of the ranking are a top n as SQL's `LIMIT` may choose it (`FirstAreTop`).
* `MdnsBridgeProofs`: `BridgeTyped`, and over the shape of the state (`Shaped`) one
  invariant per promise. `OneListener` and `TableAsConfigured` need what holds in the
  middle of a save (`ListenerInv`, `ServedInv`). `AnswersHeard` relates the table's
  clock to the ghost of what was announced (`HeardInv`), `DroppedWasAsked` the
  refreshes sent to the thresholds passed (`AskedInv`), and `KnownListed` says that
  the table's entry outlasts the browse's record of the instance, or a report that
  makes it do so is under way (`KnownInv`).
* `SplitHorizonProofs`: `HorizonTyped`, `FilesStayValid`, `OneConfigurationServes`,
  `ToldAsConfigured`, `NamesDoNotLeak` and `DesignatedStaysReachable`. The inductive
  invariant is small (`ServingInv`: the files pass the validation together, and what
  serves was rendered from files that did, with their own VLAN table although
  rejected edits replace the current one; `EditInv` adds forms and bounds); the work
  is in what one valid configuration answers. Every server block has the same chain
  of plugins (`Blocks`), and what hosts and the bridge leave to `localrecords` is
  `Served` there. The VLANs of a valid configuration do not
  overlap, so the first match is the only one (`OneHorizon`). Validation and address
  synthesis leave records whose values fit their types and at most one alias per
  name (`LoadedFit`). The recursion of `buildAnswers` unfolds one call at a time
  (`Calls`). A chain is the least set closed under the aliases (`PathLeast`); a call
  that ends has answered what is promised along it (`EndsAsPromised`), one on a
  chain of aliases only never ends (`LoopsNeverEnd`), and any other ends within as
  many calls as there are names (`OthersEnd`), so that `Exhausted` stands for an
  endless recursion and for nothing else (`AddressAnswer`). `ToldAsConfigured` is
  about every owned name that no hosts entry or device has taken and whose aliases
  end, and says also that what is declared is not left to the next plugin.

The library's induction theorems cannot be used with the provers at hand. Where an
argument is by induction over numbers, the least number at which it would fail is
taken instead (`LeastNat` in `CommonFacts`): so for the depth of calls in
`SplitHorizonProofs`, where it also shows that the recursive function of
`BuildAnswers` is defined at all, and in `QueryLogProofs` for the walk of `Snapshot`
and the joined pages. Sums over finite sets are taken apart the same way, once, in
`SumOfParts` (the counts of disjoint parts add up to the count of their union), and
`ListedInOrder` lists any finite set under a strict total order in that order; both
are in `CommonFacts`.

`Snapshot` and `Ranked` are written so that the prover can expand them: the loop of
`Ring.Snapshot` as a recursive function over its slots, and the result of `sort.Slice`
as the listing in order, where `SelectSeq` and `SortSeq` have no definition it can
unfold. `SnapshotIsNewest` and `ActivityAddsUp` speak of every filter and of any
number of clients shown.

Assumptions, each evaluated by TLC on its run. `CacheAssumption`, `AcmeAssumption`,
`ServiceAssumption`, `StoreAssumption`, `QueryLogAssumption`, `TTLAssumption` and the
two `BoundsAssumption`s give the constants their sorts; the one of `QueryLog` adds that
the queries of a run are finite in number, that addresses are ordered, as the
tie-break of `ClientActivity` compares them, and that a query takes less time than
all buckets but one span (forward gives up within seconds, the buckets span a day). `OutcomeAssumption`: a plugin
that claims an answer sets its verdict with its source, as the three that do so do.
`MessageAssumption`, `SettingAssumption`, `BoundAssumption`: messages are what
`parseAnswers` keeps, and settings name known services. `WithinAssumption`: names are
finite in number, the ancestors of a name are in line, as the suffixes of a
domain name are, and no two names lie under each other. `ZonesAssumption`: `home.arpa`, `resolver.arpa` and the name of the
discovery query are among the names. `PoolsAssumption`: settings have the fields of
`model.Settings`, a listener is one of the five (or has a bad port), the machine's
addresses are in some network, and two CIDRs are nested or disjoint.

The proof of `DesignatedIsReachable` showed the property too strong as it was first
stated: an alias record or a hosts entry at `_dns.resolver.arpa` itself is let
through (hosts entries anywhere, records because `resolver.arpa` is an owned zone)
and takes the discovery query away from `buildSVCB`. The property now excepts it, as it
did the operator's own records of the domain, and the pools of the run contain both.

Only model-checked: all liveness, with it the fairness of `Implements`, which is out
of the prover's reach; and the two components whose only runs are expected
violations, `Advertiser` and `ClientNames`.

## 5. The plan

1. Done: every component of the table above, modelled and checked; the theorems of
   section 4.
2. A run with two forms at once, for the lost update of the settings handlers; glob
   matching against a reference definition.

## 6. Not modelled, and why

Templates and pages (presentation), the Corefile's text, parsing of the settings
forms and of plugin directives, DNS stamp encoding and version (no state), sockets
and the kernel's routing table (I/O), the ACME protocol, the DNS providers, the
mDNS responder and SQLite (libraries; modelled from how they are used where they
matter), plugin status flags (display), the Windows reload path (not a deployment
target), the acceptance program and build tools.

## 7. Running

    tlc -workers 2 -config MCConfigService.cfg MCConfigService
    tlapm ConfigServiceProofs.tla

The `cache_sharing`, `service`, `mdns`, `query_log` and `records` runs take one and a half to two
minutes; the others are shorter. Definitions
marked as mutants in the modules are plausible bugs: put in place of the
definition named in `PROJECT.json`, each makes its run fail.
