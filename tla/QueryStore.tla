----------------------------- MODULE QueryStore -----------------------------
(***************************************************************************)
(* The durable store of the query log (plugins/querylog/store.go and       *)
(* store_lifecycle.go): Record's buffered channel, the writer goroutine    *)
(* with its batch, the flush and prune tickers and the retune signal, the  *)
(* drain at Close, and the process-wide Store that settings saves, reloads *)
(* and the end of the process open, tune and close.                        *)
(*                                                                         *)
(* Callers always pass the one path below the configuration directory      *)
(* (cli.go:167, service.go:218), so there is one file and the branch of    *)
(* ReconcileStore for a changed path does not arise.  Of the stores a      *)
(* process opens one after the other only the newest has a goroutine; of   *)
(* the older ones the channel is left, which a handler may still hold.     *)
(***************************************************************************)
EXTENDS Integers, Sequences, FiniteSets

CONSTANTS
    Entry,        \* the completed queries, each recorded once
    Stamp,        \* the time an entry's query began
    BufferSize,   \* storeWriteBufferSize
    BatchSize,    \* storeFlushBatchSize
    Tuning,       \* [retention, maxRows, interval] a setting may ask for
    MaxOpens,     \* bound on the stores opened
    MaxNow,       \* bound on the clock
    MaxFaults,    \* bound on failing file operations
    MaxSaves,     \* bound on settings saves and reloads
    MaxBoots      \* bound on process starts

ASSUME StoreAssumption ==
    /\ Stamp \in [Entry -> Nat]
    /\ BufferSize \in Nat \ {0} /\ BatchSize \in Nat \ {0}
    /\ Tuning \subseteq [retention : Nat, maxRows : Nat, interval : Nat \ {0}]
    /\ {MaxOpens, MaxNow, MaxFaults, MaxSaves, MaxBoots} \subseteq Nat

VARIABLES
    fresh,      \* entries whose query has not completed yet
    channel,    \* per store: the write channel
    dropped,    \* per store: the counter of entries refused by a full channel
    opened,     \* the number of stores opened so far; the newest one's identity
    current,    \* currentStoreVal, 0 for nil
    held,       \* QueryLog.Store of the running handler, 0 for nil
    writer,     \* where the newest store's goroutine is
    batch,      \* its batch
    ticked,     \* whether the flush under way is the ticker's
    cancelled,  \* whether its context is cancelled
    tuning,     \* retentionDays, maxRows and flushInterval of the newest store
    ticker,     \* the interval its flush ticker is armed with
    retune,     \* whether a retune signal is buffered
    life,       \* the lifecycle operation under storeMu
    table,      \* the rows of the queries table by id
    last,       \* sqlite_sequence: the largest id ever used
    phase,      \* "up", "stopping" (the engine is stopped), "down"
    now, faults, saves, boots,
    lost,       \* ghost: accepted entries that will never be rows
    room        \* ghost: maxRows of the last prune that worked, and rows since

storeVars == <<channel, dropped, opened, current>>
writerVars == <<writer, batch, ticked, cancelled, ticker, retune>>
fileVars == <<table, last, room>>
boundVars == <<now, faults, saves, boots>>
vars == <<fresh, channel, dropped, opened, current, held, writer, batch, ticked,
          cancelled, tuning, ticker, retune, life, table, last, phase,
          now, faults, saves, boots, lost, room>>

Store == 1..MaxOpens
Elements(s) == {s[i] : i \in DOMAIN s}

\* Entries on their way to the table: the batch, then the channel behind it.
Pending == IF writer = "done" THEN <<>> ELSE batch \o channel[opened]

\* "age" and "rows" are the two statements of prune, "insert" and "commit" flush(ctx)
\* before BeginTx and before Commit, "last" is the final flush.
WriterAt == {"done", "age", "rows", "loop", "insert", "commit", "drain", "last", "return"}
LifeAt == {"idle", "send", "off", "exit"}

\* The zero values of a Store's tunables.
NoTuning == [retention |-> 0, maxRows |-> 0, interval |-> 0]

Init ==
    /\ fresh = Entry
    /\ opened = 0 /\ held = 0
    /\ tuning = NoTuning
    /\ channel = [s \in Store |-> <<>>] /\ dropped = [s \in Store |-> 0]
    /\ current = 0 /\ writer = "done" /\ batch = <<>> /\ cancelled = FALSE
    /\ ticked = FALSE /\ ticker = 0 /\ retune = FALSE /\ life = "idle"
    /\ table = <<>> /\ last = 0
    /\ phase = "down"
    /\ now = 0 /\ faults = 0 /\ saves = 0 /\ boots = 0
    /\ lost = {} /\ room = 0

\* The process is gone, and everything in its memory.
ProcessEnds ==
    /\ phase' = "down" /\ held' = 0 /\ tuning' = NoTuning
    /\ channel' = [s \in Store |-> <<>>] /\ dropped' = [s \in Store |-> 0]
    /\ current' = 0 /\ writer' = "done" /\ batch' = <<>> /\ cancelled' = FALSE
    /\ ticked' = FALSE /\ ticker' = 0 /\ retune' = FALSE /\ life' = "idle"

-----------------------------------------------------------------------------
(* The handler's side *)

\* ServeDNS ends with Store.Record: a nil store is a no-op, a full channel drops
\* and counts.  A closed store still takes what its channel has room for.
Record(e) ==
    /\ phase = "up" /\ e \in fresh /\ Stamp[e] <= now
    /\ fresh' = fresh \ {e}
    /\ IF held # 0 /\ Len(channel[held]) < BufferSize
       THEN /\ channel' = [channel EXCEPT ![held] = Append(channel[held], e)]
            /\ lost' = IF held = opened /\ writer # "done" THEN lost ELSE lost \cup {e}
            /\ UNCHANGED dropped
       ELSE /\ dropped' = IF held = 0 THEN dropped
                          ELSE [dropped EXCEPT ![held] = dropped[held] + 1]
            /\ UNCHANGED <<channel, lost>>
    /\ UNCHANGED <<opened, current, held, writerVars, tuning, life,
                   fileVars, phase, boundVars>>

\* A reload builds the chain anew: the handler captures CurrentStore(), or is
\* not in the chain at all.
Reload ==
    /\ phase = "up" /\ saves < MaxSaves
    /\ saves' = saves + 1
    /\ held' \in {current, 0}
    /\ UNCHANGED <<fresh, storeVars, writerVars, tuning, life, fileVars,
                   phase, now, faults, boots, lost>>

-----------------------------------------------------------------------------
(* Lifecycle, under storeMu *)

\* A file operation that may fail, within the bound.
Faulty == faults < MaxFaults /\ faults' = faults + 1

\* OpenStore: schema and pragmas, the struct with its channels, SetTuning (which
\* leaves a retune signal behind), and the goroutine, which prunes first.
Open(t) ==
    /\ opened < MaxOpens
    /\ opened' = opened + 1
    /\ current' = opened + 1
    /\ writer' = "age" /\ batch' = <<>> /\ ticked' = FALSE /\ cancelled' = FALSE
    /\ tuning' = t /\ ticker' = 0 /\ retune' = TRUE

\* ReconcileStore with a path and no store: open one, or fail and stay without.
ReconcileOpen(t) ==
    /\ phase = "up" /\ life = "idle" /\ current = 0 /\ saves < MaxSaves
    /\ saves' = saves + 1
    /\ \/ Open(t) /\ UNCHANGED faults
       \/ Faulty
          /\ UNCHANGED <<opened, current, writerVars, tuning>>
    /\ UNCHANGED <<fresh, channel, dropped, held, life, fileVars, phase,
                   now, boots, lost>>

\* ReconcileStore with the path of the open store: SetTuning stores the three
\* atomics, then signals.
SetTuning(t) ==
    /\ phase = "up" /\ life = "idle" /\ current # 0 /\ saves < MaxSaves
    /\ saves' = saves + 1
    /\ tuning' = t /\ life' = "send"
    /\ UNCHANGED <<fresh, storeVars, held, writerVars, fileVars, phase,
                   now, faults, boots, lost>>

\* Mutant: the signal is dropped instead of buffered when nobody receives it.
SendRetuneUnbuffered ==
    /\ life = "send"
    /\ life' = "idle"
    /\ UNCHANGED <<fresh, storeVars, held, writerVars, tuning, fileVars,
                   phase, boundVars, lost>>

SendRetune ==
    /\ life = "send"
    /\ retune' = TRUE /\ life' = "idle"
    /\ UNCHANGED <<fresh, storeVars, held, writer, batch, ticked, cancelled, tuning,
                   ticker, fileVars, phase, boundVars, lost>>

\* ReconcileStore without a path, or CloseStore: cancel the context and wait.
\* Whatever has not been written yet depends on the writer from here on.
Close(op) ==
    /\ life = "idle" /\ current # 0
    /\ life' = op /\ cancelled' = TRUE
    /\ UNCHANGED <<fresh, storeVars, held, writer, batch, ticked, tuning, ticker, retune,
                   fileVars, lost>>

ReconcileOff ==
    /\ phase = "up" /\ saves < MaxSaves
    /\ saves' = saves + 1
    /\ Close("off")
    /\ UNCHANGED <<phase, now, faults, boots>>

CloseStore ==
    /\ phase = "stopping" /\ life = "idle"
    /\ \/ Close("exit") /\ UNCHANGED phase
       \/ current = 0 /\ ProcessEnds /\ UNCHANGED <<fresh, opened, fileVars, lost>>
    /\ UNCHANGED boundVars

\* The goroutine is done: the database is closed.  When that fails,
\* ReconcileStore returns before it forgets the store.
CloseReturns ==
    /\ life \in {"off", "exit"} /\ writer = "done"
    /\ Faulty \/ UNCHANGED faults
    /\ IF life = "exit" THEN ProcessEnds
       ELSE /\ current' = IF faults' = faults THEN 0 ELSE current
            /\ life' = "idle"
            /\ UNCHANGED <<channel, dropped, held, writerVars, tuning, phase>>
    /\ UNCHANGED <<fresh, opened, fileVars, now, saves, boots, lost>>

-----------------------------------------------------------------------------
(* The goroutine of the newest store *)

Writing(at) == writer = at /\ UNCHANGED <<fresh, held, opened, current, tuning,
                                          life, phase, now, saves, boots>>

\* A statement run with ctx fails once ctx is cancelled, and may fail by itself.
StatementFails == \/ cancelled /\ UNCHANGED faults
                  \/ Faulty

\* The flush ticker is made when the first prune is over.
Arm == ticker' = IF ticker = 0 THEN tuning.interval ELSE ticker

\* DELETE ... WHERE ts < cutoff; an error ends prune.
PruneByAge ==
    /\ Writing("age")
    /\ \/ /\ ~cancelled
          /\ table' = [i \in {j \in DOMAIN table :
                               Stamp[table[j]] >= now - tuning.retention} |-> table[i]]
          /\ writer' = "rows"
          /\ UNCHANGED <<faults, ticker>>
       \/ StatementFails /\ Arm /\ writer' = "loop" /\ UNCHANGED table
    /\ UNCHANGED <<channel, dropped, batch, ticked, cancelled, retune, last, room, lost>>

\* Mutant: OFFSET one too far.
ExcessLate(ids, maxRows) ==
    {i \in ids : \E t \in ids : i <= t /\ Cardinality({j \in ids : j > t}) = maxRows + 1}

\* The ids the row cap deletes: the row with exactly maxRows newer ones, and
\* everything older.
Excess(ids, maxRows) ==
    {i \in ids : \E t \in ids : i <= t /\ Cardinality({j \in ids : j > t}) = maxRows}

PruneByRows ==
    /\ Writing("rows")
    /\ \/ /\ ~cancelled
          /\ table' = [i \in DOMAIN table \ Excess(DOMAIN table, tuning.maxRows)
                         |-> table[i]]
          /\ room' = tuning.maxRows
          /\ UNCHANGED faults
       \/ StatementFails /\ UNCHANGED <<table, room>>
    /\ writer' = "loop" /\ Arm
    /\ UNCHANGED <<channel, dropped, batch, ticked, cancelled, retune, last, lost>>

\* select: an entry is received.  The cancelled context may lose this choice.
Receive ==
    /\ Writing("loop") /\ channel[opened] # <<>>
    /\ batch' = Append(batch, Head(channel[opened]))
    /\ channel' = [channel EXCEPT ![opened] = Tail(channel[opened])]
    /\ writer' = IF Len(batch) + 1 >= BatchSize THEN "insert" ELSE "loop"
    /\ UNCHANGED <<dropped, ticked, cancelled, ticker, retune, fileVars, faults, lost>>

\* select: the flush ticker.  An empty batch is left alone; after the flush the
\* ticker is armed again with the interval of then.
FlushTick ==
    /\ Writing("loop")
    /\ IF batch = <<>> THEN ticker' = tuning.interval /\ UNCHANGED <<writer, ticked>>
       ELSE writer' = "insert" /\ ticked' = TRUE /\ UNCHANGED ticker
    /\ UNCHANGED <<channel, dropped, batch, cancelled, retune, fileVars, faults, lost>>

\* flush returns: to the select, over the ticker's Reset if it was the ticker's.
FlushReturns(next) ==
    /\ batch' = <<>> /\ writer' = next /\ ticked' = FALSE
    /\ ticker' = IF ticked THEN tuning.interval ELSE ticker

\* select: the retune signal.
Retune ==
    /\ Writing("loop") /\ retune
    /\ retune' = FALSE /\ ticker' = tuning.interval
    /\ UNCHANGED <<channel, dropped, writer, batch, ticked, cancelled, fileVars, faults,
                   lost>>

\* select: the prune ticker.
PruneTick ==
    /\ Writing("loop")
    /\ writer' = "age"
    /\ UNCHANGED <<channel, dropped, batch, ticked, cancelled, ticker, retune, fileVars,
                   faults, lost>>

\* Mutant: leaving the select instead of the loop.
DoneLeavesSelect ==
    /\ Writing("loop") /\ cancelled
    /\ UNCHANGED <<writer, channel, dropped, batch, ticked, cancelled, ticker, retune, fileVars,
                   faults, lost>>

\* select: the context is done.  drain follows.
Done ==
    /\ Writing("loop") /\ cancelled
    /\ writer' = "drain"
    /\ UNCHANGED <<channel, dropped, batch, ticked, cancelled, ticker, retune, fileVars,
                   faults, lost>>

\* A batch that cannot be inserted is logged and forgotten.
Forget(next) ==
    /\ FlushReturns(next)
    /\ lost' = lost \cup Elements(batch)
    /\ UNCHANGED fileVars

\* BeginTx: refuses a context that is already cancelled.
BeginInsert ==
    /\ Writing("insert")
    /\ \/ ~cancelled /\ writer' = "commit"
          /\ UNCHANGED <<batch, ticked, ticker, fileVars, lost, faults>>
       \/ StatementFails /\ Forget("loop")
    /\ UNCHANGED <<channel, dropped, cancelled, retune>>

\* Mutant: the batch is not emptied after it was written.
InsertKeepsBatch(next) ==
    /\ table' = [i \in DOMAIN table \cup (last + 1)..(last + Len(batch)) |->
                   IF i <= last THEN table[i] ELSE batch[i - last]]
    /\ last' = last + Len(batch)
    /\ room' = room + Len(batch)
    /\ writer' = next /\ ticked' = FALSE
    /\ UNCHANGED <<batch, ticker, lost>>

\* Mutant: the id sequence does not advance.
InsertSameIds(next) ==
    /\ table' = [i \in DOMAIN table \cup (last + 1)..(last + Len(batch)) |->
                   IF i <= last THEN table[i] ELSE batch[i - last]]
    /\ room' = room + Len(batch)
    /\ FlushReturns(next)
    /\ UNCHANGED <<last, lost>>

\* The rows of the batch, under the next ids.
Insert(next) ==
    /\ table' = [i \in DOMAIN table \cup (last + 1)..(last + Len(batch)) |->
                   IF i <= last THEN table[i] ELSE batch[i - last]]
    /\ last' = last + Len(batch)
    /\ room' = room + Len(batch)
    /\ FlushReturns(next)
    /\ UNCHANGED lost

\* Commit: a context cancelled since BeginTx may have rolled the rows back.
CommitInsert ==
    /\ Writing("commit")
    /\ \/ Insert("loop") /\ UNCHANGED faults
       \/ StatementFails /\ Forget("loop")
    /\ UNCHANGED <<channel, dropped, cancelled, retune>>

Drain ==
    /\ Writing("drain")
    /\ IF channel[opened] # <<>>
       THEN /\ batch' = Append(batch, Head(channel[opened]))
            /\ channel' = [channel EXCEPT ![opened] = Tail(channel[opened])]
            /\ UNCHANGED writer
       ELSE writer' = "last" /\ UNCHANGED <<batch, channel>>
    /\ UNCHANGED <<dropped, ticked, cancelled, ticker, retune, fileVars, faults, lost>>

\* The final flush, with a context of its own.
FinalFlush ==
    /\ Writing("last")
    /\ \/ batch = <<>> /\ writer' = "return"
          /\ UNCHANGED <<batch, ticked, ticker, fileVars, lost, faults>>
       \/ batch # <<>> /\ Insert("return") /\ UNCHANGED faults
       \/ batch # <<>> /\ Faulty /\ Forget("return")
    /\ UNCHANGED <<channel, dropped, cancelled, retune>>

\* The goroutine returns and closes s.done; nobody reads the channel any more.
Return ==
    /\ Writing("return")
    /\ writer' = "done"
    /\ lost' = lost \cup Elements(channel[opened])
    /\ UNCHANGED <<channel, dropped, batch, ticked, cancelled, ticker, retune, fileVars, faults>>

-----------------------------------------------------------------------------
(* The process *)

\* run: ReconcileStore before engine.New, with or without a path; when it fails
\* the process does not start.
Boot ==
    /\ phase = "down" /\ boots < MaxBoots /\ life = "idle"
    /\ boots' = boots + 1 /\ phase' = "up"
    /\ \/ \E t \in Tuning : Open(t) /\ held' = opened + 1
       \/ held' = 0 /\ UNCHANGED <<opened, current, writerVars, tuning>>
    /\ UNCHANGED <<fresh, channel, dropped, life, fileVars, now, faults,
                   saves, lost>>

\* The signal to end: the servers are stopped first, so no more queries arrive.
StopEngine ==
    /\ phase = "up"
    /\ phase' = "stopping" /\ held' = 0
    /\ UNCHANGED <<fresh, storeVars, writerVars, tuning, life, fileVars,
                   boundVars, lost>>

\* The process dies at any point.
Crash ==
    /\ phase # "down" /\ Faulty
    /\ ProcessEnds
    /\ lost' = lost \cup Elements(Pending)
    /\ UNCHANGED <<fresh, opened, fileVars, now, saves, boots>>

Tick ==
    /\ now < MaxNow /\ now' = now + 1
    /\ UNCHANGED <<fresh, storeVars, held, writerVars, tuning, life, fileVars,
                   phase, faults, saves, boots, lost>>

-----------------------------------------------------------------------------
Next ==
    \/ \E e \in Entry : Record(e)
    \/ Reload
    \/ \E t \in Tuning : ReconcileOpen(t) \/ SetTuning(t)
    \/ SendRetune \/ ReconcileOff \/ CloseStore \/ CloseReturns
    \/ PruneByAge \/ PruneByRows
    \/ Receive \/ FlushTick \/ Retune \/ PruneTick \/ Done
    \/ BeginInsert \/ CommitInsert \/ Drain \/ FinalFlush \/ Return
    \/ Boot \/ StopEngine \/ Crash \/ Tick

Spec == Init /\ [][Next]_vars

\* A goroutine that can run runs; select picks among its ready cases at random,
\* so a case that is ready again and again is taken; ending the process goes on
\* to CloseStore.
Fairness ==
    /\ WF_vars(PruneByAge \/ PruneByRows \/ BeginInsert \/ CommitInsert
               \/ Drain \/ FinalFlush \/ Return)
    /\ SF_vars(FlushTick) /\ SF_vars(Receive) /\ SF_vars(Done)
    /\ WF_vars(SendRetune) /\ WF_vars(CloseReturns) /\ WF_vars(CloseStore)

FairSpec == Spec /\ Fairness

-----------------------------------------------------------------------------
(* Properties *)

\* The types, in parts: the entries on their way, with the channel's capacity,
FlowTyped ==
    /\ channel \in [Store -> Seq(Entry)] /\ batch \in Seq(Entry)
    /\ \A s \in Store : Len(channel[s]) <= BufferSize

\* the entries before and after,
EntriesTyped == fresh \subseteq Entry /\ lost \subseteq Entry

\* the stores, the goroutine and the process,
LifeTyped ==
    /\ opened \in 0..MaxOpens /\ current \in {0, opened} /\ held \in 0..opened
    /\ writer \in WriterAt /\ (opened = 0 => writer = "done")
    /\ life \in LifeAt /\ phase \in {"up", "stopping", "down"}

\* the flags, the tuning, the counters,
SignalsTyped == ticked \in BOOLEAN /\ cancelled \in BOOLEAN /\ retune \in BOOLEAN
TuningTyped == tuning \in Tuning \cup {NoTuning} /\ ticker \in Nat
CountersTyped == now \in Nat /\ faults \in Nat /\ saves \in Nat /\ boots \in Nat
DroppedTyped == dropped \in [Store -> Nat]

\* and the file.
TableTyped ==
    /\ last \in Nat /\ room \in Nat
    /\ DOMAIN table \subseteq 1..last /\ table \in [DOMAIN table -> Entry]

\* Every variable keeps its type.  In particular no step of the writer leaves
\* more in a channel than Record may put there, and ids stay below the sequence.
TypeOK ==
    /\ FlowTyped /\ EntriesTyped /\ LifeTyped /\ SignalsTyped /\ TuningTyped
    /\ CountersTyped /\ DroppedTyped /\ TableTyped

\* The promise of the store (DurableLog): every entry is handed on once and in
\* order, from the channel through the batch into rows with ids of their own;
\* rows never return; what was accepted does not wait for ever.
Promise == INSTANCE DurableLog WITH pending <- Pending
Implements == Promise!Spec
ImplementsSafe == Promise!Safe

\* The inductive strengthening for the refinement: without a current store, and
\* without a process, no goroutine runs; the channel of a store to come is empty;
\* a flush has something to write and the last one leaves nothing.
WriterInv ==
    /\ current = 0 \/ phase = "down" => writer = "done"
    /\ \A s \in Store : opened < s => channel[s] = <<>>
    /\ writer \in {"insert", "commit"} => batch # <<>>
    /\ writer = "return" => batch = <<>>

\* store.go:45 "this stays bounded": the table holds at most the row cap of the
\* last prune that worked and what was written since, whatever was tuned, failed,
\* or restarted in between.
RowsBounded == Cardinality(DOMAIN table) <= room

\* store.go:69: a changed flush interval reaches the ticker without waiting for
\* the old tick.  Whenever the ticker is armed with another interval than the one
\* set, a signal is buffered or about to be sent.
TuningReachesTicker ==
    writer # "done" /\ ticker # tuning.interval => retune \/ life = "send"

\* Nobody waits for ever under storeMu: a Close that waits for the goroutine
\* returns, although entries still arrive, statements fail and tickers fire.
LifecycleEnds == (life # "idle") ~> (life = "idle")

\* cli.go:291, store_lifecycle.go:85: a graceful exit loses nothing.
GracefulLosesNothing == phase = "down" /\ faults = 0 => lost = {}
=============================================================================
