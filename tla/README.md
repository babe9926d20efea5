# Verification of LakeSense

TLA+ models of LakeSense, TLC configurations that check them on small
instances, and proofs of their most important properties for every instance.
The models are translations of the Go sources in `engine/` and `backend/`.
`PROJECT.json` says, definition by definition, which lines each one stands for.

## 1. The system

LakeSense replicates database tables to files.  It has two programs.  The
**engine** (`lsengine`) performs one run and exits: it reads a catalog of
selected streams, a state document and a destination, moves rows, and prints
events as JSON lines.  The **control plane** (`lakesense`) keeps pipelines in
PostgreSQL, starts engine processes on a schedule or on demand, ingests their
events, and turns those into metrics, rules, incidents and alerts.

    users --HTTP--> api ----------------------+
                     | status, versions       | run now
                     v                        v
    scheduler --> pipelines table         runner --starts--> lsengine sync
        ^               ^                    |                  |  reads source
        |               | last_sync_at       | stdout (JSONL)   |  writes destination
        |               +---- collector <----+                  |  saves state document
        +--- in-flight marks    |                               v
                                +--> rules --> incidents --> escalation --> channels

### Components, state, operations and what makes them correct

| Component | State | Operations | Hard because | Correct when |
|---|---|---|---|---|
| State document (`engine/internal/state`) | JSON file: per stream chunks left and cursor; global CDC position and backfilled streams | Load, SetChunks, CompleteChunk, SetCursor, SetGlobalPosition; each saves the whole file by rename | crash between any two steps; two processes | never ahead of the destination |
| Full load (`syncrun/runner.go` runFullLoad) | chunks left, current chunk, writer buffer | split, open, read, flush, complete, finish | crash and resume; source changes between snapshots | no completed chunk loses a row; nothing is read twice or never; it ends |
| Writers (`ndjson.go`, `parquet.go`) | bytes or rows buffered; file tail; part number | Open(truncate), WriteRow, Flush, Close | torn lines; half-written parts; kinds a column cannot hold | flushed means readable, and reads back as written |
| Incremental (`runIncremental`) | watermark | query, read, flush, save | commits in another order than cursor values | no row at or below the watermark is missing |
| CDC group (`runCDCGroup`) | position, backfilled streams, writers | anchor, backfill, replay, flush, save | snapshot against log; crash; joining and leaving streams | no change between position and destination is lost; bounded runs end |
| PostgreSQL change stream | publication, slot | EnsurePublication, EnsureSlot, StreamChanges, ack | a second progress marker (the slot) beside the state document; changes that the log tells in part (TRUNCATE, changed keys, unchanged TOAST) | slot never ahead of durable state |
| MySQL change stream | binlog coordinates | PrepareCDC, StreamChanges | idle and error exits look alike; a reconnection begins at position 0 | no position is saved that the replay has not reached |
| Connectors: full load and increments (fifteen databases) | a plan, a scan, a watermark | SplitChunks, ReadChunk, ReadIncrement (MaxCursor has no caller in the engine) | int64 loops; scans of live tables; paging; watermarks as texts | every key in one chunk; a stable row once; no watermark past an undelivered row |
| Kafka connector | an offset per partition | the same, over partitions | retention, partitions that come and go | no message below an offset is missing |
| Reader, Verify, digests (`reader.go`, `verify`, `rowdigest.go`) | current state per record id; ranges to bisect | resolve, compare, bisect, enumerate | ties and misordered stamps, torn files, concurrent writes | differences found are differences, and no other is missed |
| Backfill (`engine/internal/backfill`) | - | read a slice, upsert, verify | beside a running sync | what it read is corrected, and reported honestly |
| Scheduler (`backend/internal/scheduler`) | in-flight marks (memory) | tick, markRunning, clearRunning | goroutines, stale list, restart | no overlap; no leak; runs again and again |
| Runner | files in the run directory, a pipe | load, discover, write catalog, sync, backfill, ingest | two goroutines around a pipe; two runs in one directory | a run returns once, with all events |
| Collector | events, metrics, diff_runs, last_sync_at | ingest, derive, process | partial streams, failing statements, overlapping runs | what it records of a run is true of it |
| Rules, incidents, escalation, channels | rules, incidents, alerts, policies | evaluate, dispatch, ack, snooze, resolve, escalate | find-then-create, ack against tick, stale cache | one thread per fingerprint; nobody skipped; an end to the pages after a reaction |
| Anomaly, quality workers | baselines | tick, emit event | an event on its way through the collector | a breach reaches its rules |
| Pipelines, versions, environments, audit | rows, config versions, audit log | create, update, import, rollback, status, promote | lost updates between two writers; promotion across environments | the row, the version and the running config agree; no setting that promotions ask for leaks |
| Correlation, enrich, seed, store, frontend, website, deploy | - | - | plain I/O, or called by nothing | - |

The engine is sequential: one goroutine, one stream after the other.  The
concurrency is with the source's other clients, with a later run of the same
pipeline after a crash, with another engine process that should not be there,
and, in the control plane, among the ticker, HTTP handlers and the runs'
goroutines.  `PROJECT.json` lists each hazard at its line.

## 2. The modules

| Module | Models | State and actions against the code |
|---|---|---|
| `WriteAhead` | the promise all read modes make | `stored`: durable in the destination; `claimed`: done according to the state document; `Store`, `Discard`, `Claim` |
| `FullLoad` | `runFullLoad`, `Document`, both writers, ctid and keyset ranges | `planned`, `remaining` are `StreamState.Chunks`; `fresh`, `todo` the locals of the same purpose; `stored`, `tail`, `stale` the destination; one action per step: `Start`, `PlanChunks`, `OpenWriter`, `BeginChunk`, `EmitRow`, `FlushChunk`, `CompleteChunk`, `FinishStream`, and `Stop` for an error return or a kill |
| `CdcGroup` | `runCDCGroup` with a PostgreSQL slot or a MySQL binlog, and both writers | `position`, `backfilled` are `GlobalState`; `confirmed`, `published` the slot and the publication; `clientPos`, `at`, `target` StreamChanges' locals; a change of the `log` says which rows it alters and what the reader is sent of them, so that the source's `SourceWrite` is told in full and `SourceToast`, `SourceRekey`, `SourceTruncate` in part; actions follow the function: `Start`, `EnsurePublication`, `EnsureSlot`, `SaveAnchor`, `OpenStream`, `ReadRow`, `FlushBackfill`, `MarkBackfilled`, `BeginStreaming`, `ReceiveChange`, `AckSlot`, `IdleOut`, `IdleError`, `FlushStream`, `SavePosition`, `Finish`; `Fail` runs the deferred `Close`, `Kill` does not and may tear the `tail` of an NDJSON file, `Spill` is a block of bufio |
| `Incremental` | `runIncremental` and `ReadIncrement` with both writers; the source's transactions | `watermark` is the cursor in state, `tail` the end of an NDJSON file, `swallowed` the row versions a torn line has cost; `viewCur`, `unread`, `newCursor` the query; `Open`, `Query`, `ReadRow`, `Flush`, `SaveCursor`, `Finish`, `Stop`; transactions take their cursor value at `Begin` and show at `Commit` |
| `SourceReads` | SplitChunks, ReadChunk and ReadIncrement of every connector that reads rows, against a table that is written to | `conn` the connector; `plan`, `chunks` the loop and result of SplitChunks in integers that wrap at `MaxInt`; `scan` a read in progress; `watermark` the stored cursor; `server` what the source does with the text of a time (converts it, refuses it, compares texts); one action per connector and method (`MysqlSplitChunks`, `RedisReadChunk`, ...); `Write`, `Delete` the source's clients |
| `KafkaReads` | the Kafka connector | `offsets` the cursor, `first`/`log` a partition, `topic` the metadata; `ReadChunk`, `ReadIncrement`, `Bounds`, `ReadMessage`, `EndPartition`; `Produce`, `Expire`, `AddPartition` the broker |
| `RowValues` | a cell from driver to file: type mapping, normalisation, row hash, record id, both writers, both readers | a Go value is its dynamic kind and content; `MysqlScan`, `PostgresType`, `MssqlValue`... are tables and functions, one per connector; `ScanRow`, `ReplayRow`, `CloseWriter` carry two rows to the destination |
| `Sources` | the three above under one specification | `kind` says which of them a behaviour is about |
| `Verify` | the destination as a log of row versions, a sync and a backfill that append to it, `resolveCurrentState`, `VerifyStream` | `changes` the source's log and `saved` the sync's position in it; `dest` the rows on disk, `torn` the part-files without footer, `tail` a torn NDJSON line, `proc` the two writers, of which a sync that fails flushes what it holds (`FailSync`); `v` the verification: `ReadSourceChunk`, `ReadDest`, `Bisect`, `Report`; `now` the clock of the `_ls_ingested_at` stamps |
| `Scheduler` over `SchedulerState` | `Scheduler.tick`, `runPipeline`, `Runner.Run`, the engine process, restarts | `running` is the map of marks, `due` what the loop still has to visit, `stage` how far each run is; `Tick`, `Skip`, `Trigger`, `RunNow`, `Load`, `StartSync`, `SyncFinished`, `Exit`, `FailRun`, `Return`, `Restart`, `OrphanDies` |
| `RunOutcome` | `Runner.Run` and `Backfill` around `pipeThrough`, the engine's events and exits, the ingester, what is derived | `run[r]` holds the runner's, engine's and ingester's counters of run r and its pipe; `diffs`, `metrics`, `last_sync` the tables, `jobs` the table of backfill jobs and the UPDATE each goroutine has to do next (`StartJob`, `EndJob`); `failures` the failures handed to the processor and `unheard` those it dropped; `Emit...` one action per event, `Insert`, `Compare`, `RecordMetric`, `MarkSynced`, `Process` the ingester's loop; `Kill`, `FailIngest`, `Restart` faults |
| `Incidents` | `rules.Engine.Evaluate` with its cache, delivery, the escalation worker, the admin endpoints | `eval[v]` where an ingesting goroutine is; `due`, `current` the tick's list; `ruleState`, `channelState` what rules and channels are there; `incidents` the table with history fields (`tried`, `paged`, `late`) |
| `PipelineConfig` | pipelines, versions, promotion, audit, by several clients | `handler[c]` is where the request of client c is between its statements; `pipelines`, `history` the tables; a configuration gives every setting of `Keys` the environment it is of, and `sensitiveKeys` are those a promotion asks for |
| `MC*` | the sets and symmetries of the runs | |
| `*Proofs` | theorems and inductive invariants | |

`FullLoad` and `Incremental` instantiate `WriteAhead` and are shown to
implement it, with rows of completed chunks and row versions below a watermark
as items.

Definitions whose comment begins with "Fault" are plausible bugs of the action
that follows them.  No specification uses them: they are there to be put in
the action's place, and each property of the passing runs fails for at least
one of them.

How the modules fit.  `FullLoad` and `Incremental` take from a connector that a
plan partitions the keys, that a chunk read delivers what is there and that a
watermark passes nothing; `SourceReads` and `KafkaReads` show for which
connectors, and under which writes, this holds.  `Verify` takes a run as a writer
that appends and saves; `FullLoad`, `Incremental` and `CdcGroup` have its inside.
`Scheduler` says when runs of a pipeline overlap, and `RunOutcome` what the tables
say of runs that do.  `RunOutcome` ends where an event is handed to the rules,
where `Incidents` begins; a run reads what `PipelineConfig` keeps.

Abstractions common to the engine's modules: a row is its key (and, where it
matters, a value or a version number); a save of the state document is one
step, because it is a write to a temporary file and a rename; truncation is
one step; events and digests are left out, except that a failing emit is one
of the causes of an early return.

## 3. The runs

Passing runs:

| Run | Question | Bounds | Distinct states |
|---|---|---|---|
| `FullLoadParquet` | is a resumed load complete, does it keep the write-ahead contract, does it end | 2 rows, 2 chunks, 2 source writes, 2 stops | 27 019 |
| `FullLoadNdjson` | what does a torn line cost | 3 rows, 2 chunks, 1 write, 2 stops, ctid or keyset | 38 091 |
| `CdcBinlog` | does MySQL CDC lose a change; does it catch up | NDJSON; 2 streams, of two rows and one, one joins late; 2 changes, of keys and TRUNCATE too; 1 kill, failure or lost connection | 836 996 |
| `CdcSlot` | the same for PostgreSQL where it holds | Parquet; 2 streams with a row each, one may leave; 2 changes, with unchanged TOAST and TRUNCATE too; 1 failure | CDCSLOT |
| `IncrementalStrict` | is the watermark gap-free | NDJSON, 3 rows, cursors to 3, 2 versions, 2 stops | 339 759 |
| `Sources` | does every connector keep what the engine takes from it; do values survive the way to the file | rows: 15 connectors (postgres by pages, by keys and for the parent of a partitioned table), 3 keys of 4 bits, 2 writes, 2 increments; Kafka: 2 partitions, 2 records each, 3 reads, 1 fault; values: every column `RowValues` tabulates, 2 rows, both formats | 421 662 |
| `Verify` | is a verdict true, is the drill-down exact, does a backfill reconcile, does the newest version win | NDJSON or Parquet, 2 ids, 2 source writes, 2 runs (sync, backfill or verification), 1 failure or kill, 2 clock ticks to a second | 1 002 556 |
| `Scheduler` | are marks exact, do scheduled runs overlap, does the schedule survive failures and restarts | 2 pipelines, 2 runs at a time, 1 failure, 1 restart, manual runs | 714 636 |
| `RunOutcome` | is what the control plane records of a run true, does every run return | 2 streams, 2 runs, a pipe of 1 event, 1 failing statement, dropped event, kill or restart | 774 706 |
| `Incidents` | one thread, nobody skipped, an end to the pages | 2 rules, 2 channels, one of them not there at first, policies of 2 steps and of none, 2 evaluators, 2 events, 1 request, 1 failure or restart | 1 226 479 |
| `PipelineConfig` | do row and version agree, is the history gap-free, do settings stay in their environment | 2 clients, 2 environments, 2 settings of which promotions ask for one, 4 requests, 1 failure or restart | 1 071 727 |

What the properties are after:

- `Sources`.  `PlanPartitions` asks of every finished plan that each key the
  table can ever hold lies in exactly one chunk, with integers of four bits, so that
  the product of spans that `postgres` computes and the bound of the last chunk do
  overflow; `Fits` says when they do not, and `PlanEnds` that the loop ends
  then.  `StableRowsReadOnce` and `NothingSkippedAnywhere` are what `FullLoad` and
  `Incremental` assume.  `QuietPassCatchesUp` is about the watermark as a text that
  the source must be able to compare.  `CellsComeBack` and `OneRowPerKey` are
  equivalences: they list the columns whose cells change on the way (`Altered`)
  or whose record ids merge or split rows (`Mangled`, `ChangedByBinlog`), and hold
  only if the lists are exact.
- `Verify`.  `VerdictHolds` is about verifications during which neither side
  moved; the code compares two moments otherwise.  `NewestWins` and
  `BackfillReconciles` hold outside two cases, which their statements name:
  a sync and a backfill that overlapped, and two stamps whose texts sort against
  their times (`Misordered`).
- `RunOutcome`.  `SuccessIsAccounted`: a run reported as a success has all its
  events stored, its metric and a comparison of every stream.
  `SyncedMeansCompared` and `BadgeTellsTruth` relate the tables to what engines
  computed, `FailureIsSeen` to what they suffered.  `RunReturns` is about the pipe:
  a writer must not wait for a reader that gave up.
- `Incidents`.  `OneOpenThread` rests on the unique index, not on the lookup
  before it; `OnePageAfterAck` bounds what an acknowledgement in the middle of a
  tick cannot stop; `UnackedClimbs` is the liveness of escalation.
- `PipelineConfig`.  `HistoryNumbered` rests on the unique (pipeline, version);
  `RowMatchesVersion` on the one transaction; `SettingsStayHome` on the check
  of promotion, through any sequence of updates, rollbacks and promotions.

Why the bounds are enough.  The interesting cases of the engine need one
interruption and the run that resumes from it; two of them let a resumed run be
interrupted again.  Two chunks make "completed" and "left" differ; with two
rows a row can lie in the completed chunk, the current one or the next, and
with three an NDJSON buffer can be cut with whole lines on either side.  Two
changes let one lie at or below a position and one above it.  Two streams let one be
backfilled while the other is not.  In `Sources` three keys lie in different
chunks and pages, near an end of the integers and away from it; two
writes can hit a row on either side of a scan, and two increments let one
start from what the other left.  In `Verify` three ids split unevenly, and two runs are what it
takes for one to overwrite the other, and two verifications let one report while
what the other began is still open.  Two runs of one pipeline, two
evaluators and two clients are the smallest numbers that race.  What the bounds
leave open the proofs of section 4 close for the safety properties: every
invariant that a passing run checks is stated by a theorem.

`CdcSlot` names the conditions under which PostgreSQL CDC loses nothing: runs
may fail but not die, no stream joins after the anchor or comes back, no message
is longer than its WAL record.

One run finds a disagreement between the code and what its comment says (the
quotation is in `PROJECT.json`): in `CdcSlotKill` the slot is acknowledged before
the writers are flushed, and a kill in between loses the replayed changes.

The limits of the guarantees are seen by changing a passing run:

| Change | Then fails | Because |
|---|---|---|
| `FullLoadNdjson`: `CompletedChunksDurable` as the invariant | it | the first row after a torn line is glued to it and lost, although its chunk is completed (`ndjson.go:41`) |
| `FullLoadParquet`: `Relocates = TRUE` | `LoadIsComplete` | a row that moves between ctid ranges is read by no chunk, and a full load has no replay (`postgres/fullload.go:245`; `postgres-connector.md:23` counts on CDC) |
| `CdcSlot`: `MaxWidth = 2`, `MaxLog = 3` | `NoLostChange` | a position computed from a message length can pass the next change (`postgres/cdc.go:322`) |
| `CdcSlot`: `Initial <- OrdersOnly`, `MayJoin = TRUE`, `MayLeave = FALSE` | `NoLostChange` | a stream that is added later is not added to the publication, although `cdc.go:131` says so (`runner.go:261`) |
| `CdcSlot`: `SourceKind = "binlog"`, `MayJoin = TRUE`, `MaxEdits = 2`, and `CHECK_DEADLOCK FALSE` (every stream may be deselected) | `NoLostChange` | a stream that comes back still counts as backfilled (`state.go:191`) |
| `CdcSlot`: `MayLeave = FALSE`, and `RunsSucceed` as the property | it | after a failure between acknowledgement and save the slot is ahead of the state document, and runs fail until the source writes (`postgres/cdc.go:337`) |
| the same with `Rows <- OrdersAudit`, `Initial <- OrdersOnly`, `MaxStops = 0` | `RunsSucceed` | WAL of other tables moves the target beyond any message, and every run idles out and fails (`postgres/cdc.go:286`) |
| `IncrementalStrict`: `CommitOrder = "ties"` or `"late"` | `NoGap` | rows committed after the read with the watermark's value or a lower one are never read (`postgres/incremental.go:60`) |
| `Sources`: `CorruptionShows` as an invariant | it | both checksums are taken before the Parquet conversion, so a cell it alters does not show, although `rowdigest.go:15` says so |
| `Scheduler`: `NeverOverlap` as an invariant | it | a manual run overlaps the scheduled one (`writes.go:44`), and, with `ManualRuns = FALSE`, an engine process outlives the control plane (`main.go:170`), although `scheduler.go:33` says "never overlapping a pipeline with itself" |
| `Incidents`: `BreachesReachRules` as a property | it | the workers write `pipeline_id` as a number, which the collector's `Event` does not decode, so the event is passed over (`main.go:149`, `collector.go:98`) |
| `Incidents`: `BrokenRules = {r1}` | `UnackedClimbs` | a policy whose on-call schedule is gone ends each tick at its incident (`escalation.go:84`) |
| `PipelineConfig`: `RollbackRestores` as a property | it | a rollback keeps the row's configuration, which is what runs read (`service.go:196`) |

### Fairness

- `FullLoad`, `Incremental`, `CdcGroup`: weak fairness of the engine's steps as
  a whole.  The scheduler starts the next run of a due pipeline (that it does is
  `Scheduler!KeepsSyncing`), and an engine process that is not stopped
  goes on.  Stops are bounded by a constant, so a behaviour has finitely many.
  Nothing is assumed of the source's clients.
- `CdcGroup` adds strong fairness of `ReceiveChange`: MySQL's replay may end
  idle at any point, but a log with unread changes does not time out in every run.
- `SourceReads`: weak fairness of the planning loop, which waits for nobody.
- `Scheduler`: weak fairness of the ticker and of each run's goroutine and process;
  strong fairness of the loop over what a tick listed, because the model has a
  fixed number of slots for runs, which manual runs may occupy again and again,
  whereas the code can always start one more goroutine.  `Run` has no timeout, so
  an engine that hangs is left out.  None for users, failures or restarts.
- `RunOutcome`: weak fairness of each run's runner, engine and ingester
  together: processes and goroutines get to run, and calls of a connector return.
- `Incidents`: weak fairness of each evaluator and of the escalation worker's
  ticker and steps; delays run out.  None for events, users, failures or restarts.

## 4. The proofs

| Theorem | For every | Assuming |
|---|---|---|
| `FullLoadProofs!TypeCorrect`, `OnlyRemainingChunks`, `UninterruptedLoadIsFresh` | rows, chunks, writes, stops, formats | - |
| `FullLoadProofs!OneRowLostPerStop` | the same, both formats, ctid and keyset ranges | - |
| `FullLoadProofs!ParquetWriteAhead`, `ParquetRefinement` | the same | Parquet |
| `FullLoadProofs!KeysetLoadComplete` | the same | Parquet, keyset ranges |
| `CdcGroupProofs!TypeCorrect`, `PositionsOnlyForward` | rows, streams, values, lengths, stops, both sources | - |
| `CdcGroupProofs!SlotNeverBehind` | the same | a slot |
| `CdcGroupProofs!BinlogLosesNothing` | the same | a binlog, and streams either join or leave |
| `CdcGroupProofs!SlotLosesNothing` | the same | a slot, no stream joins, runs fail but are not killed, no message is longer than its record |
| `IncrementalProofs!TypeCorrect`, `IncrementalWriteAhead` | rows, cursors, versions, stops, commit orders | - |
| `IncrementalProofs!StrictLeavesNoGap` | the same | commits follow growing cursor values |
| `RunProofs!ScheduleTypesHold`, `MarksAreExact`, `ScheduledRunsNeverOverlap` | pipelines, runs, failures, restarts | - |
| `RunProofs!UndisturbedNeverOverlaps` | the same | no manual runs, no restarts |
| `IncidentsProofs!TypeCorrect`, `StormIsOneThread`, `EscalationSkipsNobody`, `ReactionStopsPages`, `FirstAlertIsComplete`, `IncidentsOnlyAge` | rules, channels, policies, evaluators, events, failures, restarts | - |
| `RunProofs!TypesHold`, `SuccessesAreAccounted`, `SyncedIsCompared`, `BadgeIsTrue`, `FailuresAreSeen`, `HistoryStands` | streams, runs, capacities of the pipe, failing statements, kills, restarts | - |
| `SourcesProofs!TypesCorrect`, `PlansPartition`, `StableRowsOnce`, `NothingIsSkipped`, `QuietPassesCatchUp` | connectors, keys, estimates, pages, page sizes, writes, increments, partitions, faults, and any width of the integers | what `SourcesAssumption` says: keys, estimates, pages and chunk sizes are integers of that width |
| `SourcesProofs!CellsReadBack`, `KeysIdentifyRows` | every column type of every connector, formats, orders of a scan, replays | the same |
| `VerifyProofs!NewestVersionWins`, `VerdictIsRight`, `BackfillCorrects`, `DrillDownIsExact` | ids, slices, formats, ticks to a second, sample thresholds and caps, source writes, runs, verifications, kills | what `VerifyAssumption` says: ids are the integers from 1, a second has a tick, a sample has room |
| `PipelineConfigProofs!TypeCorrect`, `VersionsAreNumbered`, `PastIsImmutable`, `RowNamesItsVersion`, `SettingsNeverTravel` | clients, environments, streams, requests, failures, restarts | - |

`RunProofs` holds the theorems of both `RunOutcome`, which it extends, and
`Scheduler`, of which it has an instance `S`; `SchedulerBounds` repeats what
`Scheduler` assumes of its constants, for an instance does not bring that along.
The variables of `Scheduler` and what must be true of them are in `SchedulerState`,
which both modules extend.

The assumptions are the conditions that the violating run and the changes listed
in section 3 break: a theorem with its counterexample says where a guarantee
ends.  The runs do not check the type invariants (`TypeOK`) again: those of the
proved modules hold by theorem, and those of the others were checked with the same
configurations and are left out of the runs, whose properties say more.

The arguments:

- *Full load.*  `claimed \subseteq stored` is not inductive: completing a chunk
  claims its snapshot.  The strengthening (`DurInv`) adds where the rows of the
  snapshot are while the chunk is read (unread, buffered or stored), that all
  are stored once it is flushed, and that a run is fresh only as long as nothing is
  claimed, which is why truncation is harmless.  The refinement follows step by
  step.  Completeness adds (`CoverInv`) that each row present ever since the plan
  lies in a chunk left, in the snapshot, or is claimed; keyset ranges matter
  because a row's chunk never changes.  That nothing old survives rests on
  `FreshInv`: until a stop, old rows are there only before the first run has
  opened its writer.  The bound on torn lines counts stops: the swallowed rows and the line
  that is torn now are no more than those (`TornInv`); a claimed row is stored or
  swallowed because the rows of every snapshot are unread, buffered, stored or
  swallowed (`LossInv`).
- *CDC.*  One inductive invariant (`Inv` of `CdcGroupProofs`) serves both sources,
  because `Resume` is where the next replay begins: the saved position for a binlog,
  the confirmed one for a slot.  It follows a row's value through the run: a logged change
  holds the current value or a later change follows (`LogInv`); a backfilled row
  is current or changed since its backfill began (`BackfillInv`), which is not before
  `Resume` (`PositionInv`), so that the change will be replayed; during the replay
  what would be written is current up to the last change received (`ReplayInv`);
  buffers are non-empty only where the loop that fills them is (`BufferInv`); every
  kept stream is in the group of the run, so none of its changes is dropped
  (`GroupInv`), and all it has still to be sent is published (`PublishedInv`).
  `DurableInv` is what is promised, with respect to the saved position always and
  to `Resume` but for the moment between acknowledgement and flush, in which the slot
  has forgotten what only the buffers hold; a run that fails there flushes
  them as it closes.  Each condition of `Lossless` is needed at one of these: a killed
  run does not close its writers, a stream that joins is not published or still counts
  as backfilled, and a wide message moves the position past the next change.
  `OrderInv`, kept without any condition, gives what may never move back.
- *Incremental.*  What a saved watermark claims is stored (`AheadInv`), for
  the snapshot's row versions are unread, buffered or stored.  With
  strictly growing commits no version at or below the query's maximum can
  appear after the query (`OrderInv`), hence no gap (`GapInv`).
- *Scheduler.*  Each scheduled run that is waited for holds its pipeline's mark,
  and no two hold the same one (`MarkInv`).
- *Incidents.*  `ClimbOK` says of each incident how far it has climbed: what was
  notified is what lies below its step, and perhaps the step itself.  It is kept
  because what the worker has listed is still true of the tables when it is used
  (`DueOK`, `CurrentOK`): nobody but the worker changes a step or a due time, and
  no incident is on the list twice.  A page after a reaction excludes that the
  incident is listed again, for nothing returns to open.  One thread per
  fingerprint follows from the check at the insert alone.  The first alert has an
  invariant of its own (`AlertInv`): an incident that was not offered to every
  channel has exactly one evaluator that is sending, and what was tried and
  what is left of that evaluator's list are together the rule's channels.
  `OnlyAge` compares an incident before and after any step: nothing reopens it, winds
  its counts, step or timer back, or forgets whom it told.
- *Run outcomes.*  `Inv` of `RunProofs` follows an event from the engine to
  the tables.  What is in the pipe, in the ingester's hands, paired or compared
  says what the engine computed (`PipeOK`, `PairsOK`, `DiffsOK`); as long as
  nobody failed nothing is lost on the way (`CountOK`, `ChecksumsKept`: a checksum is
  in the pipe, at hand, waits for its other side or is compared).  The metric is
  the last event of a sync, so it stands only behind a comparison of every stream
  (`MetricOK`).  Runs that overlap do not disturb each other because each table
  row names its run.  That nothing is recorded once a run is over (`OutcomesAreFinal`)
  needs that no ingester is left then (`Quiet`), which neither the order of the
  runner's waits nor a restart can break.
- *Sources.*  The properties say something of states between reads; the invariant
  (`Inv` of `SourcesProofs`) says it in the middle of a loop or a read.
  `LoopOK`: the loop of SplitChunks has planned every integer below its next
  bound once and, if `Fits` admits the plan, the bounds to come do not overflow;
  that the products and divisions of each connector's step size stay in range is
  most of that proof.  `ReadOnce`: a row nobody has touched is either still to be
  read, in a chunk that is left and beyond the scan's position (`ToRead`), or was
  delivered once and will not be read again; it needs the partition, for otherwise
  two chunks would read it.  For redis only `ReadSome` holds.  `Ready`: a present
  row was delivered or is above the watermark.  During an increment the watermark
  in state is still the old one, so what the increment will store has to be in the
  invariant as well (`PassInv`), and differs by how a source is read: rows
  behind the position are delivered (`Behind`), or the point in time holds the row
  unless it is newer than all it holds (`InTime`).  `KafkaInv` is the same for
  offsets: a partition is covered up to its stored offset (`Covered`), or it is to
  be read or is being read and was delivered up to the position (`Done`), or its
  metadata was missing when the plan was made; appends and expiry keep that.
  The cells of `RowValues` are a table, and the proof reads it: of each kind of value
  what its JSON is after a file has carried it, of each column a pair of values
  and what becomes of both (`Fate`), connector by connector.  `CellsInv` says what
  records there are: the first two are the two rows scanned, later ones replays.
  The theorems are equivalences, so the lists of exceptions (`Altered`, `Mangled`,
  `ChangedByBinlog`) name neither too few columns nor too many.
- *Verify.*  As long as writers do not overlap, the rows on disk stand in the order
  of their times, their part-files and, of one id, their versions (`OrderInv`), so that
  the last row of an id is what the reader picks, unless the text of its stamp
  sorts before an earlier one.  What keeps that order is what a writer holds: at most
  one row of an id, not older than any on disk (`HeldInv`, `AfterInv`).  A
  backfill of a source that stands still holds the source's row of each id of its slice,
  and after the flush that row is the last of its id (`BackfillInv`).  What a
  verification has read is the source's and the destination's present state unless it
  was told otherwise (`VerdictInv`).  In the middle of the drill-down the ranges still
  to look at lie in order and behind the samples, and no offending id is outside
  both the ranges noted and those to come (`DrillInv`).  That a finite set of ids
  has an ascending sequence at all (`Ascending`) is proved by taking away its
  greatest.  The attempt to prove `BackfillInv` found the model wrong: the report of
  an earlier verification made it forget that the source had moved under the backfill
  in progress, which a run with a single verification could not show.
- *Pipeline configuration.*  A handler writes what it computed from tables that
  others have changed since.  `Growth` says what they can have changed: rows are
  added and never leave their environment, histories are only appended to.  What a
  handler carries (`HandlerOK`) is stable under that, and is enough for the invariant
  of row and history (`PipelineOK`) when it writes; a number that is taken
  meanwhile is refused.  `HistoryAppendOnly` is `Growth` itself, so that it and
  `AuditComplete` (each committed change is in the audit log, or its caller saw
  an error) are proved and have no run.

Model-checked only: liveness (`EventuallyLoaded`, `EventuallyInSync`,
`KeepsSyncing`, `PlanEnds`, `RunReturns`, `UnackedClimbs`), because the prover
handles neither fairness nor ENABLED; and the violating run, which is a
counterexample.

Proved only, because they hold by stronger invariants or because a run says
more with another property: `PositionsOnlyForward`, `SlotNeverBehind`,
`OnlyRemainingChunks`, `UndisturbedNeverOverlaps`, `HistoryAppendOnly`,
`IncidentsOnlyAge`, `HistoryStands` and the type invariants.

## 5. What is not modelled, and the plan

Not modelled, and why:

- MongoDB's change stream: a third position protocol (resume tokens) whose
  `UpdateLookup` needs a model of the documents at two moments.
- The binlog's format-description event, positions inside a transaction, and
  keepalives that postpone a slot's idle timeout: finer than the two streams of
  `CdcGroup`.
- Two engine processes over one state document: `Scheduler` shows when it
  happens and `RunOutcome` what the tables make of it; what the documents become
  is open.
- NULL cursor values, which no increment returns, and deletes under
  incremental reads, which are invisible to them.
- Anomaly scores and quality monitors' formulas are floating-point arithmetic; the
  rotation of an on-call schedule, the difference of two versions and the
  signatures of correlation are pure functions (no package imports
  correlation and enrichment); column statistics and lineage are rows nobody decides on.
- Discovery, configuration parsing, listings, user interface and deployment are
  conversions or I/O.

The write-ahead contract (`WriteAhead`) is not stated of a CDC group, because the
code does not keep it: a ctid backfill can miss a row that changes while it is
read, and a replay after a failed run writes older values over newer ones.  Both are
mended by the end of the replay, which is what `NoLostChange` says.

## 6. Running

    tlc -config FullLoadParquet.cfg MCFullLoad.tla     # likewise for the others
    tlapm FullLoadProofs.tla                           # likewise for the others

`FullLoad*.cfg` belongs to `MCFullLoad`, `Cdc*.cfg` to `MCCdcGroup`,
`IncrementalStrict.cfg` to `MCIncremental`, and every other `X.cfg` to `MCX`.
