----------------------------- MODULE RunOutcome -----------------------------
(***************************************************************************)
(* What the control plane learns of an engine process.  The engine writes  *)
(* its events to a pipe; the ingester of the run stores each one, derives  *)
(* metrics and comparisons from it and hands it to the rules; the runner   *)
(* waits for both and reports the outcome.  Runs of one pipeline may       *)
(* overlap: syncs of the scheduler or of the API, and backfill jobs.       *)
(*                                                                         *)
(* Events that are only stored (stream_started, chunk_completed, ...) are  *)
(* left out.  The tables an event is derived into other than metrics and   *)
(* diff_runs are too, and when the cache of the rules expires.  One        *)
(* stream's rows are read and written in one step (FullLoad, Incremental   *)
(* and CdcGroup have what happens inside).                                 *)
(***************************************************************************)
EXTENDS Naturals, Sequences, FiniteSets, Functions

CONSTANTS
    NumStreams,     \* streams selected by the pipeline
    PipeCap,        \* events the pipe holds
    MaxRuns,        \* bound: runs begun
    MaxTroubles     \* bound: failed statements, events dropped for the rules,
                    \* killed engines and restarts of the control plane

ASSUME RunOutcomeAssumption ==
    /\ {NumStreams, PipeCap, MaxRuns} \subseteq Nat \ {0}
    /\ MaxTroubles \in Nat

Runs == 1 .. MaxRuns
Streams == 1 .. NumStreams

VARIABLES
    run,        \* the runs, with their engine process and their ingester
    diffs,      \* table diff_runs, in the order of created_at
    metrics,    \* table metrics: run -> time its sync_finished was emitted
    failures,   \* the runs whose sync_failed was handed to the rules
    unheard,    \* those of them for which LoadRules or Evaluate failed
    last_sync,  \* column last_sync_at
    jobs,       \* table backfill_jobs, and the UPDATE its goroutine has to do next
    clock,      \* sync_finished events emitted, their time
    troubles

tables == <<diffs, metrics, failures, unheard, last_sync>>
vars == <<run, tables, jobs, clock, troubles>>

NoEvent == [kind |-> "none"]
Unpaired == [side \in {"source", "destination"} |-> 0]
Unused == [kind |-> "none", pc |-> "off", engine |-> "off", at |-> 1,
           match |-> [s \in Streams |-> TRUE], pipe |-> <<>>, sent |-> 0,
           ing |-> "off", cur |-> NoEvent, pairs |-> [s \in Streams |-> Unpaired],
           stored |-> 0]
NoJob == [status |-> "none", todo |-> "none"]

Init ==
    /\ run = [r \in Runs |-> Unused]
    /\ diffs = <<>> /\ metrics = [r \in {} |-> 0] /\ failures = {} /\ unheard = {}
    /\ last_sync = 0 /\ clock = 0
    /\ jobs = [r \in Runs |-> NoJob]
    /\ troubles = 0

-----------------------------------------------------------------------------
(* The runner.                                                             *)

Begin(r, kind) ==
    /\ run[r].pc = "off" /\ \A q \in Runs : q < r => run[q].pc # "off"
    /\ run' = [run EXCEPT ![r].kind = kind, ![r].pc = "prepare"]
    /\ UNCHANGED <<tables, clock, troubles>>

\* The scheduler's trigger and the API's handler.
StartSync(r) == Begin(r, "sync") /\ UNCHANGED jobs

\* launchBackfill does not ask whether a run is in progress.
LaunchBackfill(r) ==
    /\ Begin(r, "backfill")
    /\ jobs' = [jobs EXCEPT ![r] = [status |-> "queued", todo |-> "start"]]

\* An UPDATE of the job, whose error is ignored.
UpdateJob(r, status, todo) ==
    /\ \/ UNCHANGED troubles /\ jobs' = [jobs EXCEPT ![r] = [status |-> status, todo |-> todo]]
       \/ /\ troubles < MaxTroubles /\ troubles' = troubles + 1
          /\ jobs' = [jobs EXCEPT ![r].todo = todo]
    /\ UNCHANGED <<run, tables, clock>>

\* runBackfillJob: before the run, and after it.
StartJob(r) == jobs[r].todo = "start" /\ UpdateJob(r, "running", "end")

EndJob(r) ==
    /\ jobs[r].todo = "end" /\ run[r].pc \in {"ok", "error"}
    /\ UpdateJob(r, IF run[r].pc = "ok" THEN "succeeded" ELSE "failed", "none")

\* prepare: load, write the files, discover, write the catalog.
Prepare(r) ==
    /\ run[r].pc = "prepare" /\ jobs[r].todo # "start"
    /\ run' = [run EXCEPT ![r].pc = "running", ![r].engine = "info",
                          ![r].ing = "read"]
    /\ UNCHANGED <<tables, jobs, clock, troubles>>

FailPrepare(r) ==
    /\ run[r].pc = "prepare" /\ jobs[r].todo # "start"
    /\ run' = [run EXCEPT ![r].pc = "error"]
    /\ UNCHANGED <<tables, jobs, clock, troubles>>

\* What an ingester keeps in memory is gone with it.
Dropped(r) == [run[r] EXCEPT !.pipe = <<>>, !.cur = NoEvent,
                             !.pairs = [s \in Streams |-> Unpaired]]

Gone == {"exit0", "exit1", "killed"}

\* The fault: the operation's error alone decides, once the process is gone.
ReturnUnaccounted(r) ==
    /\ run[r].pc = "running" /\ run[r].engine \in Gone
    /\ run' = [run EXCEPT ![r].pc = IF run[r].engine = "exit0" THEN "ok" ELSE "error"]
    /\ UNCHANGED <<tables, jobs, clock, troubles>>

\* pipeThrough and its caller: both goroutines have ended, ingest errors first.
Return(r) ==
    /\ run[r].pc = "running" /\ run[r].engine \in Gone
    /\ run[r].ing \in {"eof", "failed"}
    /\ run' = [run EXCEPT ![r].pc = IF run[r].ing = "eof" /\ run[r].engine = "exit0"
                                     THEN "ok" ELSE "error"]
    /\ UNCHANGED <<tables, jobs, clock, troubles>>

\* The control plane restarts: its goroutines are gone, the engines stay, and
\* nothing looks for the jobs that were running.
Restart ==
    /\ troubles < MaxTroubles
    /\ \E r \in Runs : run[r].pc \in {"prepare", "running"} \/ jobs[r].todo # "none"
    /\ troubles' = troubles + 1
    /\ run' = [r \in Runs |->
                 IF run[r].pc \in {"prepare", "running"}
                 THEN [Dropped(r) EXCEPT !.pc = "lost", !.ing = "off", !.sent = 0,
                                         !.stored = 0]
                 ELSE run[r]]
    /\ jobs' = [r \in Runs |-> [jobs[r] EXCEPT !.todo = "none"]]
    /\ UNCHANGED <<tables, clock>>

-----------------------------------------------------------------------------
(* The engine process.                                                     *)

\* The process is gone without success, and its memory with it.
Failed(r, code) == [run[r] EXCEPT !.engine = code, !.at = 1,
                                  !.match = [s \in Streams |-> TRUE]]

\* An event is written to the pipe and the process goes on to engine state pc.
\* After an ingest error events still disappear in the operating system's
\* pipe, until its reader is closed; then a write kills the process.
Emit(r, e, next) ==
    /\ \/ /\ run[r].pc = "running" /\ run[r].ing # "failed"
          /\ Len(run[r].pipe) < PipeCap
          /\ run' = [run EXCEPT ![r] = [next EXCEPT !.pipe = Append(@, e),
                                                    !.sent = @ + 1]]
       \/ /\ run[r].pc = "running" /\ run[r].ing = "failed"
          /\ run' = [run EXCEPT ![r] = next]
       \/ /\ run[r].pc = "lost" \/ run[r].ing = "failed"
          /\ run' = [run EXCEPT ![r] = Failed(r, "killed")]
    /\ UNCHANGED <<tables, jobs, troubles>>

Goto(r, engine) == [run[r] EXCEPT !.engine = engine]

EmitInfo(r) ==
    /\ run[r].engine = "info"
    /\ Emit(r, [kind |-> "info"], Goto(r, "setup"))
    /\ UNCHANGED clock

\* openConnector, the catalog, the destination or the state document fail:
\* the process ends without another event.
FailSetup(r) ==
    /\ run[r].engine = "setup"
    /\ run' = [run EXCEPT ![r] = Failed(r, "exit1")]
    /\ UNCHANGED <<tables, jobs, clock, troubles>>

EmitStarted(r) ==
    /\ run[r].engine = "setup"
    /\ Emit(r, [kind |-> "started"], Goto(r, "work"))
    /\ UNCHANGED clock

LastStream(r) == run[r].kind = "backfill" \/ run[r].at = NumStreams

\* A stream is read, written and closed; both digests are known.
WorkStream(r) ==
    /\ run[r].engine = "work"
    /\ \E same \in BOOLEAN :
          run' = [run EXCEPT ![r].engine = "source", ![r].match[run[r].at] = same]
    /\ UNCHANGED <<tables, jobs, clock, troubles>>

\* The fault: a stream that fails is skipped.
FailStreamSkipping(r) ==
    /\ run[r].engine = "work"
    /\ run' = [run EXCEPT ![r] = IF LastStream(r) THEN Goto(r, "finish")
                                 ELSE [Goto(r, "work") EXCEPT !.at = @ + 1]]
    /\ UNCHANGED <<tables, jobs, clock, troubles>>

\* The fault: the error goes to the exit code alone.
FailStreamSilently(r) ==
    /\ run[r].engine = "work"
    /\ run' = [run EXCEPT ![r] = Failed(r, "exit1")]
    /\ UNCHANGED <<tables, jobs, clock, troubles>>

\* runStream or runCDCGroup returns an error; a backfill has no event for it.
FailStream(r) ==
    /\ run[r].engine = "work"
    /\ run' = [run EXCEPT ![r] =
                 Failed(r, IF run[r].kind = "sync" THEN "failing" ELSE "exit1")]
    /\ UNCHANGED <<tables, jobs, clock, troubles>>

EmitFailed(r) ==
    /\ run[r].engine = "failing"
    /\ Emit(r, [kind |-> "failed"], Goto(r, "exit1"))
    /\ UNCHANGED clock

\* Every stream has a digest of its own, and another one when the sides differ.
Checksum(r, side) ==
    [kind |-> "checksum", stream |-> run[r].at, side |-> side,
     digest |-> IF side = "source" \/ run[r].match[run[r].at] THEN run[r].at
               ELSE NumStreams + run[r].at]

EmitSource(r) ==
    /\ run[r].engine = "source"
    /\ Emit(r, Checksum(r, "source"), Goto(r, "destination"))
    /\ UNCHANGED clock

EmitDestination(r) ==
    /\ run[r].engine = "destination"
    /\ Emit(r, Checksum(r, "destination"),
            IF LastStream(r) THEN Goto(r, "finish")
            ELSE [Goto(r, "work") EXCEPT !.at = @ + 1])
    /\ UNCHANGED clock

EmitFinished(r) ==
    /\ run[r].engine = "finish" /\ run[r].kind = "sync"
    /\ clock' = clock + 1
    /\ Emit(r, [kind |-> "finished", ts |-> clock + 1], Goto(r, "exit0"))

\* The closing verification of a backfill decides its exit code.
EmitVerified(r) ==
    /\ run[r].engine = "finish" /\ run[r].kind = "backfill"
    /\ \E same \in BOOLEAN :
          Emit(r, [kind |-> "verified", match |-> same],
               IF same THEN Goto(r, "exit0") ELSE Failed(r, "exit1"))
    /\ UNCHANGED clock

FailVerify(r) ==
    /\ run[r].engine = "finish" /\ run[r].kind = "backfill"
    /\ run' = [run EXCEPT ![r] = Failed(r, "exit1")]
    /\ UNCHANGED <<tables, jobs, clock, troubles>>

\* Killed from outside, perhaps in the middle of a line.
Kill(r) ==
    /\ troubles < MaxTroubles
    /\ run[r].engine \notin Gone \cup {"off"}
    /\ troubles' = troubles + 1
    /\ \E part \in {<<>>, <<[kind |-> "torn"]>>} :
          /\ part # <<>> => run[r].pc = "running" /\ run[r].ing # "failed"
                            /\ Len(run[r].pipe) < PipeCap
          /\ run' = [run EXCEPT ![r] = [Failed(r, "killed") EXCEPT !.pipe = @ \o part]]
    /\ UNCHANGED <<tables, jobs, clock>>

-----------------------------------------------------------------------------
(* The ingester.                                                           *)

\* The next line: skipped when it does not parse, else stored.  derive has
\* something to do for a checksum and for sync_finished, not for verify_result.
Insert(r) ==
    /\ run[r].ing = "read" /\ run[r].pipe # <<>>
    /\ LET x == run[r]
           e == Head(x.pipe)
           ing == IF e.kind \in {"checksum", "finished"} THEN "derive" ELSE "process"
       IN  run' = [run EXCEPT ![r] =
                     IF e.kind = "torn" THEN [x EXCEPT !.pipe = Tail(x.pipe)]
                     ELSE [x EXCEPT !.pipe = Tail(x.pipe), !.cur = e,
                                    !.stored = x.stored + 1, !.ing = ing]]
    /\ UNCHANGED <<tables, jobs, clock, troubles>>

\* The fault: the pair is neither per stream nor dropped once compared.
PairOfRun(r) ==
    LET c == run[r].cur
    IN  [s \in Streams |-> [run[r].pairs[s] EXCEPT ![c.side] = c.digest]]
CompareStale(r) ==
    /\ run[r].ing = "derive" /\ run[r].cur.kind = "checksum"
    /\ LET c == run[r].cur
           pair == PairOfRun(r)[c.stream]
           both == pair["source"] # 0 /\ pair["destination"] # 0
       IN  /\ diffs' = IF both
                       THEN Append(diffs, [run |-> r, stream |-> c.stream,
                                match |-> pair["source"] = pair["destination"]])
                       ELSE diffs
           /\ run' = [run EXCEPT ![r].ing = "process", ![r].pairs = PairOfRun(r)]
    /\ UNCHANGED <<metrics, failures, unheard, last_sync, jobs, clock, troubles>>

\* derive of a checksum: the second side of a stream makes the comparison.
Compare(r) ==
    /\ run[r].ing = "derive" /\ run[r].cur.kind = "checksum"
    /\ LET c == run[r].cur
           pair == [run[r].pairs[c.stream] EXCEPT ![c.side] = c.digest]
           both == pair["source"] # 0 /\ pair["destination"] # 0
       IN  /\ diffs' = IF both
                       THEN Append(diffs, [run |-> r, stream |-> c.stream,
                                match |-> pair["source"] = pair["destination"]])
                       ELSE diffs
           /\ run' = [run EXCEPT ![r].ing = "process",
                                 ![r].pairs[c.stream] = IF both THEN Unpaired ELSE pair]
    /\ UNCHANGED <<metrics, failures, unheard, last_sync, jobs, clock, troubles>>

\* derive of sync_finished: RecordMetric, then MarkSynced.
RecordMetric(r) ==
    /\ run[r].ing = "derive" /\ run[r].cur.kind = "finished"
    /\ metrics' = [q \in DOMAIN metrics \cup {r} |->
                     IF q = r THEN run[r].cur.ts ELSE metrics[q]]
    /\ run' = [run EXCEPT ![r].ing = "mark"]
    /\ UNCHANGED <<diffs, failures, unheard, last_sync, jobs, clock, troubles>>

MarkSynced(r) ==
    /\ run[r].ing = "mark"
    /\ last_sync' = run[r].cur.ts
    /\ run' = [run EXCEPT ![r].ing = "process"]
    /\ UNCHANGED <<diffs, metrics, failures, unheard, jobs, clock, troubles>>

\* The processor loads the rules and evaluates them (Incidents has what they make
\* of an event).  When a statement fails or a stored condition does not decode, the
\* event is dropped for the rules and ingestion goes on.
Process(r) ==
    /\ run[r].ing = "process"
    /\ IF run[r].cur.kind = "failed"
       THEN /\ failures' = failures \cup {r}
            /\ \/ UNCHANGED <<unheard, troubles>>
               \/ /\ troubles < MaxTroubles /\ troubles' = troubles + 1
                  /\ unheard' = unheard \cup {r}
       ELSE UNCHANGED <<failures, unheard, troubles>>
    /\ run' = [run EXCEPT ![r].ing = "read", ![r].cur = NoEvent]
    /\ UNCHANGED <<diffs, metrics, last_sync, jobs, clock>>

\* The fault: the pipe's reader stays open when the ingester has given up.
FailIngestSilently(r) ==
    /\ troubles < MaxTroubles
    /\ \/ run[r].ing = "read" /\ run[r].pipe # <<>>
       \/ run[r].ing \in {"derive", "mark"}
    /\ troubles' = troubles + 1
    /\ run' = [run EXCEPT ![r].ing = "stuck"]
    /\ UNCHANGED <<tables, jobs, clock>>

\* A statement fails: the ingester returns and closes its end of the pipe.
FailIngest(r) ==
    /\ troubles < MaxTroubles
    /\ \/ run[r].ing = "read" /\ run[r].pipe # <<>>
       \/ run[r].ing \in {"derive", "mark"}
    /\ troubles' = troubles + 1
    /\ run' = [run EXCEPT ![r] = [Dropped(r) EXCEPT !.ing = "failed"]]
    /\ UNCHANGED <<tables, jobs, clock>>

EndOfEvents(r) ==
    /\ run[r].ing = "read" /\ run[r].pipe = <<>> /\ run[r].engine \in Gone
    /\ run' = [run EXCEPT ![r].ing = "eof"]
    /\ UNCHANGED <<tables, jobs, clock, troubles>>

-----------------------------------------------------------------------------

Engine(r) ==
    \/ EmitInfo(r) \/ FailSetup(r) \/ EmitStarted(r)
    \/ WorkStream(r) \/ FailStream(r) \/ EmitFailed(r)
    \/ EmitSource(r) \/ EmitDestination(r)
    \/ EmitFinished(r) \/ EmitVerified(r) \/ FailVerify(r)

Ingest(r) ==
    \/ Insert(r) \/ Compare(r) \/ RecordMetric(r) \/ MarkSynced(r)
    \/ Process(r) \/ EndOfEvents(r)

Progress(r) ==
    \/ StartJob(r) \/ Prepare(r) \/ FailPrepare(r)
    \/ Engine(r) \/ Ingest(r) \/ Return(r) \/ EndJob(r)

Next ==
    \/ \E r \in Runs : \/ StartSync(r) \/ LaunchBackfill(r)
                       \/ Progress(r) \/ Kill(r) \/ FailIngest(r)
    \/ Restart

Spec == Init /\ [][Next]_vars

\* Processes and goroutines get to run, and a connector's call returns.
FairSpec ==
    /\ Spec
    /\ \A r \in Runs : WF_vars(Progress(r))

-----------------------------------------------------------------------------

\* The type of the state.
TypeOK ==
    /\ \A r \in Runs :
          /\ run[r].pc \in {"off", "prepare", "running", "ok", "error", "lost"}
          /\ run[r].at \in Streams /\ Len(run[r].pipe) <= PipeCap
          /\ jobs[r].status \in {"none", "queued", "running", "succeeded", "failed"}
          /\ jobs[r].todo \in {"none", "start", "end"}
    /\ DOMAIN metrics \subseteq Runs /\ failures \subseteq Runs /\ unheard \subseteq failures
    /\ last_sync \in 0 .. clock

Compared(r) == {d.stream : d \in {e \in Range(diffs) : e.run = r}}

\* A run that is reported as a success, by its return or by its job, is fully
\* accounted for: every event the engine emitted is stored, and a sync has its
\* metric and a comparison of every stream, whatever failed, died or overlapped in
\* the meantime.  Its job, if it has one, says so too or is about to; no job says
\* that it failed.  (A job whose UPDATE failed or was cut off by a restart stays as
\* it was, for good.)
SuccessIsAccounted ==
    \A r \in Runs : run[r].pc = "ok" \/ jobs[r].status = "succeeded" =>
        /\ run[r].stored = run[r].sent
        /\ run[r].kind = "sync" => r \in DOMAIN metrics /\ Compared(r) = Streams
        /\ run[r].kind = "backfill" => Compared(r) # {}
        /\ jobs[r].status # "failed"
        /\ jobs[r].status \in {"none", "succeeded"} \/ jobs[r].todo # "none" \/ troubles > 0

\* A sync with a metric, and the one last_sync_at is from, has compared every
\* stream and has not failed.
SyncedMeansCompared ==
    /\ \A r \in DOMAIN metrics : Compared(r) = Streams /\ r \notin failures
    /\ last_sync # 0 => \E r \in DOMAIN metrics : metrics[r] = last_sync

\* pipelineSelectSQL: the comparisons of the sync the newest one belongs to.
Badge ==
    \/ diffs = <<>>
    \/ \A d \in Range(diffs) : d.run = diffs[Len(diffs)].run => d.match

\* The badge of a sync that is complete says what the engine computed: green
\* exactly when both digests agreed for every stream.
BadgeTellsTruth ==
    \A r \in DOMAIN metrics :
        diffs[Len(diffs)].run = r =>
            (Badge <=> \A s \in Streams : run[r].match[s])

\* A sync that failed by itself after it had begun was handed to the rules when its
\* run returns, unless the ingestion failed too; and they saw it, unless a
\* statement failed or a stored condition did not decode at that moment.
FailureIsSeen ==
    \A r \in Runs :
        run[r].pc = "error" /\ run[r].kind = "sync" /\ run[r].engine = "exit1"
            /\ run[r].ing = "eof" /\ run[r].sent > 1 =>
        r \in failures /\ (r \in unheard => troubles > 0)

\* A run returns, whatever fails, so the scheduler's mark is cleared and the
\* job's end can be written; only a restart of the control plane loses it.
RunReturns ==
    \A r \in Runs : run[r].pc = "running" ~> run[r].pc \in {"ok", "error", "lost"}
=============================================================================
