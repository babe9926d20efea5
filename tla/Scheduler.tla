----------------------------- MODULE Scheduler -----------------------------
(***************************************************************************)
(* How the control plane starts engine processes: the scheduler's tick     *)
(* (scheduler.Scheduler with pgLister), the "run now" handler of the API   *)
(* (Server.runPipeline), the runner both call (runner.Run: load, discover, *)
(* sync, ingest), and the columns of the pipelines table they share.  The  *)
(* control plane may be restarted; engine processes outlive it.            *)
(*                                                                         *)
(* Abstractions.                                                           *)
(*  - last_sync_at is seen as its age against the schedule's interval.     *)
(*  - Every pipeline has a schedule; a run is a slot that is used again.   *)
(*  - Of the event stream only sync_finished matters here.  An engine      *)
(*    whose control plane is gone dies at its next write to the closed     *)
(*    pipe, so its sync_finished is never ingested.                        *)
(*  - Runs that never return are left out: Run has no timeout.             *)
(***************************************************************************)
EXTENDS SchedulerState, Integers

CONSTANTS ManualRuns,   \* TRUE: users start runs through the API
          MaxFails,     \* bound on failed runs
          MaxRestarts   \* bound on restarts of the control plane

ASSUME SchedulerAssumption == /\ ManualRuns \in BOOLEAN
                              /\ MaxFails \in Nat
                              /\ MaxRestarts \in Nat

table == <<status, age>>
run   == <<stage, pipe, by>>
vars  == <<table, due, running, run, fails, restarts>>

Stages == {"idle", "spawned", "loaded", "syncing", "synced", "ended", "orphan"}

TypeOK == /\ status \in [Pipelines -> {"active", "paused", "archived"}]
          /\ age \in [Pipelines -> {"never", "recent", "old"}]
          /\ due \subseteq Pipelines
          /\ running \subseteq Pipelines
          /\ stage \in [Slots -> Stages]
          /\ pipe \in [Slots -> Pipelines]
          /\ by \in [Slots -> {"scheduler", "api"}]
          /\ fails \in 0..MaxFails
          /\ restarts \in 0..MaxRestarts

Init == /\ status = [p \in Pipelines |-> "active"]
        /\ age = [p \in Pipelines |-> "never"]
        /\ due = {}
        /\ running = {}
        /\ stage = [s \in Slots |-> "idle"]
        /\ pipe \in [Slots -> Pipelines]
        /\ by = [s \in Slots |-> "scheduler"]
        /\ fails = 0
        /\ restarts = 0

-----------------------------------------------------------------------------
(* The pipelines table: time passes, users pause, resume and archive.      *)

Age(p) == /\ age[p] = "recent"
          /\ age' = [age EXCEPT ![p] = "old"]
          /\ UNCHANGED <<status, due, running, run, fails, restarts>>

\* Service.SetStatus takes any status to any other.
SetStatus(p, to) == /\ status' = [status EXCEPT ![p] = to]
                    /\ UNCHANGED <<age, due, running, run, fails, restarts>>

-----------------------------------------------------------------------------
(* The scheduler.                                                          *)

\* tick reads the active pipelines with their last_sync_at; isDue judges the
\* values read, whatever becomes of them while the loop runs.
Tick == /\ due = {}
        /\ due' = {p \in Pipelines : status[p] = "active" /\ age[p] # "recent"}
        /\ due' # {}
        /\ UNCHANGED <<table, running, run, fails, restarts>>

\* The go statement: a new run in a free slot.
Spawn(s, p, who) == /\ stage[s] = "idle"
                    /\ stage' = [stage EXCEPT ![s] = "spawned"]
                    /\ pipe' = [pipe EXCEPT ![s] = p]
                    /\ by' = [by EXCEPT ![s] = who]

\* markRunning finds the pipeline in flight.
Skip(p) == /\ p \in due
           /\ p \in running
           /\ due' = due \ {p}
           /\ UNCHANGED <<table, running, run, fails, restarts>>

\* Fault: the in-flight mark is set but not tested.
TriggerUnchecked(p, s) == /\ p \in due
                          /\ due' = due \ {p}
                          /\ running' = running \cup {p}
                          /\ Spawn(s, p, "scheduler")
                          /\ UNCHANGED <<table, fails, restarts>>

Trigger(p, s) == /\ p \in due
                 /\ p \notin running
                 /\ due' = due \ {p}
                 /\ running' = running \cup {p}
                 /\ Spawn(s, p, "scheduler")
                 /\ UNCHANGED <<table, fails, restarts>>

-----------------------------------------------------------------------------
(* A run: runner.Run in a goroutine, and the engine process it waits for.  *)

\* runPipeline asks neither the status nor the scheduler.
RunNow(p, s) == /\ ManualRuns
                /\ Spawn(s, p, "api")
                /\ UNCHANGED <<table, due, running, fails, restarts>>

\* Loader.Load, which refuses archived pipelines.
Load(s) == /\ stage[s] = "spawned"
           /\ stage' = [stage EXCEPT ![s] =
                IF status[pipe[s]] = "archived" THEN "ended" ELSE "loaded"]
           /\ UNCHANGED <<table, due, running, pipe, by, fails, restarts>>

\* discover is over, the catalog written: lsengine sync starts.
StartSync(s) == /\ stage[s] = "loaded"
                /\ stage' = [stage EXCEPT ![s] = "syncing"]
                /\ UNCHANGED <<table, due, running, pipe, by, fails, restarts>>

\* The ingester derives last_sync_at from sync_finished (MarkSynced).
SyncFinished(s) == /\ stage[s] = "syncing"
                   /\ stage' = [stage EXCEPT ![s] = "synced"]
                   /\ age' = [age EXCEPT ![pipe[s]] = "recent"]
                   /\ UNCHANGED <<status, due, running, pipe, by, fails,
                                  restarts>>

\* The process exits and the pipe is drained.
Exit(s) == /\ stage[s] = "synced"
           /\ stage' = [stage EXCEPT ![s] = "ended"]
           /\ UNCHANGED <<table, due, running, pipe, by, fails, restarts>>

\* Load, discover, the sync or the ingest of its events fails.
FailRun(s) == /\ stage[s] \in {"spawned", "loaded", "syncing"}
              /\ fails < MaxFails
              /\ stage' = [stage EXCEPT ![s] = "ended"]
              /\ fails' = fails + 1
              /\ UNCHANGED <<table, due, running, pipe, by, restarts>>

\* Fault: any run of a pipeline clears its in-flight mark.
ReturnAnyClears(s) == /\ stage[s] = "ended"
                      /\ stage' = [stage EXCEPT ![s] = "idle"]
                      /\ running' = running \ {pipe[s]}
                      /\ UNCHANGED <<table, due, pipe, by, fails, restarts>>

\* Fault: the mark of a run that did not sync stays.
ReturnLeaking(s) == /\ stage[s] = "ended"
                    /\ stage' = [stage EXCEPT ![s] = "idle"]
                    /\ running' = IF by[s] = "scheduler" /\ age[pipe[s]] = "recent"
                                    THEN running \ {pipe[s]} ELSE running
                    /\ UNCHANGED <<table, due, pipe, by, fails, restarts>>

\* Run returns; a scheduled run's deferred clearRunning drops the mark.
Return(s) == /\ stage[s] = "ended"
             /\ stage' = [stage EXCEPT ![s] = "idle"]
             /\ running' = IF by[s] = "scheduler" THEN running \ {pipe[s]}
                                                  ELSE running
             /\ UNCHANGED <<table, due, pipe, by, fails, restarts>>

-----------------------------------------------------------------------------
(* A restart of the control plane, by a crash or a deploy.  Runs have a    *)
(* background context: nothing waits for them and nothing kills their      *)
(* process.                                                                *)

Restart == /\ restarts < MaxRestarts
           /\ restarts' = restarts + 1
           /\ due' = {}
           /\ running' = {}
           /\ stage' = [s \in Slots |->
                          IF stage[s] \in Alive THEN "orphan" ELSE "idle"]
           /\ UNCHANGED <<table, pipe, by, fails>>

OrphanDies(s) == /\ stage[s] = "orphan"
                 /\ stage' = [stage EXCEPT ![s] = "idle"]
                 /\ UNCHANGED <<table, due, running, pipe, by, fails, restarts>>

-----------------------------------------------------------------------------
Loop == Tick \/ \E p \in Pipelines : Skip(p) \/ \E s \in Slots : Trigger(p, s)

RunStep(s) == \/ Load(s) \/ StartSync(s) \/ SyncFinished(s) \/ Exit(s)
              \/ FailRun(s) \/ Return(s) \/ OrphanDies(s)

Users == \E p \in Pipelines : \/ \E to \in {"active", "paused", "archived"} : SetStatus(p, to)
                              \/ \E s \in Slots : RunNow(p, s)

Next == \/ Loop \/ Users \/ Restart
        \/ \E p \in Pipelines : Age(p)
        \/ \E s \in Slots : RunStep(s)

Spec == Init /\ [][Next]_vars

\* The ticker keeps firing and the tick's loop goes over what it listed; the
\* goroutine of a run proceeds and an engine process ends.  The fairness of the
\* loop is strong because it may find every slot taken by manual runs, while the
\* code can always start one more goroutine.
FairSpec == /\ Spec
            /\ WF_vars(Tick)
            /\ \A p \in Pipelines : SF_vars(Skip(p) \/ \E s \in Slots : Trigger(p, s))
            /\ \A s \in Slots : WF_vars(RunStep(s))

-----------------------------------------------------------------------------
(* Properties.                                                             *)

(***************************************************************************)
(* A pipeline that stays active is synced again and again, through failed  *)
(* runs, pauses and restarts of the control plane.                         *)
(***************************************************************************)
KeepsSyncing ==
  \A p \in Pipelines : <>[](status[p] = "active") => []<>(age[p] = "recent")
=============================================================================
