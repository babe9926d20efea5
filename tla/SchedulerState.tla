--------------------------- MODULE SchedulerState ---------------------------
(***************************************************************************)
(* What the control plane and its engine processes hold about runs, and    *)
(* what must be true of it at any time: the columns of the pipelines table *)
(* that decide about runs, the scheduler's in-flight marks and the runs in *)
(* progress.  Scheduler has the steps.                                     *)
(***************************************************************************)

CONSTANTS Pipelines,
          Slots         \* bound on the runs in progress at a time

VARIABLES
  status,    \* pipelines.status
  age,       \* pipelines.last_sync_at: "never", "recent", "old"
  due,       \* pipelines this tick still has to consider
  running,   \* Scheduler.running
  stage,     \* how far the run in a slot is
  pipe,      \* its pipeline
  by,        \* who started it: "scheduler" or "api"
  fails,     \* failed runs so far
  restarts   \* restarts so far

\* A sync process exists, and a goroutine waits for one.
Alive    == {"syncing", "synced", "orphan"}
Attended == {"spawned", "loaded", "syncing", "synced", "ended"}

-----------------------------------------------------------------------------
\* Two runs have a sync process for one pipeline at the same time.
Overlap(s, t) == /\ s # t
                 /\ pipe[s] = pipe[t]
                 /\ stage[s] \in Alive /\ stage[t] \in Alive

(***************************************************************************)
(* A pipeline never has two sync processes, which would share its state    *)
(* document and its destination files ("never overlapping a pipeline with  *)
(* itself").                                                               *)
(***************************************************************************)
NeverOverlap == \A s, t \in Slots : ~Overlap(s, t)

(***************************************************************************)
(* The scheduler keeps its own promise: the runs it started and still      *)
(* waits for never overlap, whatever users start beside them.              *)
(***************************************************************************)
ScheduledNeverOverlap ==
  \A s, t \in Slots : Overlap(s, t) => \E x \in {s, t} : \/ by[x] = "api"
                                                         \/ stage[x] = "orphan"

(***************************************************************************)
(* The in-flight marks are exactly the pipelines a scheduled run of this   *)
(* process is in progress for: none leaks, which would stop the pipeline's *)
(* schedule for good, and none is dropped early by a run of someone else.  *)
(***************************************************************************)
MarksMatchRuns ==
  running = {pipe[s] : s \in {x \in Slots : by[x] = "scheduler" /\ stage[x] \in Attended}}
=============================================================================
