------------------------------ MODULE FullLoad ------------------------------
(***************************************************************************)
(* The resumable full load of one stream (syncrun.runner.runFullLoad),     *)
(* with the chunk plan in the state document (state.Document), the         *)
(* destination writer (ndjsonStreamWriter or parquetStreamWriter) and a    *)
(* source whose rows change while the load reads them.  The engine is one  *)
(* process per run: it may stop at any point, by an error return or a      *)
(* kill, and a later run resumes from the state document.                  *)
(*                                                                         *)
(* Abstractions.                                                           *)
(*  - A row is its primary key; its chunk is the range of the plan it      *)
(*    falls in.  Chunks are numbered in plan order and together cover the  *)
(*    key space (SplitChunks leaves the outer bounds open).                *)
(*  - A query has no ORDER BY, so the rows of a chunk come in any order.   *)
(*  - The bytes of an NDJSON file are seen as whole lines plus the state   *)
(*    of its end; a Parquet directory as the rows of its part-files plus   *)
(*    whether a half-written part is among them.                           *)
(***************************************************************************)
EXTENDS Integers, FiniteSets

CONSTANTS Rows,        \* primary keys the source table may hold
          NumChunks,   \* chunks SplitChunks plans
          Format,      \* destination type: "ndjson" or "parquet"
          Relocates,   \* TRUE: an update may move a row to another chunk
                       \* (ctid ranges); FALSE: keyset ranges
          MaxWrites,   \* bound on source writes
          MaxStops     \* bound on interrupted runs

ASSUME FullLoadAssumption == /\ NumChunks \in Nat \ {0}
                             /\ Format \in {"ndjson", "parquet"}
                             /\ Relocates \in BOOLEAN
                             /\ MaxWrites \in Nat
                             /\ MaxStops \in Nat

Chunks == 1..NumChunks

VARIABLES
  present,    \* rows the source table holds
  loc,        \* chunk a row lies in (or would, when absent)
  writes,     \* source writes so far
  planned,    \* state document: StreamState.Chunks is non-nil
  remaining,  \* state document: the chunks it still lists
  stored,     \* rows with a readable record in the destination
  tail,       \* end of the destination: "whole", "torn", "glued"
  stale,      \* the destination holds rows of an earlier load
  pc,         \* where the engine process is; "down" when there is none
  fresh,      \* runFullLoad's fresh: no chunk plan was found in state
  todo,       \* runFullLoad's remaining: chunks this run still has to read
  chunk,      \* the chunk being read
  snap,       \* rows the chunk's snapshot holds
  unread,     \* rows of the snapshot not yet handed to the writer
  buf,        \* rows written and not yet flushed
  stops,      \* interrupted runs so far
  claimed,    \* history: snapshots of the chunks completed in state
  steady,     \* history: rows in the source ever since the plan was made
  swallowed   \* history: rows whose line continued a torn line

source == <<present, loc, writes>>
doc    == <<planned, remaining>>
dest   == <<stored, tail, stale>>
proc   == <<pc, fresh, todo, chunk, snap, unread, buf>>
vars   == <<source, doc, dest, proc, stops, claimed, steady, swallowed>>

PCs == {"down", "plan", "open", "next", "read", "flushed"}

TypeOK == /\ present \subseteq Rows
          /\ loc \in [Rows -> Chunks]
          /\ writes \in 0..MaxWrites
          /\ planned \in BOOLEAN
          /\ remaining \subseteq Chunks
          /\ stored \subseteq Rows
          /\ tail \in {"whole", "torn", "glued"}
          /\ stale \in BOOLEAN
          /\ pc \in PCs
          /\ fresh \in BOOLEAN
          /\ todo \subseteq Chunks
          /\ chunk \in Chunks
          /\ snap \subseteq Rows
          /\ unread \subseteq Rows
          /\ buf \subseteq Rows
          /\ stops \in 0..MaxStops
          /\ claimed \subseteq Rows
          /\ steady \subseteq Rows
          /\ swallowed \subseteq Rows

Init == /\ present \in SUBSET Rows
        /\ loc \in [Rows -> Chunks]
        /\ writes = 0
        /\ planned = FALSE
        /\ remaining = {}
        /\ stored = {}
        /\ tail = "whole"
        /\ stale \in BOOLEAN
        /\ pc = "down"
        /\ fresh = FALSE
        /\ todo = {}
        /\ chunk = 1
        /\ snap = {}
        /\ unread = {}
        /\ buf = {}
        /\ stops = 0
        /\ claimed = {}
        /\ steady = {}
        /\ swallowed = {}

-----------------------------------------------------------------------------
(* The source table, which other clients write to.                         *)

Insert(r) == /\ r \notin present
             /\ writes < MaxWrites
             /\ present' = present \cup {r}
             /\ loc' \in IF Relocates THEN {[loc EXCEPT ![r] = c] : c \in Chunks}
                                      ELSE {loc}
             /\ writes' = writes + 1
             /\ UNCHANGED <<doc, dest, proc, stops, claimed, steady, swallowed>>

Delete(r) == /\ r \in present
             /\ writes < MaxWrites
             /\ present' = present \ {r}
             /\ steady' = steady \ {r}
             /\ writes' = writes + 1
             /\ UNCHANGED <<loc, doc, dest, proc, stops, claimed, swallowed>>

\* An UPDATE writes a new row version on another page: under ctid ranges the
\* row changes chunk.
Relocate(r) == /\ Relocates
               /\ r \in present
               /\ writes < MaxWrites
               /\ \E c \in Chunks \ {loc[r]} : loc' = [loc EXCEPT ![r] = c]
               /\ writes' = writes + 1
               /\ UNCHANGED <<present, doc, dest, proc, stops, claimed, steady,
                              swallowed>>

-----------------------------------------------------------------------------
(* One run of the engine.                                                  *)

\* cli.runSync loads the state document; RemainingChunks decides fresh.
Start == /\ pc = "down"
         /\ fresh' = ~planned
         /\ todo' = remaining
         /\ pc' = IF planned THEN "open" ELSE "plan"
         /\ UNCHANGED <<source, doc, dest, chunk, snap, unread, buf, stops,
                        claimed, steady, swallowed>>

\* What persisting the plan cs changes.
RecordPlan(cs) == /\ pc = "plan"
                  /\ planned' = TRUE
                  /\ remaining' = cs
                  /\ todo' = cs
                  /\ steady' = present
                  /\ pc' = "open"
                  /\ UNCHANGED <<source, dest, fresh, chunk, snap, unread, buf,
                                 stops, claimed, swallowed>>

\* Fault: no chunk covers the keys above the planned maximum.
PlanChunksClosed == RecordPlan(Chunks \ {NumChunks})

\* SplitChunks, then SetChunks: the plan is on disk before anything is read.
PlanChunks == RecordPlan(Chunks)

\* Fault: every run opens the destination with truncate set.
OpenWriterTruncating == /\ pc = "open"
                        /\ stored' = {} /\ tail' = "whole" /\ stale' = FALSE
                        /\ pc' = "next"
                        /\ UNCHANGED <<source, doc, fresh, todo, chunk, snap,
                                       unread, buf, stops, claimed, steady,
                                       swallowed>>

\* Fault: a run does not truncate when it has chunks to read.
OpenWriterAppending == /\ pc = "open"
                       /\ IF fresh /\ todo = {}
                            THEN stored' = {} /\ tail' = "whole" /\ stale' = FALSE
                            ELSE UNCHANGED dest
                       /\ pc' = "next"
                       /\ UNCHANGED <<source, doc, fresh, todo, chunk, snap,
                                      unread, buf, stops, claimed, steady,
                                      swallowed>>

\* Writer.Open(truncate = fresh): O_TRUNC or removal of the part-files when
\* fresh, O_APPEND or a new part prefix otherwise.
OpenWriter == /\ pc = "open"
              /\ IF fresh
                   THEN stored' = {} /\ tail' = "whole" /\ stale' = FALSE
                   ELSE UNCHANGED dest
              /\ pc' = "next"
              /\ UNCHANGED <<source, doc, fresh, todo, chunk, snap, unread, buf,
                             stops, claimed, steady, swallowed>>

\* ReadChunk opens its own snapshot of the source for the first chunk left.
BeginChunk == /\ pc = "next"
              /\ \E c \in todo : /\ \A d \in todo : c <= d
                                 /\ chunk' = c
                                 /\ snap' = {r \in present : loc[r] = c}
              /\ unread' = snap'
              /\ pc' = "read"
              /\ UNCHANGED <<source, doc, dest, fresh, todo, buf, stops,
                             claimed, steady, swallowed>>

\* handleRow -> WriteRow.  When the file ends in a torn line, the first line
\* of this run continues it and the two are one unreadable line.
EmitRow(r) == /\ pc = "read"
              /\ r \in unread
              /\ unread' = unread \ {r}
              /\ IF Format = "ndjson" /\ tail = "torn"
                   THEN /\ tail' = "glued"
                        /\ swallowed' = swallowed \cup {r}
                        /\ UNCHANGED buf
                   ELSE /\ buf' = buf \cup {r}
                        /\ UNCHANGED <<tail, swallowed>>
              /\ UNCHANGED <<source, doc, stored, stale, pc, fresh, todo, chunk,
                             snap, stops, claimed, steady>>

\* What Flush does to the destination, and Close again before it closes it.
FlushWriter == /\ stored' = stored \cup buf
               /\ buf' = {}
               /\ tail' = IF tail = "glued" THEN "whole" ELSE tail

\* Fault: the chunk's rows are left to Close.
FlushChunkSkipped == /\ pc = "read"
                     /\ unread = {}
                     /\ pc' = "flushed"
                     /\ UNCHANGED <<source, doc, dest, fresh, todo, chunk, snap,
                                    unread, buf, stops, claimed, steady,
                                    swallowed>>

\* StreamWriter.Flush once the chunk is read to its end.
FlushChunk == /\ pc = "read"
              /\ unread = {}
              /\ FlushWriter
              /\ pc' = "flushed"
              /\ UNCHANGED <<source, doc, stale, fresh, todo, chunk, snap,
                             unread, stops, claimed, steady, swallowed>>

\* Fault: a chunk is completed when its rows are read, before they are flushed.
CompleteChunkEarly == /\ pc = "read"
                      /\ unread = {}
                      /\ remaining' = remaining \ {chunk}
                      /\ todo' = todo \ {chunk}
                      /\ claimed' = claimed \cup snap
                      /\ snap' = {}
                      /\ pc' = "next"
                      /\ UNCHANGED <<source, planned, dest, fresh, chunk, unread,
                                     buf, stops, steady, swallowed>>

\* Fault: the run drops the chunk from its own list only.
CompleteChunkUnsaved == /\ pc = "flushed"
                        /\ todo' = todo \ {chunk}
                        /\ claimed' = claimed \cup snap
                        /\ snap' = {}
                        /\ pc' = "next"
                        /\ UNCHANGED <<source, doc, dest, fresh, chunk, unread,
                                       buf, stops, steady, swallowed>>

\* Document.CompleteChunk rewrites the state document without the chunk.
CompleteChunk == /\ pc = "flushed"
                 /\ remaining' = remaining \ {chunk}
                 /\ todo' = todo \ {chunk}
                 /\ claimed' = claimed \cup snap
                 /\ snap' = {}
                 /\ pc' = "next"
                 /\ UNCHANGED <<source, planned, dest, fresh, chunk, unread, buf,
                                stops, steady, swallowed>>

\* finishStream: every chunk is done, the writer is closed, the run ends.
FinishStream == /\ pc = "next"
                /\ todo = {}
                /\ FlushWriter
                /\ pc' = "down"
                /\ UNCHANGED <<source, doc, stale, fresh, todo, chunk, snap,
                               unread, stops, claimed, steady, swallowed>>

-----------------------------------------------------------------------------
(* The run ends early: a read, write or emit error returns without closing *)
(* the writer, or the process is killed.  What was buffered is lost except *)
(* for what already reached the destination.                               *)

\* bufio writes full 4096-byte blocks whatever the line boundaries are, so a
\* prefix of the buffered lines may be in the file, the last one cut.
NdjsonRemains(kept, end) ==
  /\ kept \subseteq buf
  /\ end = "torn"  => \/ buf \ kept # {}
                      \/ kept = {} /\ tail # "whole"
  /\ end = "whole" => kept # {} \/ tail # "torn"

\* A part-file is written under its final name: a kill inside Flush leaves it
\* half-written; before Flush nothing has reached the directory.
ParquetRemains(kept, end) ==
  /\ kept = {}
  /\ \/ end = tail
     \/ end = "torn" /\ pc = "read" /\ unread = {} /\ buf # {}

Stop == /\ pc # "down"
        /\ stops < MaxStops
        /\ \E kept \in SUBSET buf, end \in {"whole", "torn"} :
              /\ IF Format = "ndjson" THEN NdjsonRemains(kept, end)
                                      ELSE ParquetRemains(kept, end)
              /\ stored' = stored \cup kept
              /\ tail' = end
        /\ pc' = "down"
        /\ todo' = {}
        /\ snap' = {}
        /\ unread' = {}
        /\ buf' = {}
        /\ stops' = stops + 1
        /\ UNCHANGED <<source, doc, stale, fresh, chunk, claimed, steady,
                       swallowed>>

-----------------------------------------------------------------------------
SourceNext == \E r \in Rows : Insert(r) \/ Delete(r) \/ Relocate(r)

Run == \/ Start \/ PlanChunks \/ OpenWriter \/ BeginChunk
       \/ \E r \in Rows : EmitRow(r)
       \/ FlushChunk \/ CompleteChunk \/ FinishStream

Next == SourceNext \/ Run \/ Stop

Spec == Init /\ [][Next]_vars

\* The control plane starts a due pipeline again after a failed run, and a
\* running engine keeps running until it returns or is stopped.
FairSpec == Spec /\ WF_vars(Run)

-----------------------------------------------------------------------------
(* Properties.                                                             *)

(***************************************************************************)
(* Every row that was in the snapshot of a chunk the state document counts *)
(* as done has a readable record in the destination, at every instant:     *)
(* what runFullLoad's comment asks of Flush before CompleteChunk.          *)
(***************************************************************************)
CompletedChunksDurable == claimed \subseteq stored

(***************************************************************************)
(* A resumed run reads no chunk the state document has already dropped, so *)
(* a chunk is never completed twice.                                       *)
(***************************************************************************)
ReadsOnlyRemaining == pc \in {"read", "flushed"} => chunk \in remaining

(***************************************************************************)
(* When the state document says the load is over, the destination has      *)
(* every row that was in the source all along, whatever runs were          *)
(* interrupted and whatever else the source did meanwhile.                 *)
(***************************************************************************)
LoadIsComplete == planned /\ remaining = {} => steady \subseteq stored

(***************************************************************************)
(* A load that was never interrupted left no row of an earlier load in the *)
(* destination: only its first run, which asked for a fresh destination,   *)
(* opened it.  (A stop between saving the plan and opening the writer does *)
(* leave such rows: the next run appends to them.)                         *)
(***************************************************************************)
NothingOldSurvives == planned /\ remaining = {} /\ stops = 0 => ~stale

(***************************************************************************)
(* With NDJSON, an interrupted run costs the completed chunks at most one  *)
(* row: the one whose line continued the torn line.                        *)
(***************************************************************************)
TornLossIsBounded == /\ claimed \ stored \subseteq swallowed
                     /\ Cardinality(claimed \ stored) <= stops

(***************************************************************************)
(* The full load implements the write-ahead contract, with the rows of the *)
(* completed chunks as claims.                                             *)
(***************************************************************************)
WA == INSTANCE WriteAhead WITH Items <- Rows
ImplementsWriteAhead == WA!Spec

(***************************************************************************)
(* The load ends: with finitely many interruptions every chunk is read in  *)
(* the end, because a resumed run starts from what is left.                *)
(***************************************************************************)
EventuallyLoaded == <>(planned /\ remaining = {} /\ pc = "down")
=============================================================================
