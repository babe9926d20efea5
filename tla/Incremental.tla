---------------------------- MODULE Incremental ----------------------------
(***************************************************************************)
(* An incremental sync of one stream (syncrun.runner.runIncremental with a *)
(* connector's ReadIncrement): read the rows whose cursor column is above  *)
(* the watermark of the state document, flush them, advance the watermark. *)
(* The source's clients write in transactions that take their cursor value *)
(* (a sequence number, now()) when they begin and become visible when they *)
(* commit.                                                                 *)
(*                                                                         *)
(* Abstractions.                                                           *)
(*  - A row version is the row with the number of its last write.  Deletes *)
(*    are not modelled: an incremental read does not see them.             *)
(*  - Cursor values are positive numbers; formatCursor and parseCursor     *)
(*    keep their order.                                                    *)
(*  - The query has one snapshot.  runIncremental has no deferred Close,   *)
(*    so an error return loses the buffer just as a kill does.             *)
(*  - An NDJSON file may be left ending inside a line, and the first row   *)
(*    of the next run then continues that line: neither can be read.  Of   *)
(*    Parquet only whole part-files are modelled here.                     *)
(***************************************************************************)
EXTENDS Integers, FiniteSets

CONSTANTS Rows,        \* rows the table may hold
          MaxCursor,   \* bound on cursor values
          MaxWrites,   \* bound on the writes of a row
          MaxStops,    \* bound on interrupted runs
          Format,      \* the destination's format, "ndjson" (the default) or
                       \* "parquet"
          CommitOrder  \* how commits follow cursor values: "strict" (each
                       \* above all before it), "ties" (none below one
                       \* before it), "late" (any order, no two equal)

ASSUME IncrementalAssumption == /\ MaxCursor \in Nat \ {0}
                                /\ MaxWrites \in Nat
                                /\ MaxStops \in Nat
                                /\ IsFiniteSet(Rows)
                                /\ Format \in {"ndjson", "parquet"}
                                /\ CommitOrder \in {"strict", "ties", "late"}

NoCursor == 0

VARIABLES
  clock,      \* the cursor value a transaction that begins now takes
  pending,    \* cursor of the row's open transaction, NoCursor: none
  cur,        \* cursor of the row's committed version, NoCursor: no row
  ver,        \* number of that version
  watermark,  \* state document: Cursor(field), NoCursor when absent
  stored,     \* <<row, version>> pairs the destination has readable records of
  tail,       \* end of the destination's file: "whole", "torn", or "glued",
              \* when the line that continues a torn one is still buffered
  pc,         \* where the run is: "down", "open", "read", "flushed", "saved"
  viewCur,    \* cur in the query's snapshot
  viewVer,    \* ver in the query's snapshot
  unread,     \* rows of the query not yet read
  newCursor,  \* ReadIncrement's newCursor
  buf,        \* <<row, version>> pairs written and not yet flushed
  stops,      \* interrupted runs so far
  claimed,    \* history: <<row, version>> pairs a watermark was saved for
  swallowed   \* history: pairs with a record that continued a torn line of
              \* this destination

source == <<clock, pending, cur, ver>>
query  == <<viewCur, viewVer, unread, newCursor>>
dest   == <<stored, tail, swallowed>>
vars   == <<source, watermark, dest, pc, query, buf, stops, claimed>>

Versions == Rows \X (0..MaxWrites)
Cursors  == 0..MaxCursor

TypeOK == /\ clock \in 1..MaxCursor
          /\ pending \in [Rows -> Cursors]
          /\ cur \in [Rows -> Cursors]
          /\ ver \in [Rows -> 0..MaxWrites]
          /\ watermark \in Cursors
          /\ stored \subseteq Versions
          /\ tail \in {"whole", "torn", "glued"}
          /\ swallowed \subseteq Versions
          /\ pc \in {"down", "open", "read", "flushed", "saved"}
          /\ viewCur \in [Rows -> Cursors]
          /\ viewVer \in [Rows -> 0..MaxWrites]
          /\ unread \subseteq Rows
          /\ newCursor \in Cursors
          /\ buf \subseteq Versions
          /\ stops \in 0..MaxStops
          /\ claimed \subseteq Versions

Init == /\ clock = 1
        /\ pending = [r \in Rows |-> NoCursor]
        /\ cur = [r \in Rows |-> NoCursor]
        /\ ver = [r \in Rows |-> 0]
        /\ watermark = NoCursor
        /\ stored = {}
        /\ tail = "whole"
        /\ swallowed = {}
        /\ pc = "down"
        /\ viewCur = cur
        /\ viewVer = ver
        /\ unread = {}
        /\ newCursor = NoCursor
        /\ buf = {}
        /\ stops = 0
        /\ claimed = {}

-----------------------------------------------------------------------------
(* The source's clients.                                                   *)

Tick == /\ clock < MaxCursor
        /\ clock' = clock + 1
        /\ UNCHANGED <<pending, cur, ver, watermark, dest, pc, query, buf,
                       stops, claimed>>

Begin(r) == /\ pending[r] = NoCursor
            /\ ver[r] < MaxWrites
            /\ pending' = [pending EXCEPT ![r] = clock]
            /\ UNCHANGED <<clock, cur, ver, watermark, dest, pc, query, buf,
                           stops, claimed>>

\* The row is written with the cursor its transaction took.
Commit(r) == /\ pending[r] # NoCursor
             /\ CommitOrder = "strict" => \A q \in Rows : cur[q] < pending[r]
             /\ CommitOrder = "ties"   => \A q \in Rows : cur[q] <= pending[r]
             /\ CommitOrder = "late"   => \A q \in Rows : cur[q] # pending[r]
             /\ cur' = [cur EXCEPT ![r] = pending[r]]
             /\ ver' = [ver EXCEPT ![r] = ver[r] + 1]
             /\ pending' = [pending EXCEPT ![r] = NoCursor]
             /\ UNCHANGED <<clock, watermark, dest, pc, query, buf, stops,
                            claimed>>

Abort(r) == /\ pending[r] # NoCursor
            /\ pending' = [pending EXCEPT ![r] = NoCursor]
            /\ UNCHANGED <<clock, cur, ver, watermark, dest, pc, query, buf,
                           stops, claimed>>

-----------------------------------------------------------------------------
(* One run.                                                                *)

\* Writer.Open, truncating when state has no cursor.
Open == /\ pc = "down"
        /\ IF watermark = NoCursor
             THEN stored' = {} /\ tail' = "whole" /\ swallowed' = {}
             ELSE UNCHANGED dest
        /\ pc' = "open"
        /\ UNCHANGED <<source, watermark, query, buf, stops, claimed>>

\* The query of ReadIncrement: WHERE cursor > since, or all rows.
Query == /\ pc = "open"
         /\ viewCur' = cur
         /\ viewVer' = ver
         /\ unread' = {r \in Rows : cur[r] > watermark}
         /\ newCursor' = watermark
         /\ pc' = "read"
         /\ UNCHANGED <<source, watermark, dest, buf, stops, claimed>>

\* ORDER BY cursor: the row read last has the highest cursor.  handleRow ->
\* WriteRow: when the file ends in a torn line, the first row written to it
\* continues that line.
ReadRow(r) == /\ pc = "read"
              /\ r \in unread
              /\ \A q \in unread : viewCur[r] <= viewCur[q]
              /\ unread' = unread \ {r}
              /\ newCursor' = viewCur[r]
              /\ IF tail = "torn"
                   THEN /\ tail' = "glued"
                        /\ swallowed' = swallowed \cup {<<r, viewVer[r]>>}
                        /\ UNCHANGED buf
                   ELSE /\ buf' = buf \cup {<<r, viewVer[r]>>}
                        /\ UNCHANGED <<tail, swallowed>>
              /\ UNCHANGED <<source, watermark, stored, pc, viewCur, viewVer,
                             stops, claimed>>

\* What Flush does to the destination, and Close again before it closes it.
FlushWriter == /\ stored' = stored \cup buf
               /\ buf' = {}
               /\ tail' = IF tail = "glued" THEN "whole" ELSE tail
               /\ UNCHANGED swallowed

\* Fault: the rows are left to Close, after the watermark is saved.
FlushSkipped == /\ pc = "read"
                /\ unread = {}
                /\ newCursor # watermark
                /\ pc' = "flushed"
                /\ UNCHANGED <<source, watermark, dest, query, buf, stops,
                               claimed>>

\* StreamWriter.Flush, when the watermark has moved.
Flush == /\ pc = "read"
         /\ unread = {}
         /\ newCursor # watermark
         /\ FlushWriter
         /\ pc' = "flushed"
         /\ UNCHANGED <<source, watermark, query, stops, claimed>>

\* Fault: the watermark is the source's maximum at the end of the read.
SaveCursorCurrentMax ==
  /\ pc = "flushed"
  /\ \E r \in Rows : /\ \A q \in Rows : cur[q] <= cur[r]
                     /\ watermark' = cur[r]
  /\ claimed' = claimed \cup {<<r, viewVer[r]>> : r \in {q \in Rows : viewCur[q] > watermark}}
  /\ pc' = "saved"
  /\ UNCHANGED <<source, dest, query, buf, stops>>

\* Fault: the new watermark is not saved.
SaveCursorLost == /\ pc = "flushed"
                  /\ pc' = "saved"
                  /\ UNCHANGED <<source, watermark, dest, query, buf, stops,
                                 claimed>>

\* State.SetCursor.
SaveCursor == /\ pc = "flushed"
              /\ watermark' = newCursor
              /\ claimed' = claimed \cup {<<r, viewVer[r]>> :
                                  r \in {q \in Rows : viewCur[q] > watermark}}
              /\ pc' = "saved"
              /\ UNCHANGED <<source, dest, query, buf, stops>>

\* finishStream: Close flushes; a run whose watermark did not move has
\* nothing to save.
Finish == /\ \/ pc = "saved"
             \/ pc = "read" /\ unread = {} /\ newCursor = watermark
          /\ FlushWriter
          /\ pc' = "down"
          /\ UNCHANGED <<source, watermark, query, stops, claimed>>

\* bufio writes full 4096-byte blocks whatever the line boundaries are: a
\* prefix of the buffered lines may be in the file, the last one cut.
NdjsonRemains(kept, end) ==
  /\ end = "torn"  => buf \ kept # {} \/ (kept = {} /\ tail # "whole")
  /\ end = "whole" => kept # {} \/ tail # "torn"

\* A Parquet writer holds its rows in memory until Flush.
ParquetRemains(kept, end) == kept = {} /\ end = tail

\* An error return or a kill: what was buffered is lost, except for what is
\* in the file already.
Stop == /\ pc # "down"
        /\ stops < MaxStops
        /\ \E kept \in SUBSET buf, end \in {"whole", "torn"} :
              /\ IF Format = "ndjson" THEN NdjsonRemains(kept, end)
                                      ELSE ParquetRemains(kept, end)
              /\ stored' = stored \cup kept
              /\ tail' = end
        /\ buf' = {}
        /\ pc' = "down"
        /\ stops' = stops + 1
        /\ UNCHANGED <<source, watermark, swallowed, query, claimed>>

-----------------------------------------------------------------------------
Clients == Tick \/ \E r \in Rows : Begin(r) \/ Commit(r) \/ Abort(r)

Run == Open \/ Query \/ (\E r \in Rows : ReadRow(r)) \/ Flush \/ SaveCursor \/ Finish

Next == Clients \/ Run \/ Stop

Spec == Init /\ [][Next]_vars

\* The control plane starts the next run; a running engine keeps going.
FairSpec == Spec /\ WF_vars(Run)

-----------------------------------------------------------------------------
(* Properties.                                                             *)

\* An interrupted NDJSON run costs the next one at most one row; nothing else
\* costs any.
OneRowPerStop(missing) ==
  Cardinality(missing) <= IF Format = "ndjson" THEN stops ELSE 0

\* The committed versions at or below c that have no readable record.
Missing(c) ==
  {<<r, ver[r]>> : r \in {q \in Rows : cur[q] # NoCursor /\ cur[q] <= c}} \ stored

(***************************************************************************)
(* The watermark leaves no gap ("gap-free" in sdk.IncrementalReader): the  *)
(* committed version of every row at or below it is in the destination,    *)
(* but for one row per interrupted run that an NDJSON file lost to a torn  *)
(* line.                                                                   *)
(***************************************************************************)
NoGap == OneRowPerStop(Missing(watermark))

(***************************************************************************)
(* The destination comes to hold the last version of every row, but for    *)
(* those lost to torn lines, once the source is quiet and the              *)
(* interruptions are over.                                                 *)
(***************************************************************************)
EventuallyLoaded == <>[]OneRowPerStop(Missing(MaxCursor))

(***************************************************************************)
(* The sync keeps the write-ahead contract for the row versions whose own  *)
(* line was not swallowed by a torn one: such a version is durable before  *)
(* a watermark that covers it is saved, and stays so.                      *)
(***************************************************************************)
WA == INSTANCE WriteAhead WITH Items <- Versions, claimed <- claimed \ swallowed
ImplementsWriteAhead == WA!Spec
=============================================================================
