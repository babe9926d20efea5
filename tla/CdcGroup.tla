------------------------------ MODULE CdcGroup ------------------------------
(***************************************************************************)
(* The change-data-capture flow of a pipeline (syncrun.runner.runCDCGroup) *)
(* for the streams that share one log position: anchor, backfill of the    *)
(* streams not yet backfilled, replay of the log up to a bounded target,   *)
(* flush, save.  The source is a PostgreSQL slot and publication ("slot")  *)
(* or a MySQL binlog ("binlog"); other clients write to it all along.  A   *)
(* run may return an error or be killed anywhere; the next run resumes     *)
(* from the state document.                                                *)
(*                                                                         *)
(* Abstractions.                                                           *)
(*  - A log position is the number of the last change at or below it; one  *)
(*    change is one transaction.  A PostgreSQL message whose data is       *)
(*    longer than its WAL record has a width above 1.                      *)
(*  - A record written for a row replaces the earlier ones (the read path  *)
(*    keeps the latest by record ID), so the destination is the value of   *)
(*    each row, None when it has no record or its last one is a delete.    *)
(*  - A record is durable once Flush or Close has returned.  Before that,  *)
(*    Parquet has nothing in a readable part-file; of an NDJSON file the   *)
(*    whole lines that filled a block of bufio are readable, and a kill    *)
(*    may leave the next one torn.                                         *)
(*  - A value stands for a whole row; a row of which the log sends an      *)
(*    unchanged TOASTed column as the sentinel is the value Unavailable.   *)
(*  - Truncating the destination, a snapshot and each state save are       *)
(*    single steps.                                                        *)
(***************************************************************************)
EXTENDS Integers, Sequences, FiniteSets

CONSTANTS Rows,          \* primary keys of all the source's tables
          Streams,       \* tables the pipeline may replicate
          StreamOf,      \* the table of a row (outside Streams: not ours)
          Values,        \* what a row can hold, None among them
          None,          \* the row does not exist
          Nothing,       \* no record; no change
          Unavailable,   \* UnavailableTOASTValue (slot)
          SourceKind,    \* "slot" or "binlog"
          Format,        \* destination type: "ndjson" or "parquet"
          Partial,       \* writes the log tells in part: "rekey", "truncate", "toast"
          Initial,       \* streams selected when the pipeline is created
          MayJoin,       \* streams may be selected later
          MayLeave,      \* selected streams may be deselected
          MayKill,       \* a run may be killed, not only fail
          MaxWidth,      \* bound on the width of a change
          MaxLog,        \* bound on the source's writes
          MaxEdits,      \* bound on changes of the selection
          MaxStops       \* bound on interrupted runs

ASSUME CdcAssumption == /\ None \in Values
                        /\ Nothing \notin Values
                        /\ Unavailable \notin Values \cup {Nothing}
                        /\ SourceKind \in {"slot", "binlog"}
                        /\ Format \in {"ndjson", "parquet"}
                        /\ Partial \subseteq {"rekey", "truncate", "toast"}
                        /\ Streams # {}
                        /\ Initial \subseteq Streams
                        /\ MayJoin \in BOOLEAN
                        /\ MayLeave \in BOOLEAN
                        /\ MayKill \in BOOLEAN
                        /\ MaxWidth \in Nat \ {0}
                        /\ MaxLog \in Nat
                        /\ MaxEdits \in Nat
                        /\ MaxStops \in Nat

NoPos == -1

VARIABLES
  now,         \* source: the value of each row
  log,         \* source: the changes, oldest first
  published,   \* source: tables of the publication (slot)
  confirmed,   \* source: the slot's confirmed_flush_lsn, NoPos: no slot
  selected,    \* catalog: streams selected in CDC mode
  edits,       \* changes of the selection so far
  position,    \* state document: Global.Position, NoPos when there is none
  backfilled,  \* state document: Global.Streams
  dest,        \* destination: the durable value of each row
  tail,        \* end of each stream's file: "whole", "torn", "glued"
  buf,         \* writers: the value written and not yet flushed, by row
  pc,          \* where the run is, "down" when there is none
  group,       \* the streams of this run
  left,        \* the streams the current loop still has to visit
  cur,         \* the stream being backfilled
  toRead,      \* its rows not yet read
  since,       \* end of the log when its backfill began
  at,          \* last change StreamChanges has received
  clientPos,   \* the position PrepareCDC or StreamChanges returns
  target,      \* end of the log when StreamChanges was called
  stops,       \* interrupted runs so far
  kills,       \* those among them that were killed
  swallowed    \* history: rows whose last record continued a torn line

source  == <<now, log, published, confirmed>>
catalog == <<selected, edits>>
doc     == <<position, backfilled>>
stream  == <<at, target>>
load    == <<cur, toRead, since>>
files   == <<dest, tail, swallowed>>
faults  == <<stops, kills>>
vars    == <<source, catalog, doc, files, buf, pc, group, left, load, stream,
             clientPos, faults>>

RowsOf(s) == {r \in Rows : StreamOf[r] = s}

Larger(a, b) == IF a >= b THEN a ELSE b

\* Some change after position p is of row r.
ChangedAfter(p, r) == \E j \in 1..Len(log) : j > p /\ log[j].new[r] # Nothing

\* What the destination holds for row r once its writer is flushed.
Written(r) == IF buf[r] = Nothing THEN dest[r] ELSE buf[r]

PCs == {"down", "publish", "slot", "anchor", "open", "backfill", "flushed",
        "stream", "ack", "flush", "saved"}

Positions == NoPos..(MaxLog + MaxWidth)

\* A change: the rows it alters, and what the log's reader is sent of them.
Changes == [table : {StreamOf[r] : r \in Rows},
            new : [Rows -> Values \cup {Nothing}],
            sent : [Rows -> Values \cup {Nothing, Unavailable}],
            pub : BOOLEAN, width : 1..MaxWidth]

Records == Values \cup {Unavailable}

TypeOK == /\ now \in [Rows -> Values]
          /\ log \in Seq(Changes)
          /\ Len(log) <= MaxLog
          /\ published \subseteq Streams
          /\ confirmed \in Positions
          /\ selected \subseteq Streams
          /\ edits \in 0..MaxEdits
          /\ position \in Positions
          /\ backfilled \subseteq Streams
          /\ dest \in [Rows -> Records]
          /\ tail \in [Streams -> {"whole", "torn", "glued"}]
          /\ swallowed \subseteq Rows
          /\ buf \in [Rows -> Records \cup {Nothing}]
          /\ pc \in PCs
          /\ group \subseteq Streams
          /\ left \subseteq group
          /\ cur \in Streams
          /\ toRead \subseteq RowsOf(cur)
          /\ since \in 0..MaxLog
          /\ at \in Positions
          /\ clientPos \in Positions
          /\ target \in 0..MaxLog
          /\ stops \in 0..MaxStops
          /\ kills \in 0..stops

Init == /\ now \in [Rows -> Values]
        /\ log = << >>
        /\ published = {}
        /\ confirmed = NoPos
        /\ selected = Initial
        /\ edits = 0
        /\ position = NoPos
        /\ backfilled = {}
        /\ dest = [r \in Rows |-> None]
        /\ tail = [s \in Streams |-> "whole"]
        /\ swallowed = {}
        /\ buf = [r \in Rows |-> Nothing]
        /\ pc = "down"
        /\ group = {}
        /\ left = {}
        /\ cur = CHOOSE s \in Streams : TRUE
        /\ toRead = {}
        /\ since = 0
        /\ at = 0
        /\ clientPos = NoPos
        /\ target = 0
        /\ stops = 0
        /\ kills = 0

-----------------------------------------------------------------------------
(* The source's clients, and the editor of the pipeline.                   *)

\* A write of table s changes the rows as new says; the log's reader is sent
\* the records sent.  A PostgreSQL change is published if its table is in the
\* publication when it is written; a binlog holds every change, at its exact
\* position.
Commit(s, new, sent, w) ==
  /\ SourceKind = "binlog" => w = 1
  /\ Len(log) < MaxLog
  /\ now' = [r \in Rows |-> IF new[r] = Nothing THEN now[r] ELSE new[r]]
  /\ log' = Append(log, [table |-> s, new |-> new, sent |-> sent, width |-> w,
                         pub |-> SourceKind = "binlog" \/ s \in published])
  /\ UNCHANGED <<published, confirmed, catalog, doc, files, buf, pc, group, left,
                 load, stream, clientPos, faults>>

Only(r, v) == [q \in Rows |-> IF q = r THEN v ELSE Nothing]

\* An INSERT or DELETE, or an UPDATE that keeps the key and writes every
\* TOASTed column.
SourceWrite(r, v, w) == /\ v # now[r]
                        /\ Commit(StreamOf[r], Only(r, v), Only(r, v), w)

\* An UPDATE that leaves a TOASTed column as it is: the log does not hold it.
SourceToast(r, v, w) == /\ "toast" \in Partial /\ SourceKind = "slot"
                        /\ now[r] # None /\ v # None
                        /\ Commit(StreamOf[r], Only(r, v), Only(r, Unavailable), w)

\* An UPDATE of the key from r to q: of the two images the reader is sent,
\* it takes the new one only.
SourceRekey(r, q, w) ==
  /\ "rekey" \in Partial
  /\ StreamOf[q] = StreamOf[r]
  /\ now[r] # None /\ now[q] = None
  /\ Commit(StreamOf[r], [Only(q, now[r]) EXCEPT ![r] = None], Only(q, now[r]), w)

\* A TRUNCATE: a message the PostgreSQL decoder has no case for, a statement
\* in the binlog.
SourceTruncate(s, w) ==
  /\ "truncate" \in Partial
  /\ \E r \in RowsOf(s) : now[r] # None
  /\ Commit(s, [r \in Rows |-> IF r \in RowsOf(s) THEN None ELSE Nothing],
            [r \in Rows |-> Nothing], w)

Select(s) == /\ MayJoin
             /\ s \notin selected
             /\ edits < MaxEdits
             /\ selected' = selected \cup {s}
             /\ edits' = edits + 1
             /\ UNCHANGED <<source, doc, files, buf, pc, group, left, load, stream,
                            clientPos, faults>>

Deselect(s) == /\ MayLeave
               /\ s \in selected
               /\ edits < MaxEdits
               /\ selected' = selected \ {s}
               /\ edits' = edits + 1
               /\ UNCHANGED <<source, doc, files, buf, pc, group, left, load,
                              stream, clientPos, faults>>

-----------------------------------------------------------------------------
(* Anchor.                                                                 *)

\* runCDCGroup: GlobalPosition decides whether an anchor is needed.
Start == /\ pc = "down"
         /\ selected # {}
         /\ group' = selected
         /\ left' = selected
         /\ pc' = IF position # NoPos THEN "open"
                  ELSE IF SourceKind = "slot" THEN "publish" ELSE "slot"
         /\ UNCHANGED <<source, catalog, doc, files, buf, load, stream, clientPos,
                        faults>>

\* ensurePublication: create it for the group, or add the missing tables.
EnsurePublication == /\ pc = "publish"
                     /\ published' = published \cup group
                     /\ pc' = "slot"
                     /\ UNCHANGED <<now, log, confirmed, catalog, doc, files, buf,
                                    group, left, load, stream, clientPos, faults>>

\* ensureSlot reuses the slot or creates one at the end of the log; MySQL's
\* PrepareCDC only reads the primary's current coordinates.
EnsureSlot == /\ pc = "slot"
              /\ IF SourceKind = "slot"
                   THEN /\ confirmed' = IF confirmed = NoPos THEN Len(log)
                                                             ELSE confirmed
                        /\ clientPos' = confirmed'
                   ELSE /\ clientPos' = Len(log)
                        /\ UNCHANGED confirmed
              /\ pc' = "anchor"
              /\ UNCHANGED <<now, log, published, catalog, doc, files, buf, group,
                             left, load, stream, faults>>

\* SetGlobalPosition(p), before any row is read.
SaveAnchor == /\ pc = "anchor"
              /\ position' = clientPos
              /\ pc' = "open"
              /\ UNCHANGED <<source, catalog, backfilled, files, buf, group, left,
                             load, stream, clientPos, faults>>

-----------------------------------------------------------------------------
(* Backfill of the group's streams, one after the other (cdcBackfill).     *)

\* A backfilled stream's writer is opened for appending, another's is
\* truncated and its backfill begins.
OpenStream(s) ==
  /\ pc = "open"
  /\ s \in left
  /\ IF s \in backfilled
       THEN /\ left' = left \ {s}
            /\ UNCHANGED <<files, pc, load>>
       ELSE /\ dest' = [r \in Rows |-> IF r \in RowsOf(s) THEN None ELSE dest[r]]
            /\ tail' = [tail EXCEPT ![s] = "whole"]
            /\ swallowed' = swallowed \ RowsOf(s)
            /\ cur' = s
            /\ toRead' = RowsOf(s)
            /\ since' = Len(log)
            /\ pc' = "backfill"
            /\ UNCHANGED left
  /\ UNCHANGED <<source, catalog, doc, buf, group, stream, clientPos, faults>>

\* WriteRow of the writer of stream s.  When an NDJSON file ends in a torn
\* line, the first line that is appended continues it, and the two are one
\* unreadable line.
WriteRecord(s, r, v) ==
  IF tail[s] = "torn"
    THEN /\ tail' = [tail EXCEPT ![s] = "glued"]
         /\ swallowed' = swallowed \cup {r}
         /\ UNCHANGED <<dest, buf>>
    ELSE /\ buf' = [buf EXCEPT ![r] = v]
         /\ swallowed' = swallowed \ {r}
         /\ UNCHANGED <<dest, tail>>

\* ReadChunk hands the row to handleRow with its value of the moment, or
\* misses it: under ctid ranges a row that changes while the chunks are read
\* may move behind the reader.
ReadRow(r) == /\ pc = "backfill"
              /\ r \in toRead
              /\ toRead' = toRead \ {r}
              /\ \/ now[r] # None /\ WriteRecord(cur, r, now[r])
                 \/ now[r] = None /\ UNCHANGED <<files, buf>>
                 \/ ChangedAfter(since, r) /\ UNCHANGED <<files, buf>>
              /\ UNCHANGED <<source, catalog, doc, pc, group, left, cur, since,
                             stream, clientPos, faults>>

Mended(end) == IF end = "glued" THEN "whole" ELSE end

\* StreamWriter.Flush of the writer of stream s.
FlushWriter(s) ==
  /\ dest' = [r \in Rows |-> IF r \in RowsOf(s) THEN Written(r) ELSE dest[r]]
  /\ buf'  = [r \in Rows |-> IF r \in RowsOf(s) THEN Nothing ELSE buf[r]]
  /\ tail' = [tail EXCEPT ![s] = Mended(@)]
  /\ UNCHANGED swallowed

FlushBackfill == /\ pc = "backfill"
                 /\ toRead = {}
                 /\ FlushWriter(cur)
                 /\ pc' = "flushed"
                 /\ UNCHANGED <<source, catalog, doc, group, left, load, stream,
                                clientPos, faults>>

\* Fault: a backfilled stream is not recorded in the state document.
MarkBackfilledUnsaved ==
  /\ pc = "flushed"
  /\ left' = left \ {cur}
  /\ pc' = "open"
  /\ UNCHANGED <<source, catalog, doc, files, buf, group, load, stream, clientPos,
                 faults>>

\* SetGlobalPosition(nil, id).
MarkBackfilled == /\ pc = "flushed"
                  /\ backfilled' = backfilled \cup {cur}
                  /\ left' = left \ {cur}
                  /\ since' = 0
                  /\ pc' = "open"
                  /\ UNCHANGED <<source, catalog, position, files, buf, group, cur,
                                 toRead, stream, clientPos, faults>>

-----------------------------------------------------------------------------
(* StreamChanges.                                                          *)

\* The target is the end of the log at the call; when the position has
\* reached it there is nothing to replay.  A slot sends nothing that it has
\* been told is flushed, even to a client that asks for an earlier position.
BeginStreaming ==
  /\ pc = "open"
  /\ left = {}
  /\ target' = Len(log)
  /\ clientPos' = position
  /\ at' = IF SourceKind = "slot" THEN Larger(position, confirmed) ELSE position
  /\ left' = group
  /\ pc' = IF Len(log) <= position THEN "flush" ELSE "stream"
  /\ UNCHANGED <<source, catalog, doc, files, buf, group, load, faults>>

\* The next message.  The writers map holds the streams of this run and no
\* other: a record of one of them goes to its writer.  An unpublished change
\* is not sent.  The loop ends when the position the client computes,
\* WALStart + len(WALData) for a slot, reaches the target.
ReceiveChange ==
  /\ pc = "stream"
  /\ at < Len(log)
  /\ at' = at + 1
  /\ LET e == log[at + 1] IN
       /\ \/ \E r \in Rows : /\ e.pub /\ e.table \in group /\ e.sent[r] # Nothing
                             /\ WriteRecord(e.table, r, e.sent[r])
          \/ /\ ~e.pub \/ e.table \notin group \/ \A r \in Rows : e.sent[r] = Nothing
             /\ UNCHANGED <<files, buf>>
       /\ clientPos' = IF e.pub THEN Larger(clientPos, at + e.width) ELSE clientPos
  /\ pc' = IF clientPos' < target THEN "stream"
           ELSE IF SourceKind = "slot" THEN "ack" ELSE "flush"
  /\ UNCHANGED <<source, catalog, doc, group, left, load, target, faults>>

\* The final standby status update, confirmed before StreamChanges returns.
AckSlot == /\ pc = "ack"
           /\ confirmed' = Larger(confirmed, clientPos)
           /\ pc' = "flush"
           /\ UNCHANGED <<now, log, published, catalog, doc, files, buf, group,
                          left, load, stream, clientPos, faults>>

\* MySQL: no event for 30 seconds, or any other error of GetEvent, ends the
\* replay where it is, without an error.  Right after a connection is (re)opened
\* that is the position 0 of the format-description event: the start of the
\* file, which may lie anywhere before.  Failing connections count as stops.
IdleOut == /\ SourceKind = "binlog"
           /\ pc = "stream"
           /\ \/ UNCHANGED <<clientPos, stops>>
              \/ /\ stops < MaxStops
                 /\ stops' = stops + 1
                 /\ clientPos' \in 0..clientPos
           /\ pc' = "flush"
           /\ UNCHANGED <<source, catalog, doc, files, buf, group, left, load,
                          stream, kills>>

\* bufio writes each block of the file of stream s as it fills up, so the lines
\* before the one at hand are in the file.
Spill(s) == /\ Format = "ndjson"
            /\ pc \in {"backfill", "stream"}
            /\ tail[s] = "glued" \/ \E r \in RowsOf(s) : buf[r] # Nothing
            /\ FlushWriter(s)
            /\ UNCHANGED <<source, catalog, doc, pc, group, left, load, stream,
                           clientPos, faults>>

-----------------------------------------------------------------------------
(* The end of the run.                                                     *)

\* Every writer is flushed before the position is saved.
FlushStream(s) == /\ pc = "flush"
                  /\ s \in left
                  /\ FlushWriter(s)
                  /\ left' = left \ {s}
                  /\ UNCHANGED <<source, catalog, doc, pc, group, load, stream,
                                 clientPos, faults>>

\* Fault: the position is saved before the writers are flushed.
SavePositionEarly == /\ pc = "flush"
                     /\ position' = clientPos
                     /\ pc' = IF left = {} THEN "saved" ELSE pc
                     /\ UNCHANGED <<source, catalog, backfilled, files, buf, group,
                                    left, load, stream, clientPos, faults>>

\* Fault: the target is saved, not the position that was reached.
SavePositionTarget == /\ pc = "flush"
                      /\ left = {}
                      /\ position' = Larger(position, target)
                      /\ pc' = "saved"
                      /\ UNCHANGED <<source, catalog, backfilled, files, buf, group,
                                     left, load, stream, clientPos, faults>>

\* SetGlobalPosition(final).
SavePosition == /\ pc = "flush"
                /\ left = {}
                /\ position' = clientPos
                /\ pc' = "saved"
                /\ UNCHANGED <<source, catalog, backfilled, files, buf, group, left,
                               load, stream, clientPos, faults>>

\* The process is gone, and its variables with it.
Exit == /\ pc' = "down"
        /\ group' = {} /\ left' = {}
        /\ toRead' = {} /\ since' = 0 /\ UNCHANGED cur
        /\ at' = 0 /\ target' = 0 /\ clientPos' = NoPos

\* The writers are closed and the run reports its streams.
Finish == /\ pc = "saved"
          /\ Exit
          /\ UNCHANGED <<source, catalog, doc, files, buf, faults>>

\* An error return: the deferred Close flushes what every writer holds.
Return == /\ dest' = [r \in Rows |-> Written(r)]
          /\ buf' = [r \in Rows |-> Nothing]
          /\ tail' = [s \in Streams |-> Mended(tail[s])]
          /\ Exit
          /\ UNCHANGED <<source, catalog, doc, swallowed>>

\* PostgreSQL: nothing more is sent and the target is not reached; after the
\* idle timeout that is an error.
IdleError == /\ SourceKind = "slot"
             /\ pc = "stream"
             /\ at >= Len(log)
             /\ Return
             /\ UNCHANGED faults

\* A source, writer, state or emitter error.
Fail == /\ pc # "down"
        /\ stops < MaxStops
        /\ Return
        /\ stops' = stops + 1
        /\ UNCHANGED kills

\* Streams whose file may end inside a line: a line of theirs is in the
\* writer, in whole or in part.
MayTear == {s \in Streams : /\ Format = "ndjson"
                            /\ \E r \in RowsOf(s) : buf[r] # Nothing}

\* The process dies, or Flush and Close fail: what was buffered is gone, but
\* for the beginning of a line.
Kill == /\ MayKill
        /\ pc # "down"
        /\ stops < MaxStops
        /\ buf' = [r \in Rows |-> Nothing]
        /\ \E torn \in SUBSET MayTear :
             tail' = [s \in Streams |-> IF s \in torn \/ tail[s] = "glued"
                                          THEN "torn" ELSE tail[s]]
        /\ Exit
        /\ stops' = stops + 1
        /\ kills' = kills + 1
        /\ UNCHANGED <<source, catalog, doc, dest, swallowed>>

-----------------------------------------------------------------------------
Environment ==
  \/ \E w \in 1..MaxWidth :
       \/ \E r \in Rows, v \in Values : SourceWrite(r, v, w) \/ SourceToast(r, v, w)
       \/ \E r, q \in Rows : SourceRekey(r, q, w)
       \/ \E s \in Streams : SourceTruncate(s, w)
  \/ \E s \in Streams : Select(s) \/ Deselect(s)

Run == \/ Start \/ EnsurePublication \/ EnsureSlot \/ SaveAnchor
       \/ \E s \in Streams : OpenStream(s) \/ FlushStream(s)
       \/ \E r \in Rows : ReadRow(r)
       \/ FlushBackfill \/ MarkBackfilled
       \/ BeginStreaming \/ ReceiveChange \/ AckSlot \/ IdleOut \/ IdleError
       \/ SavePosition \/ Finish

Next == Environment \/ Run \/ (\E s \in Streams : Spill(s)) \/ Fail \/ Kill

Spec == Init /\ [][Next]_vars

\* The control plane starts the next run and a running engine keeps going; a
\* log with unread changes is not idle for ever.
FairSpec == Spec /\ WF_vars(Run) /\ SF_vars(ReceiveChange)

-----------------------------------------------------------------------------
(* Properties.                                                             *)

\* Rows whose last change the log does not tell in full: it sends no record of
\* it (a truncate, the old key of a changed one) or one with the sentinel.
HalfTold == {r \in Rows :
               \E j \in 1..Len(log) : /\ log[j].new[r] # Nothing
                                      /\ log[j].sent[r] # log[j].new[r]
                                      /\ ~ChangedAfter(j, r)}

\* Rows of backfilled, selected streams that differ from the source and that
\* the replay of the log after p will not mend.
Astray(p) == {r \in Rows : /\ StreamOf[r] \in backfilled \cap selected
                           /\ dest[r] # now[r]
                           /\ ~ChangedAfter(p, r) /\ r \notin HalfTold}

\* With NDJSON, a killed run may cost each stream the row whose record is
\* appended to the torn line.  Parquet has no such line.
OneRowPerKill(lost) == \A s \in Streams : Cardinality(lost \cap RowsOf(s))
                                            <= IF Format = "ndjson" THEN kills ELSE 0

(***************************************************************************)
(* No change that the log tells in full is lost: a row of a backfilled,    *)
(* selected stream differs from the source only if a change of it lies     *)
(* beyond the saved position, where the next run will replay it, if the    *)
(* change was one that is not told, or, with NDJSON, for one row of a      *)
(* stream and killed run.  It holds at every instant, so also after any    *)
(* crash.                                                                  *)
(***************************************************************************)
NoLostChange == OneRowPerKill(Astray(position))

(***************************************************************************)
(* Once the source is quiet and the interruptions are over, the            *)
(* destination comes to hold the source's rows of every selected stream,   *)
(* with the same exceptions, and keeps them.                               *)
(***************************************************************************)
InSync == selected \subseteq backfilled /\ OneRowPerKill(Astray(Len(log)))
EventuallyInSync == <>[]InSync

(***************************************************************************)
(* Runs go on succeeding: StreamChanges is a bounded batch that ends when  *)
(* the target captured at its call is reached.                             *)
(***************************************************************************)
RunsSucceed == []<>(pc = "saved")
=============================================================================
