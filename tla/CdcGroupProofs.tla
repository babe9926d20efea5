-------------------------- MODULE CdcGroupProofs --------------------------
(***************************************************************************)
(* Proofs about CdcGroup.  For any constants, every state is well typed,   *)
(* marks are never taken back and a slot is never behind the state         *)
(* document.  No change that the log tells in full is lost but for the     *)
(* rows torn lines cost, for any tables, keys, values, formats and number  *)
(* of failures: with a binlog, killed runs included, when no deselected    *)
(* stream comes back; with a slot, when its streams are selected from the  *)
(* start, its runs are not killed and no message is longer than its        *)
(* record.  The model checker shows that a killed run of a slot does lose  *)
(* changes.                                                                *)
(***************************************************************************)
EXTENDS CdcGroup, FiniteSetTheorems, TLAPS

Binlog == SourceKind = "binlog"
Slot   == SourceKind = "slot"

-----------------------------------------------------------------------------
(* What every run keeps, for both kinds of source and any constants.       *)

\* No stream is opened without a saved anchor; a position to be saved is behind
\* the saved one only after a stop, and only with a binlog; a slot is told of
\* it first.
OrderInv ==
  /\ pc \in {"publish", "slot", "anchor"} => position = NoPos
  /\ pc \in {"open", "backfill", "flushed", "stream", "ack", "flush", "saved"}
       => position # NoPos
  /\ pc \in {"anchor", "stream", "ack", "flush"} => clientPos # NoPos
  /\ pc = "stream" => at # NoPos
  /\ pc = "stream" => position <= clientPos
  /\ pc \in {"ack", "flush"} => position <= clientPos \/ (Binlog /\ stops > 0)
  /\ Binlog => pc \notin {"publish", "ack"}
  /\ Slot => /\ position <= confirmed
             /\ pc \in {"anchor", "flush"} => clientPos <= confirmed

LEMMA PositionFacts ==
  /\ NoPos \in Positions
  /\ 0..MaxLog \subseteq Positions
  /\ \A a, b \in Positions : Larger(a, b) \in Positions
BY CdcAssumption DEF CdcAssumption, Positions, NoPos, Larger

LEMMA ChangeFields ==
  ASSUME log \in Seq(Changes), NEW j \in 1..Len(log)
  PROVE  /\ log[j].table \in {StreamOf[r] : r \in Rows}
         /\ log[j].new \in [Rows -> Values \cup {Nothing}]
         /\ log[j].sent \in [Rows -> Values \cup {Nothing, Unavailable}]
         /\ log[j].pub \in BOOLEAN /\ log[j].width \in 1..MaxWidth
<1>1. log[j] \in Changes
  OBVIOUS
<1> QED
  BY <1>1 DEF Changes

\* A write alters rows of one table, and the log's reader is sent at most one
\* record, of a row that the write alters.
Sound(s, new, sent) ==
  /\ s \in {StreamOf[r] : r \in Rows}
  /\ new \in [Rows -> Values \cup {Nothing}]
  /\ sent \in [Rows -> Values \cup {Nothing, Unavailable}]
  /\ \A r \in Rows : /\ sent[r] # Nothing => new[r] # Nothing
                     /\ new[r] # Nothing => StreamOf[r] = s
  /\ \A r, q \in Rows : sent[r] # Nothing /\ sent[q] # Nothing => r = q

LEMMA OnlyIsSound ==
  ASSUME NEW r \in Rows, NEW v \in Values, NEW x \in {v, Unavailable}
  PROVE  Sound(StreamOf[r], Only(r, v), Only(r, x))
BY CdcAssumption DEF Sound, Only, CdcAssumption

LEMMA EnvironmentCases ==
  ASSUME TypeOK, Environment
  PROVE  \/ \E s, new, sent : \E w \in 1..MaxWidth :
              Commit(s, new, sent, w) /\ Sound(s, new, sent)
         \/ \E s \in Streams : Select(s) \/ Deselect(s)
<1>1. ASSUME NEW w \in 1..MaxWidth, NEW r \in Rows, NEW v \in Values, SourceWrite(r, v, w)
      PROVE  \E s, new, sent : Commit(s, new, sent, w) /\ Sound(s, new, sent)
  <2>1. Commit(StreamOf[r], Only(r, v), Only(r, v), w)
    BY <1>1 DEF SourceWrite
  <2>2. Sound(StreamOf[r], Only(r, v), Only(r, v))
    BY OnlyIsSound
  <2> QED
    BY <2>1, <2>2
<1>2. ASSUME NEW w \in 1..MaxWidth, NEW r \in Rows, NEW v \in Values, SourceToast(r, v, w)
      PROVE  \E s, new, sent : Commit(s, new, sent, w) /\ Sound(s, new, sent)
  <2>1. Commit(StreamOf[r], Only(r, v), Only(r, Unavailable), w)
    BY <1>2 DEF SourceToast
  <2>2. Sound(StreamOf[r], Only(r, v), Only(r, Unavailable))
    BY OnlyIsSound
  <2> QED
    BY <2>1, <2>2
<1>3. ASSUME NEW w \in 1..MaxWidth, NEW r \in Rows, NEW q \in Rows, SourceRekey(r, q, w)
      PROVE  \E s, new, sent : Commit(s, new, sent, w) /\ Sound(s, new, sent)
  <2> DEFINE new == [Only(q, now[r]) EXCEPT ![r] = None]
  <2>1. Commit(StreamOf[r], new, Only(q, now[r]), w)
    BY <1>3 DEF SourceRekey
  <2>2. /\ r # q /\ StreamOf[q] = StreamOf[r] /\ now[r] \in Values /\ None \in Values
        /\ None # Nothing
    BY <1>3, CdcAssumption DEF SourceRekey, TypeOK, CdcAssumption
  <2>3. Sound(StreamOf[q], Only(q, now[r]), Only(q, now[r]))
    BY <2>2, OnlyIsSound
  <2>4. \A x \in Rows : new[x] = IF x = r THEN None ELSE Only(q, now[r])[x]
    BY DEF Only
  <2>5. new \in [Rows -> Values \cup {Nothing}]
    BY <2>2 DEF Only
  <2> HIDE DEF new
  <2>6. Sound(StreamOf[r], new, Only(q, now[r]))
    BY <2>2, <2>3, <2>4, <2>5 DEF Sound, Only
  <2> QED
    BY <2>1, <2>6
<1>4. ASSUME NEW w \in 1..MaxWidth, NEW t \in Streams, SourceTruncate(t, w)
      PROVE  \E s, new, sent : Commit(s, new, sent, w) /\ Sound(s, new, sent)
  <2> DEFINE new == [r \in Rows |-> IF r \in RowsOf(t) THEN None ELSE Nothing]
             sent == [r \in Rows |-> Nothing]
  <2>1. Commit(t, new, sent, w)
    BY <1>4 DEF SourceTruncate
  <2>2. Sound(t, new, sent)
    BY <1>4, CdcAssumption DEF SourceTruncate, Sound, RowsOf, CdcAssumption
  <2> QED
    BY <2>1, <2>2
<1> QED
  BY <1>1, <1>2, <1>3, <1>4, Zenon DEF Environment

\* The writers: a record goes to the buffer or onto a torn line.
LEMMA WriteFacts ==
  ASSUME TypeOK, NEW s \in Streams, NEW r \in Rows, NEW v \in Records,
         WriteRecord(s, r, v)
  PROVE  /\ dest' = dest
         /\ tail' \in [Streams -> {"whole", "torn", "glued"}]
         /\ swallowed' \subseteq Rows
         /\ buf' \in [Rows -> Records \cup {Nothing}]
         /\ \A q \in Rows : q # r => /\ buf'[q] = buf[q]
                                     /\ q \in swallowed' <=> q \in swallowed
         /\ \/ buf'[r] = v /\ r \notin swallowed'
            \/ buf' = buf /\ r \in swallowed' /\ tail[s] = "torn"
BY DEF WriteRecord, TypeOK

LEMMA InitTypeOK == Init => TypeOK
<1> SUFFICES ASSUME Init PROVE TypeOK
  OBVIOUS
<1>1. /\ 0 \in 0..MaxLog /\ 0 \in 0..MaxEdits /\ 0 \in 0..MaxStops /\ 0 \in 0..0
      /\ 0 \in Positions /\ NoPos \in Positions
  BY CdcAssumption, PositionFacts DEF CdcAssumption
<1>2. log \in Seq(Changes) /\ Len(log) <= MaxLog
  BY CdcAssumption DEF CdcAssumption, Init
<1>3. cur \in Streams
  BY CdcAssumption DEF CdcAssumption, Init
<1>4. /\ dest \in [Rows -> Records]
      /\ buf \in [Rows -> Records \cup {Nothing}]
      /\ tail \in [Streams -> {"whole", "torn", "glued"}]
      /\ swallowed \subseteq Rows /\ toRead \subseteq RowsOf(cur)
  BY CdcAssumption DEF CdcAssumption, Init, Records
<1>5. /\ selected \subseteq Streams /\ published \subseteq Streams
      /\ backfilled \subseteq Streams /\ group \subseteq Streams /\ left \subseteq group
      /\ pc \in PCs /\ now \in [Rows -> Values]
  BY CdcAssumption DEF CdcAssumption, Init, PCs
<1>6. /\ confirmed \in Positions /\ position \in Positions /\ at \in Positions
      /\ clientPos \in Positions /\ edits \in 0..MaxEdits /\ since \in 0..MaxLog
      /\ target \in 0..MaxLog /\ stops \in 0..MaxStops /\ kills \in 0..stops
  BY <1>1 DEF Init
<1> QED
  BY <1>2, <1>3, <1>4, <1>5, <1>6 DEF TypeOK

LEMMA CommitTypeOK ==
  ASSUME TypeOK, NEW s, NEW new, NEW sent, NEW w \in 1..MaxWidth,
         Commit(s, new, sent, w), Sound(s, new, sent)
  PROVE  TypeOK'
<1>1. [table |-> s, new |-> new, sent |-> sent, width |-> w,
       pub |-> SourceKind = "binlog" \/ s \in published]
        \in Changes
  BY DEF Changes, Sound
<1>2. /\ log' \in Seq(Changes)
      /\ Len(log') <= MaxLog
  BY <1>1, CdcAssumption DEF Commit, TypeOK, CdcAssumption
<1>3. now' \in [Rows -> Values]
  BY DEF Commit, TypeOK, Sound
<1> QED
  BY <1>2, <1>3 DEF Commit, TypeOK, catalog, doc, stream, load, files, faults

LEMMA ReceiveFacts ==
  ASSUME TypeOK, pc = "stream" => at # NoPos, ReceiveChange
  PROVE  /\ at \in Nat /\ at < Len(log) /\ at + 1 \in 1..Len(log)
         /\ at + 1 \in 0..MaxLog /\ at' = at + 1 /\ dest' = dest
         /\ tail' \in [Streams -> {"whole", "torn", "glued"}]
         /\ swallowed' \subseteq Rows
         /\ buf' \in [Rows -> Records \cup {Nothing}]
<1>1. at \in Nat /\ Len(log) \in Nat /\ at < Len(log) /\ at' = at + 1
  BY DEF ReceiveChange, TypeOK, Positions, NoPos
<1>2. at + 1 \in 1..Len(log) /\ at + 1 \in 0..MaxLog
  BY <1>1, CdcAssumption DEF CdcAssumption, TypeOK
<1> DEFINE e == log[at + 1]
<1>3. /\ e.table \in {StreamOf[r] : r \in Rows}
      /\ e.sent \in [Rows -> Values \cup {Nothing, Unavailable}]
  BY <1>2, ChangeFields DEF TypeOK
<1>4. \/ UNCHANGED <<files, buf>>
      \/ \E r \in Rows : /\ e.table \in group /\ e.sent[r] # Nothing
                         /\ WriteRecord(e.table, r, e.sent[r])
  BY DEF ReceiveChange
<1>5. CASE UNCHANGED <<files, buf>>
  BY <1>1, <1>2, <1>5 DEF TypeOK, files
<1>6. CASE \E r \in Rows : /\ e.table \in group /\ e.sent[r] # Nothing
                          /\ WriteRecord(e.table, r, e.sent[r])
  <2> HIDE DEF e
  <2>1. PICK r \in Rows : /\ e.table \in group /\ e.sent[r] # Nothing
                          /\ WriteRecord(e.table, r, e.sent[r])
    BY <1>6
  <2>2. e.table \in Streams /\ e.sent[r] \in Records
    BY <1>3, <2>1 DEF TypeOK, Records
  <2> QED
    BY <1>1, <1>2, <2>1, <2>2, WriteFacts
<1> QED
  BY <1>4, <1>5, <1>6

LEMMA ExitTypes ==
  ASSUME TypeOK, Exit
  PROVE  /\ pc' = "down" /\ pc' \in PCs /\ group' \subseteq Streams /\ left' \subseteq group'
         /\ cur' = cur /\ toRead' \subseteq RowsOf(cur') /\ since' \in 0..MaxLog
         /\ at' \in Positions /\ clientPos' \in Positions /\ target' \in 0..MaxLog
BY PositionFacts, CdcAssumption DEF Exit, PCs, CdcAssumption

LEMMA NextTypeOK == TypeOK /\ OrderInv /\ [Next]_vars => TypeOK'
<1> SUFFICES ASSUME TypeOK, OrderInv, [Next]_vars PROVE TypeOK'
  OBVIOUS
<1> USE DEF TypeOK, PCs, source, catalog, doc, stream, load, files, faults
<1>1. ASSUME NEW s, NEW new, NEW sent, NEW w \in 1..MaxWidth,
             Commit(s, new, sent, w), Sound(s, new, sent)
      PROVE  TypeOK'
  BY <1>1, CommitTypeOK
<1>2. ASSUME NEW s \in Streams, Select(s) \/ Deselect(s) PROVE TypeOK'
  BY <1>2, CdcAssumption DEF Select, Deselect, CdcAssumption
<1>3. ASSUME Start PROVE TypeOK'
  BY <1>3 DEF Start
<1>4. ASSUME EnsurePublication PROVE TypeOK'
  BY <1>4 DEF EnsurePublication
<1>5. ASSUME EnsureSlot PROVE TypeOK'
  <2>1. Len(log) \in Positions
    BY PositionFacts
  <2> QED
    BY <1>5, <2>1 DEF EnsureSlot
<1>6. ASSUME SaveAnchor PROVE TypeOK'
  BY <1>6 DEF SaveAnchor
<1>7. ASSUME NEW s \in Streams, OpenStream(s) PROVE TypeOK'
  BY <1>7, CdcAssumption DEF OpenStream, CdcAssumption, Records
<1>8. ASSUME NEW r \in Rows, ReadRow(r) PROVE TypeOK'
  <2>1. toRead' \subseteq RowsOf(cur) /\ cur' = cur
    BY <1>8 DEF ReadRow
  <2>2. CASE now[r] # None /\ WriteRecord(cur, r, now[r])
    <3>1. now[r] \in Records
      BY DEF Records
    <3> QED
      BY <1>8, <2>1, <2>2, <3>1, WriteFacts DEF ReadRow, RowsOf
  <2>3. CASE UNCHANGED <<files, buf>>
    BY <1>8, <2>1, <2>3 DEF ReadRow, RowsOf
  <2> QED
    BY <1>8, <2>2, <2>3 DEF ReadRow
<1>9. ASSUME FlushBackfill PROVE TypeOK'
  BY <1>9 DEF FlushBackfill, FlushWriter, Written, Mended
<1>10. ASSUME MarkBackfilled PROVE TypeOK'
  BY <1>10, CdcAssumption DEF MarkBackfilled, CdcAssumption
<1>11. ASSUME BeginStreaming PROVE TypeOK'
  BY <1>11, PositionFacts DEF BeginStreaming
<1>12. ASSUME ReceiveChange PROVE TypeOK'
  <2> DEFINE e == log[at + 1]
  <2>0. /\ at \in Nat /\ at + 1 \in 1..Len(log) /\ at + 1 \in 0..MaxLog
        /\ at' = at + 1 /\ dest' = dest
        /\ tail' \in [Streams -> {"whole", "torn", "glued"}]
        /\ swallowed' \subseteq Rows
        /\ buf' \in [Rows -> Records \cup {Nothing}]
    BY <1>12, ReceiveFacts DEF OrderInv
  <2>1. e.width \in 1..MaxWidth
    BY <2>0, ChangeFields
  <2>2. at + e.width \in Positions
    <3>1. at + e.width \in 0..(MaxLog + MaxWidth)
      BY <2>0, <2>1, CdcAssumption DEF CdcAssumption
    <3> QED
      BY <3>1, CdcAssumption DEF CdcAssumption, Positions, NoPos
  <2>3. clientPos' \in Positions
    BY <1>12, <2>2, PositionFacts DEF ReceiveChange
  <2>4. at' \in Positions /\ pc' \in PCs
    BY <1>12, <2>0, PositionFacts DEF ReceiveChange
  <2> QED
    BY <1>12, <2>0, <2>3, <2>4 DEF ReceiveChange
<1>13. ASSUME AckSlot PROVE TypeOK'
  BY <1>13, PositionFacts DEF AckSlot
<1>14. ASSUME IdleOut PROVE TypeOK'
  <2>1. clientPos' \in Positions
    <3>1. CASE clientPos' = clientPos
      BY <3>1
    <3>2. CASE clientPos' \in 0..clientPos
      BY <3>2, CdcAssumption DEF Positions, NoPos, CdcAssumption
    <3> QED
      BY <1>14, <3>1, <3>2 DEF IdleOut
  <2>2. stops' \in 0..MaxStops /\ kills' \in 0..stops'
    BY <1>14, CdcAssumption DEF IdleOut, CdcAssumption
  <2> QED
    BY <1>14, <2>1, <2>2 DEF IdleOut
<1>15. ASSUME IdleError PROVE TypeOK'
  BY <1>15, ExitTypes DEF IdleError, Return, Written, Mended
<1>16. ASSUME NEW s \in Streams, FlushStream(s) \/ Spill(s) PROVE TypeOK'
  BY <1>16 DEF FlushStream, Spill, FlushWriter, Written, Mended
<1>17. ASSUME SavePosition PROVE TypeOK'
  BY <1>17 DEF SavePosition
<1>18. ASSUME Finish PROVE TypeOK'
  BY <1>18, ExitTypes DEF Finish
<1>19. ASSUME Fail PROVE TypeOK'
  BY <1>19, ExitTypes, CdcAssumption DEF Fail, Return, Written, Mended, CdcAssumption
<1>20. ASSUME Kill PROVE TypeOK'
  BY <1>20, ExitTypes, CdcAssumption DEF Kill, CdcAssumption
<1>21. ASSUME UNCHANGED vars PROVE TypeOK'
  BY <1>21 DEF vars
<1>22. ASSUME Environment PROVE TypeOK'
  BY <1>1, <1>2, <1>22, EnvironmentCases
<1> QED
  BY <1>3, <1>4, <1>5, <1>6, <1>7, <1>8, <1>9, <1>10, <1>11, <1>12, <1>13, <1>14,
     <1>15, <1>16, <1>17, <1>18, <1>19, <1>20, <1>21, <1>22 DEF Next, Run

LEMMA PositionTypes ==
  ASSUME TypeOK
  PROVE  /\ position \in Int /\ confirmed \in Int /\ clientPos \in Int
         /\ since \in Int /\ at \in Int /\ Len(log) \in Nat
         /\ NoPos < 0 /\ position >= NoPos /\ confirmed >= NoPos
         /\ clientPos >= NoPos /\ at >= NoPos /\ stops \in Nat
BY CdcAssumption DEF TypeOK, Positions, NoPos, CdcAssumption

LEMMA EnvironmentFrame ==
  ASSUME TypeOK, Environment
  PROVE  UNCHANGED <<pc, doc, confirmed, clientPos, at, faults>>
<1>1. ASSUME NEW s, NEW new, NEW sent, NEW w \in 1..MaxWidth, Commit(s, new, sent, w)
      PROVE  UNCHANGED <<pc, doc, confirmed, clientPos, at, faults>>
  BY <1>1 DEF Commit, stream
<1>2. ASSUME NEW s \in Streams, Select(s) \/ Deselect(s)
      PROVE  UNCHANGED <<pc, doc, confirmed, clientPos, at, faults>>
  BY <1>2 DEF Select, Deselect, stream, source
<1> QED
  BY <1>1, <1>2, EnvironmentCases

LEMMA NextOrderInv == TypeOK /\ OrderInv /\ [Next]_vars => OrderInv'
<1> SUFFICES ASSUME TypeOK, OrderInv, [Next]_vars PROVE OrderInv'
  OBVIOUS
<1>0. NoPos = -1
  BY DEF NoPos
<1> USE <1>0, PositionTypes
    DEF OrderInv, Binlog, Slot, source, catalog, doc, stream, load, files, faults
<1>1. ASSUME Environment PROVE OrderInv'
  <2>1. UNCHANGED <<pc, position, confirmed, clientPos, at, stops>>
    BY <1>1, EnvironmentFrame
  <2> QED
    BY <2>1
<1>2. ASSUME Start PROVE OrderInv'
  <2>1. /\ UNCHANGED <<position, confirmed, clientPos, at>>
        /\ \/ position # NoPos /\ pc' = "open"
           \/ position = NoPos /\ Slot /\ pc' = "publish"
           \/ position = NoPos /\ ~Slot /\ pc' = "slot"
    BY <1>2 DEF Start
  <2> QED
    BY <2>1
<1>3. ASSUME EnsurePublication \/ SaveAnchor PROVE OrderInv'
  BY <1>3, CdcAssumption DEF EnsurePublication, SaveAnchor, CdcAssumption
<1>4. ASSUME EnsureSlot PROVE OrderInv'
  BY <1>4, CdcAssumption DEF EnsureSlot, CdcAssumption
<1>5. ASSUME NEW s \in Streams, OpenStream(s) \/ FlushStream(s) \/ Spill(s)
      PROVE  OrderInv'
  BY <1>5 DEF OpenStream, FlushStream, Spill
<1>6. ASSUME NEW r \in Rows, ReadRow(r) PROVE OrderInv'
  BY <1>6 DEF ReadRow
<1>7. ASSUME FlushBackfill \/ MarkBackfilled PROVE OrderInv'
  BY <1>7 DEF FlushBackfill, MarkBackfilled
<1>8. ASSUME BeginStreaming PROVE OrderInv'
  BY <1>8 DEF BeginStreaming, Larger
<1>9. ASSUME ReceiveChange PROVE OrderInv'
  <2>1. /\ at' \in Int /\ at' # NoPos /\ pc = "stream"
        /\ UNCHANGED <<position, confirmed, stops>>
    BY <1>9 DEF ReceiveChange
  <2>2. /\ pc' \in {"stream", "ack", "flush"}
        /\ Binlog => pc' # "ack"
        /\ Slot => pc' # "flush"
    BY <1>9 DEF ReceiveChange
  <2>3. clientPos <= clientPos' /\ clientPos' \in Int
    <3>1. at < Len(log) /\ at + 1 \in 1..Len(log)
      BY <1>9 DEF ReceiveChange
    <3>2. log[at + 1].width \in Int
      BY <3>1, ChangeFields DEF TypeOK
    <3> QED
      BY <1>9, <3>2 DEF ReceiveChange, Larger
  <2> QED
    BY <2>1, <2>2, <2>3
<1>10. ASSUME AckSlot PROVE OrderInv'
  BY <1>10 DEF AckSlot, Larger
<1>11. ASSUME IdleOut PROVE OrderInv'
  <2>1. /\ Binlog /\ pc = "stream" /\ pc' = "flush"
        /\ UNCHANGED <<position, confirmed, at>>
        /\ \/ clientPos' = clientPos
           \/ clientPos' \in 0..clientPos /\ stops' = stops + 1
    BY <1>11 DEF IdleOut
  <2> QED
    BY <1>11, <2>1, CdcAssumption DEF IdleOut, CdcAssumption
<1>12. ASSUME SavePosition PROVE OrderInv'
  BY <1>12 DEF SavePosition
<1>13. ASSUME Finish \/ IdleError \/ Fail \/ Kill PROVE OrderInv'
  BY <1>13 DEF Finish, IdleError, Fail, Kill, Return, Exit
<1>14. ASSUME UNCHANGED vars PROVE OrderInv'
  BY <1>14 DEF vars
<1> QED
  BY <1>1, <1>2, <1>3, <1>4, <1>5, <1>6, <1>7, <1>8, <1>9, <1>10, <1>11, <1>12,
     <1>13, <1>14 DEF Next, Run

LEMMA TypesAndOrder == Spec => [](TypeOK /\ OrderInv)
<1>1. Init => TypeOK /\ OrderInv
  BY InitTypeOK DEF Init, OrderInv, NoPos
<1>2. TypeOK /\ OrderInv /\ [Next]_vars => (TypeOK /\ OrderInv)'
  BY NextTypeOK, NextOrderInv
<1> QED
  BY <1>1, <1>2, PTL DEF Spec

(***************************************************************************)
(* Every reachable state is well typed, for both kinds of source.          *)
(***************************************************************************)
THEOREM TypeCorrect == Spec => []TypeOK
BY TypesAndOrder, PTL

(***************************************************************************)
(* A stream marked as backfilled stays so, and the slot never takes back   *)
(* what it was told is flushed (SetGlobalPosition, AckSlot).  The saved    *)
(* position of a slot never moves back.  That of a binlog does, to the     *)
(* start of a file, but only if some connection failed: the run saves the  *)
(* position 0 of a format-description event.                               *)
(***************************************************************************)
THEOREM MarksOnlyForward ==
  Spec => [][/\ backfilled \subseteq backfilled'
             /\ confirmed <= confirmed'
             /\ position <= position' \/ (Binlog /\ stops > 0)]_vars
<1> DEFINE Forward == /\ backfilled \subseteq backfilled'
                      /\ confirmed <= confirmed'
                      /\ position <= position' \/ (Binlog /\ stops > 0)
<1>1. TypeOK /\ OrderInv /\ [Next]_vars => [Forward]_vars
  <2> SUFFICES ASSUME TypeOK, OrderInv, Next PROVE Forward
    OBVIOUS
  <2> USE PositionTypes DEF OrderInv, source, catalog, doc, stream, load
  <2>1. CASE EnsureSlot
    BY <2>1 DEF EnsureSlot
  <2>2. CASE SaveAnchor
    BY <2>2 DEF SaveAnchor
  <2>3. CASE MarkBackfilled
    BY <2>3 DEF MarkBackfilled
  <2>4. CASE AckSlot
    BY <2>4 DEF AckSlot, Larger
  <2>5. CASE SavePosition
    BY <2>5 DEF SavePosition
  <2>6. CASE UNCHANGED <<doc, confirmed>>
    BY <2>6
  <2>7. CASE Environment \/ Fail \/ Kill
    BY <2>6, <2>7, EnvironmentFrame DEF Fail, Kill, Return
  <2>8. ASSUME NEW s \in Streams, OpenStream(s) \/ FlushStream(s) \/ Spill(s)
        PROVE  Forward
    <3>1. UNCHANGED <<doc, confirmed>>
      BY <2>8 DEF OpenStream, FlushStream, Spill
    <3> QED
      BY <2>6, <3>1
  <2>9. ASSUME NEW r \in Rows, ReadRow(r) PROVE Forward
    BY <2>6, <2>9 DEF ReadRow
  <2>10. CASE Start \/ EnsurePublication \/ FlushBackfill \/ BeginStreaming
    BY <2>6, <2>10 DEF Start, EnsurePublication, FlushBackfill, BeginStreaming
  <2>11. CASE ReceiveChange \/ IdleOut \/ IdleError \/ Finish
    BY <2>6, <2>11 DEF ReceiveChange, IdleOut, IdleError, Finish, Return
  <2> QED
    BY <2>1, <2>2, <2>3, <2>4, <2>5, <2>7, <2>8, <2>9, <2>10, <2>11 DEF Next, Run
<1> QED
  BY <1>1, TypesAndOrder, PTL DEF Spec

(***************************************************************************)
(* The slot is told that changes are flushed before the state document     *)
(* is: a run that ends in between resumes from what the slot kept, never   *)
(* from the earlier position it asks for, so what the writers held must    *)
(* have reached the destination when that run closed them.                 *)
(***************************************************************************)
THEOREM SlotNeverBehind ==
  ASSUME Slot PROVE Spec => [](position <= confirmed)
<1>1. OrderInv => position <= confirmed
  BY Slot DEF OrderInv
<1> QED
  BY <1>1, TypesAndOrder, PTL

-----------------------------------------------------------------------------
(* The conditions under which no change is lost.                           *)

\* A stream that was deselected is not selected again; a slot's streams are
\* selected from the start, its runs fail but are not killed, and no message
\* is longer than its record.
Lossless == IF Binlog THEN ~(MayJoin /\ MayLeave)
                      ELSE ~MayJoin /\ ~MayKill /\ MaxWidth = 1

\* The replay of the next run sends the changes after this one.
Resume == IF Binlog THEN position ELSE confirmed

\* The rows the destination must keep in step with the source.
Kept == {r \in Rows : StreamOf[r] \in backfilled \cap selected}

\* Value x of row r is current, unless a change of r after position p is still
\* to come or its last change is not told in full.
Settled(x, r, p) == x = now[r] \/ ChangedAfter(p, r) \/ r \in HalfTold

\* A change alters rows of its table and sends at most one of them; a row holds
\* the value of the change unless a later change of the row follows.
LogInv == \A j \in 1..Len(log) :
             /\ log[j].width = 1
             /\ Binlog => log[j].pub
             /\ \A r \in Rows :
                  /\ log[j].sent[r] # Nothing => log[j].new[r] # Nothing
                  /\ log[j].new[r] # Nothing =>
                       /\ StreamOf[r] = log[j].table
                       /\ log[j].new[r] = now[r] \/ ChangedAfter(j, r)
             /\ \A r, q \in Rows :
                  log[j].sent[r] # Nothing /\ log[j].sent[q] # Nothing => r = q

\* No position is beyond the log, and none is behind the one resumed from.
PositionInv ==
  /\ position <= Resume /\ Resume <= Len(log)
  /\ pc = "anchor" => clientPos <= Len(log)
  /\ pc \in {"backfill", "flushed"} => Resume <= since /\ since <= Len(log)
  /\ pc \in {"stream", "ack", "flush"} =>
       clientPos <= at /\ Resume <= at /\ at <= Len(log)

\* A run has every kept stream in its group.
GroupInv ==
  /\ ~MayLeave => /\ backfilled \subseteq selected
                  /\ pc # "down" => backfilled \subseteq group /\ group \subseteq selected
  /\ ~MayJoin /\ pc # "down" => selected \subseteq group
  /\ pc \in {"backfill", "flushed"} => cur \in left /\ cur \notin backfilled
  /\ position = NoPos => backfilled = {}

\* Every change the slot has still to send of a selected stream is published.
PublishedInv ==
  Slot => /\ pc = "slot" => group \subseteq published
          /\ confirmed # NoPos =>
               /\ selected \subseteq published
               /\ \A j \in 1..Len(log) :
                    j > confirmed => log[j].pub \/ log[j].table \notin selected

\* Only the loop that fills the buffers finds anything in them.
BufferInv == \A r \in Rows : buf[r] # Nothing =>
               \/ pc = "backfill" /\ StreamOf[r] = cur
               \/ pc \in {"stream", "ack", "flush"} /\ StreamOf[r] \in left

\* While a stream is backfilled its file is whole, and every row read is
\* current or has changed since the backfill began.
BackfillInv ==
  /\ pc = "backfill" =>
       /\ tail[cur] = "whole"
       /\ \A r \in RowsOf(cur) :
            /\ r \notin swallowed
            /\ r \in toRead => dest[r] = None /\ buf[r] = Nothing
            /\ r \notin toRead => Settled(Written(r), r, since)
  /\ pc = "flushed" =>
       \A r \in RowsOf(cur) : r \notin swallowed /\ Settled(dest[r], r, since)

\* During the replay, what is written is current up to the last change received.
ReplayInv ==
  /\ pc \in {"stream", "ack"} => left = group
  /\ pc \in {"stream", "ack", "flush"} =>
       \A r \in Kept : Settled(Written(r), r, at) \/ r \in swallowed

\* The state document is behind the destination, and so is a slot until it
\* has acknowledged what the writers are about to flush.
DurableInv ==
  \A r \in Kept : r \notin swallowed =>
     /\ Settled(dest[r], r, position)
     /\ pc # "flush" => Settled(dest[r], r, Resume)

\* Each killed run tears at most one line of a stream's file, and each torn
\* line takes the record of one row with it.  Parquet has no lines to tear.
Swallowed(s) == swallowed \cap RowsOf(s)
Torn(s) == IF tail[s] = "torn" THEN 1 ELSE 0
TornInv ==
  \A s \in Streams :
     /\ IsFiniteSet(Swallowed(s)) /\ Cardinality(Swallowed(s)) + Torn(s) <= kills
     /\ Format = "parquet" => tail[s] = "whole" /\ Swallowed(s) = {}

Inv == /\ TypeOK /\ OrderInv /\ LogInv /\ PositionInv /\ GroupInv
       /\ PublishedInv /\ BufferInv /\ BackfillInv /\ ReplayInv /\ DurableInv

-----------------------------------------------------------------------------
(* The log.                                                                *)

LEMMA OnlyClientsWrite ==
  ASSUME TypeOK, [Next]_vars
  PROVE  \/ \E s, new, sent : \E w \in 1..MaxWidth :
              Commit(s, new, sent, w) /\ Sound(s, new, sent)
         \/ UNCHANGED <<now, log>>
<1> USE DEF source
<1>1. ASSUME NEW s \in Streams, Select(s) \/ Deselect(s) PROVE UNCHANGED <<now, log>>
  BY <1>1 DEF Select, Deselect
<1>2. ASSUME Run PROVE UNCHANGED <<now, log>>
  BY <1>2 DEF Run, Start, EnsurePublication, EnsureSlot, SaveAnchor, OpenStream,
     FlushStream, ReadRow, FlushBackfill, MarkBackfilled, BeginStreaming,
     ReceiveChange, AckSlot, IdleOut, IdleError, SavePosition, Finish, Return
<1>3. ASSUME Fail \/ Kill \/ (\E s \in Streams : Spill(s)) \/ UNCHANGED vars
      PROVE  UNCHANGED <<now, log>>
  BY <1>3 DEF Fail, Kill, Spill, Return, vars
<1> QED
  BY <1>1, <1>2, <1>3, EnvironmentCases DEF Next

LEMMA CommitAppends ==
  ASSUME TypeOK, NEW s, NEW new, NEW sent, NEW w \in 1..MaxWidth,
         Commit(s, new, sent, w), Sound(s, new, sent)
  PROVE  /\ Len(log) \in Nat /\ Len(log') = Len(log) + 1
         /\ \A j \in 1..Len(log) : log'[j] = log[j]
         /\ log'[Len(log) + 1].table = s /\ log'[Len(log) + 1].width = w
         /\ log'[Len(log) + 1].new = new /\ log'[Len(log) + 1].sent = sent
         /\ SourceKind = "binlog" \/ s \in published => log'[Len(log) + 1].pub
         /\ \A r \in Rows : now'[r] = IF new[r] = Nothing THEN now[r] ELSE new[r]
<1> DEFINE e == [table |-> s, new |-> new, sent |-> sent, width |-> w,
                 pub |-> SourceKind = "binlog" \/ s \in published]
<1>1. /\ e \in Changes
      /\ e.table = s /\ e.new = new /\ e.sent = sent /\ e.width = w
  BY DEF Changes, Sound
<1>2. SourceKind = "binlog" \/ s \in published => e.pub
  BY Zenon
<1>3. /\ log' = Append(log, e)
      /\ \A r \in Rows : now'[r] = IF new[r] = Nothing THEN now[r] ELSE new[r]
  BY DEF Commit
<1> HIDE DEF e
<1>4. /\ Len(log) \in Nat /\ Len(log') = Len(log) + 1
      /\ \A j \in 1..Len(log) : log'[j] = log[j]
      /\ log'[Len(log) + 1] = e
  BY <1>1, <1>3 DEF TypeOK
<1> QED
  BY <1>1, <1>2, <1>3, <1>4

LEMMA HalfToldSame == UNCHANGED log => HalfTold' = HalfTold
BY DEF HalfTold, ChangedAfter

\* A value of a row that is settled after p stays so when the source is written.
LEMMA CommitKeeps ==
  ASSUME TypeOK, NEW s, NEW new, NEW sent, NEW w \in 1..MaxWidth,
         Commit(s, new, sent, w), Sound(s, new, sent),
         NEW q \in Rows, NEW x, NEW p \in Int, p <= Len(log), Settled(x, q, p)
  PROVE  \/ x = now'[q]
         \/ \E j \in 1..Len(log') : j > p /\ log'[j].new[q] # Nothing
         \/ q \in HalfTold'
<1>0. /\ Len(log) \in Nat /\ Len(log') = Len(log) + 1
      /\ \A j \in 1..Len(log) : log'[j] = log[j]
      /\ log'[Len(log) + 1].new = new
      /\ now'[q] = IF new[q] = Nothing THEN now[q] ELSE new[q]
  BY CommitAppends
<1>1. CASE new[q] # Nothing
  <2>1. Len(log) + 1 \in 1..Len(log') /\ Len(log) + 1 > p
    BY <1>0
  <2> QED
    BY <1>0, <1>1, <2>1
<1>2. CASE new[q] = Nothing /\ x = now[q]
  BY <1>0, <1>2
<1>3. CASE ChangedAfter(p, q)
  <2>1. PICK j \in 1..Len(log) : j > p /\ log[j].new[q] # Nothing
    BY <1>3 DEF ChangedAfter
  <2>2. j \in 1..Len(log') /\ log'[j].new[q] # Nothing
    BY <1>0, <2>1
  <2> QED
    BY <2>1, <2>2
<1>4. CASE new[q] = Nothing /\ q \in HalfTold
  <2>1. PICK j \in 1..Len(log) : /\ log[j].new[q] # Nothing
                                 /\ log[j].sent[q] # log[j].new[q]
                                 /\ ~ChangedAfter(j, q)
    BY <1>4 DEF HalfTold
  <2>2. j \in 1..Len(log') /\ log'[j] = log[j]
    BY <1>0, <2>1
  <2>3. ASSUME NEW k \in 1..Len(log'), k > j PROVE log'[k].new[q] = Nothing
    <3>1. CASE k \in 1..Len(log)
      BY <1>0, <2>1, <2>3, <3>1 DEF ChangedAfter
    <3>2. CASE k = Len(log) + 1
      BY <1>0, <1>4, <3>2
    <3> QED
      BY <1>0, <3>1, <3>2
  <2>4. log'[j].new[q] # Nothing /\ log'[j].sent[q] # log'[j].new[q]
    BY <2>1, <2>2
  <2>5. q \in HalfTold'
    BY <2>2, <2>3, <2>4 DEF HalfTold, ChangedAfter
  <2> QED
    BY <2>5
<1> QED
  BY <1>1, <1>2, <1>3, <1>4 DEF Settled

LEMMA ResumeFacts ==
  /\ Binlog => Resume = position /\ ~Slot
  /\ ~Binlog => Resume = confirmed /\ Slot
  /\ TypeOK => Resume \in Int
BY PositionTypes, CdcAssumption DEF Resume, Binlog, Slot, CdcAssumption

\* What the conditions come down to in a step.
LEMMA LosslessFacts ==
  ASSUME Lossless
  PROVE  /\ MayJoin => Binlog /\ ~MayLeave
         /\ Kill => Binlog
         /\ Slot => ~MayJoin /\ 1..MaxWidth = {1}
BY CdcAssumption DEF Lossless, Kill, Binlog, Slot, CdcAssumption

\* Every kept stream is in the group of the run.
LEMMA KeptInGroup ==
  ASSUME Lossless, GroupInv, pc # "down", NEW r \in Kept
  PROVE  StreamOf[r] \in group
BY CdcAssumption DEF Lossless, GroupInv, Kept, CdcAssumption

\* No step but a change of the selection or of the state document adds a
\* row to keep, and none takes effect on a row that is not backfilled.
LEMMA KeptStep ==
  ASSUME Lossless, Inv, [Next]_vars, NEW r \in Kept'
  PROVE  r \in Kept \/ (MarkBackfilled /\ StreamOf[r] = cur)
<1> USE DEF Kept, Inv, source, catalog, doc, stream, load
<1>1. r \in Rows /\ StreamOf[r] \in backfilled' /\ StreamOf[r] \in selected'
  OBVIOUS
<1>2. ASSUME NEW s \in Streams, Select(s) PROVE r \in Kept
  BY <1>1, <1>2, LosslessFacts, CdcAssumption DEF Select, GroupInv, CdcAssumption
<1>3. ASSUME NEW s \in Streams, Deselect(s) PROVE r \in Kept
  BY <1>1, <1>3 DEF Deselect
<1>4. CASE MarkBackfilled
  BY <1>1, <1>4 DEF MarkBackfilled
<1>5. ASSUME NEW s, NEW new, NEW sent, NEW w \in 1..MaxWidth, Commit(s, new, sent, w)
      PROVE  r \in Kept
  BY <1>1, <1>5 DEF Commit
<1>6. ASSUME NEW s \in Streams, OpenStream(s) \/ FlushStream(s) \/ Spill(s)
      PROVE  r \in Kept
  BY <1>1, <1>6 DEF OpenStream, FlushStream, Spill
<1>7. ASSUME NEW q \in Rows, ReadRow(q) PROVE r \in Kept
  BY <1>1, <1>7 DEF ReadRow
<1>8. CASE Start \/ EnsurePublication \/ EnsureSlot \/ SaveAnchor
  BY <1>1, <1>8 DEF Start, EnsurePublication, EnsureSlot, SaveAnchor
<1>9. CASE FlushBackfill \/ BeginStreaming \/ ReceiveChange \/ AckSlot
  BY <1>1, <1>9 DEF FlushBackfill, BeginStreaming, ReceiveChange, AckSlot
<1>10. CASE IdleOut \/ IdleError \/ SavePosition \/ Finish
  BY <1>1, <1>10 DEF IdleOut, IdleError, SavePosition, Finish, Return
<1>11. CASE Fail \/ Kill \/ UNCHANGED vars
  BY <1>1, <1>11 DEF Fail, Kill, Return, vars
<1> QED
  BY <1>2, <1>3, <1>4, <1>5, <1>6, <1>7, <1>8, <1>9, <1>10, <1>11, EnvironmentCases
     DEF Next, Run

LEMMA NextLogInv ==
  ASSUME Lossless, TypeOK, LogInv, [Next]_vars
  PROVE  LogInv'
<1>1. ASSUME NEW s, NEW new, NEW sent, NEW w \in 1..MaxWidth,
             Commit(s, new, sent, w), Sound(s, new, sent)
      PROVE  LogInv'
  <2> USE CommitAppends
  <2>0. w = 1
    <3>1. SourceKind = "binlog" => w = 1
      BY <1>1 DEF Commit
    <3>2. SourceKind = "slot" => w = 1
      BY LosslessFacts DEF Slot
    <3> QED
      BY <3>1, <3>2, CdcAssumption DEF CdcAssumption
  <2>1. ASSUME NEW j \in 1..Len(log'), j \in 1..Len(log), NEW r \in Rows,
               log'[j].new[r] # Nothing
        PROVE  \/ log'[j].new[r] = now'[r]
               \/ \E k \in 1..Len(log') : k > j /\ log'[k].new[r] # Nothing
    <3>1. CASE new[r] # Nothing
      <4>1. Len(log) + 1 \in 1..Len(log') /\ Len(log) + 1 > j
        BY <1>1, <2>1
      <4> QED
        BY <1>1, <3>1, <4>1
    <3>2. CASE new[r] = Nothing /\ log[j].new[r] = now[r]
      BY <1>1, <2>1, <3>2
    <3>3. CASE ChangedAfter(j, r)
      <4>1. PICK k \in 1..Len(log) : k > j /\ log[k].new[r] # Nothing
        BY <3>3 DEF ChangedAfter
      <4>2. k \in 1..Len(log') /\ log'[k].new[r] # Nothing
        BY <1>1, <4>1
      <4> QED
        BY <4>1, <4>2
    <3> QED
      BY <1>1, <2>1, <3>1, <3>2, <3>3 DEF LogInv
  <2>2. ASSUME NEW j \in 1..Len(log'), j \in 1..Len(log), NEW r \in Rows
        PROVE  /\ log'[j].width = 1 /\ (Binlog => log'[j].pub)
               /\ log'[j].sent[r] # Nothing => log'[j].new[r] # Nothing
               /\ log'[j].new[r] # Nothing => StreamOf[r] = log'[j].table
               /\ \A q \in Rows :
                    log'[j].sent[r] # Nothing /\ log'[j].sent[q] # Nothing => r = q
    BY <1>1, <2>2 DEF LogInv
  <2>3. ASSUME NEW j \in 1..Len(log'), j = Len(log) + 1, NEW r \in Rows
        PROVE  /\ log'[j].width = 1 /\ (Binlog => log'[j].pub)
               /\ log'[j].sent[r] # Nothing => log'[j].new[r] # Nothing
               /\ log'[j].new[r] # Nothing => StreamOf[r] = log'[j].table
               /\ log'[j].new[r] # Nothing => log'[j].new[r] = now'[r]
               /\ \A q \in Rows :
                    log'[j].sent[r] # Nothing /\ log'[j].sent[q] # Nothing => r = q
    BY <1>1, <2>0, <2>3 DEF Binlog, Sound
  <2>4. ASSUME NEW j \in 1..Len(log')
        PROVE  log'[j].width = 1 /\ (Binlog => log'[j].pub)
    <3>1. CASE j \in 1..Len(log)
      BY <1>1, <3>1 DEF LogInv
    <3>2. CASE j = Len(log) + 1
      BY <1>1, <2>0, <3>2 DEF Binlog
    <3> QED
      BY <1>1, <3>1, <3>2
  <2> QED
    BY <1>1, <2>1, <2>2, <2>3, <2>4 DEF LogInv, ChangedAfter
<1>2. CASE UNCHANGED <<now, log>>
  BY <1>2 DEF LogInv, ChangedAfter
<1> QED
  BY <1>1, <1>2, OnlyClientsWrite

-----------------------------------------------------------------------------
(* Positions, groups, the publication and the buffers.                     *)

LEMMA NextPositionInv ==
  ASSUME Lossless, Inv, [Next]_vars
  PROVE  PositionInv'
<1>0. TypeOK /\ OrderInv /\ LogInv /\ PositionInv
  BY DEF Inv
<1>1. NoPos = -1
  BY DEF NoPos
<1>2. SourceKind = "binlog" \/ SourceKind = "slot"
  BY CdcAssumption DEF CdcAssumption
<1> USE <1>0, <1>1, <1>2, PositionTypes
    DEF PositionInv, Resume, Binlog, source, catalog, doc, stream, load
<1>3. ASSUME NEW s, NEW new, NEW sent, NEW w \in 1..MaxWidth,
             Commit(s, new, sent, w), Sound(s, new, sent)
      PROVE  PositionInv'
  <2>1. Len(log') = Len(log) + 1
    BY <1>3, CommitAppends
  <2> QED
    BY <1>3, <2>1 DEF Commit
<1>4. ASSUME NEW s \in Streams, Select(s) \/ Deselect(s) PROVE PositionInv'
  BY <1>4 DEF Select, Deselect
<1>5. ASSUME Start \/ EnsurePublication PROVE PositionInv'
  BY <1>5 DEF Start, EnsurePublication
<1>6. ASSUME EnsureSlot PROVE PositionInv'
  BY <1>6 DEF EnsureSlot, OrderInv
<1>7. ASSUME SaveAnchor PROVE PositionInv'
  BY <1>7 DEF SaveAnchor, OrderInv, Slot
<1>8. ASSUME NEW s \in Streams, OpenStream(s) \/ FlushStream(s) \/ Spill(s)
      PROVE  PositionInv'
  BY <1>8 DEF OpenStream, FlushStream, Spill
<1>9. ASSUME NEW r \in Rows, ReadRow(r) PROVE PositionInv'
  BY <1>9 DEF ReadRow
<1>10. ASSUME FlushBackfill \/ MarkBackfilled PROVE PositionInv'
  BY <1>10 DEF FlushBackfill, MarkBackfilled
<1>11. ASSUME BeginStreaming PROVE PositionInv'
  BY <1>11 DEF BeginStreaming, Larger
<1>12. ASSUME ReceiveChange PROVE PositionInv'
  <2>1. /\ pc = "stream" /\ at >= 0 /\ at < Len(log) /\ clientPos <= at
        /\ UNCHANGED <<log, position, confirmed>>
    BY <1>12 DEF ReceiveChange, OrderInv
  <2>2. at + 1 \in 1..Len(log)
    BY <2>1
  <2>3. log[at + 1].width = 1
    BY <2>2 DEF LogInv
  <2>4. at' = at + 1 /\ clientPos' <= at + 1 /\ pc' \in {"stream", "ack", "flush"}
    BY <1>12, <2>1, <2>3 DEF ReceiveChange, Larger
  <2> QED
    BY <2>1, <2>4
<1>13. ASSUME AckSlot PROVE PositionInv'
  BY <1>13 DEF AckSlot, Larger, OrderInv
<1>14. ASSUME IdleOut \/ Finish PROVE PositionInv'
  BY <1>14 DEF IdleOut, Finish, Exit
<1>15. ASSUME SavePosition PROVE PositionInv'
  BY <1>15 DEF SavePosition, OrderInv, Slot
<1>16. ASSUME IdleError \/ Fail \/ Kill PROVE PositionInv'
  BY <1>16 DEF IdleError, Fail, Kill, Return, Exit
<1>17. ASSUME UNCHANGED vars PROVE PositionInv'
  BY <1>17 DEF vars
<1> QED
  BY <1>3, <1>4, <1>5, <1>6, <1>7, <1>8, <1>9, <1>10, <1>11, <1>12, <1>13, <1>14,
     <1>15, <1>16, <1>17, EnvironmentCases DEF Next, Run

LEMMA NextGroupInv ==
  ASSUME Lossless, Inv, [Next]_vars
  PROVE  GroupInv'
<1>0. GroupInv /\ OrderInv /\ TypeOK
  BY DEF Inv
<1>1. MayLeave \in BOOLEAN /\ MayJoin \in BOOLEAN
  BY CdcAssumption DEF CdcAssumption
<1> USE <1>0, <1>1 DEF GroupInv, source, catalog, doc, stream, load
<1>2. ASSUME NEW s, NEW new, NEW sent, NEW w \in 1..MaxWidth,
             Commit(s, new, sent, w), Sound(s, new, sent)
      PROVE  GroupInv'
  BY <1>2 DEF Commit
<1>3. ASSUME NEW s \in Streams, Select(s) PROVE GroupInv'
  BY <1>3 DEF Select
<1>4. ASSUME NEW s \in Streams, Deselect(s) PROVE GroupInv'
  BY <1>4 DEF Deselect
<1>5. ASSUME Start \/ EnsurePublication \/ EnsureSlot PROVE GroupInv'
  BY <1>5 DEF Start, EnsurePublication, EnsureSlot
<1>6. ASSUME SaveAnchor PROVE GroupInv'
  BY <1>6 DEF SaveAnchor, OrderInv
<1>7. ASSUME NEW s \in Streams, OpenStream(s) \/ FlushStream(s) \/ Spill(s) PROVE GroupInv'
  BY <1>7 DEF OpenStream, FlushStream, Spill
<1>8. ASSUME NEW r \in Rows, ReadRow(r) PROVE GroupInv'
  BY <1>8 DEF ReadRow
<1>9. ASSUME FlushBackfill PROVE GroupInv'
  BY <1>9 DEF FlushBackfill
<1>10. ASSUME MarkBackfilled PROVE GroupInv'
  BY <1>10 DEF MarkBackfilled, TypeOK, OrderInv
<1>11. ASSUME BeginStreaming \/ ReceiveChange PROVE GroupInv'
  BY <1>11 DEF BeginStreaming, ReceiveChange
<1>12. ASSUME AckSlot \/ IdleOut \/ Finish PROVE GroupInv'
  BY <1>12 DEF AckSlot, IdleOut, Finish, Exit
<1>13. ASSUME SavePosition PROVE GroupInv'
  BY <1>13, PositionTypes DEF SavePosition, OrderInv
<1>14. ASSUME IdleError \/ Fail \/ Kill PROVE GroupInv'
  BY <1>14 DEF IdleError, Fail, Kill, Return, Exit
<1>15. ASSUME UNCHANGED vars PROVE GroupInv'
  BY <1>15 DEF vars
<1> QED
  BY <1>2, <1>3, <1>4, <1>5, <1>6, <1>7, <1>8, <1>9, <1>10, <1>11, <1>12, <1>13,
     <1>14, <1>15, EnvironmentCases DEF Next, Run

LEMMA NextPublishedInv ==
  ASSUME Lossless, Inv, [Next]_vars
  PROVE  PublishedInv'
<1> SUFFICES ASSUME Slot PROVE PublishedInv'
  BY DEF PublishedInv
<1>0. /\ TypeOK /\ OrderInv /\ GroupInv /\ PositionInv /\ PublishedInv
      /\ ~MayJoin /\ ~Binlog /\ Resume = confirmed
  BY LosslessFacts, ResumeFacts DEF Inv, Slot, Binlog
<1> USE <1>0, PositionTypes DEF PublishedInv, source, catalog, doc, stream, load
<1>1. ASSUME NEW s, NEW new, NEW sent, NEW w \in 1..MaxWidth,
             Commit(s, new, sent, w), Sound(s, new, sent)
      PROVE  PublishedInv'
  <2>1. UNCHANGED <<published, confirmed, selected, group, pc>>
    BY <1>1 DEF Commit
  <2>2. ASSUME confirmed # NoPos, NEW j \in 1..Len(log'), j > confirmed
        PROVE  log'[j].pub \/ log'[j].table \notin selected
    <3>1. CASE j \in 1..Len(log)
      <4>1. log'[j] = log[j]
        BY <1>1, <3>1, CommitAppends
      <4> QED
        BY <2>2, <3>1, <4>1
    <3>2. CASE j = Len(log) + 1
      <4>1. log'[j].table = s /\ (s \in published => log'[j].pub)
        BY <1>1, <3>2, CommitAppends
      <4> QED
        BY <2>2, <4>1
    <3> QED
      BY <1>1, <3>1, <3>2, CommitAppends
  <2> QED
    BY <2>1, <2>2
<1>2. ASSUME NEW s \in Streams, Select(s) PROVE PublishedInv'
  BY <1>2 DEF Select
<1>3. ASSUME NEW s \in Streams, Deselect(s) PROVE PublishedInv'
  BY <1>3 DEF Deselect
<1>4. ASSUME Start PROVE PublishedInv'
  BY <1>4 DEF Start, Slot
<1>5. ASSUME EnsurePublication PROVE PublishedInv'
  BY <1>5 DEF EnsurePublication
<1>6. ASSUME EnsureSlot PROVE PublishedInv'
  <2>1. selected \subseteq published
    BY <1>6 DEF EnsureSlot, GroupInv
  <2>2. /\ confirmed' = confirmed \/ confirmed' = Len(log)
        /\ pc' = "anchor" /\ UNCHANGED <<log, published, selected, group>>
    BY <1>6 DEF EnsureSlot
  <2>3. CASE confirmed = NoPos /\ confirmed' = Len(log)
    BY <2>1, <2>2, <2>3
  <2>4. CASE confirmed' = confirmed
    BY <2>1, <2>2, <2>4
  <2> QED
    BY <1>6, <2>3, <2>4, Slot DEF EnsureSlot, Slot
<1>7. ASSUME SaveAnchor PROVE PublishedInv'
  BY <1>7 DEF SaveAnchor
<1>8. ASSUME NEW s \in Streams, OpenStream(s) \/ FlushStream(s) \/ Spill(s) PROVE PublishedInv'
  BY <1>8 DEF OpenStream, FlushStream, Spill
<1>9. ASSUME NEW r \in Rows, ReadRow(r) PROVE PublishedInv'
  BY <1>9 DEF ReadRow
<1>10. ASSUME FlushBackfill \/ MarkBackfilled PROVE PublishedInv'
  BY <1>10 DEF FlushBackfill, MarkBackfilled
<1>11. ASSUME BeginStreaming \/ ReceiveChange PROVE PublishedInv'
  BY <1>11 DEF BeginStreaming, ReceiveChange
<1>12. ASSUME AckSlot PROVE PublishedInv'
  <2>1. confirmed # NoPos /\ confirmed <= confirmed' /\ confirmed' \in Int
    BY <1>12, Slot DEF AckSlot, Larger, OrderInv, Slot
  <2> QED
    BY <1>12, <2>1 DEF AckSlot
<1>13. ASSUME IdleOut \/ SavePosition \/ Finish PROVE PublishedInv'
  BY <1>13 DEF IdleOut, SavePosition, Finish, Exit
<1>14. ASSUME IdleError \/ Fail \/ Kill PROVE PublishedInv'
  BY <1>14 DEF IdleError, Fail, Kill, Return, Exit
<1>15. ASSUME UNCHANGED vars PROVE PublishedInv'
  BY <1>15 DEF vars
<1> QED
  BY <1>1, <1>2, <1>3, <1>4, <1>5, <1>6, <1>7, <1>8, <1>9, <1>10, <1>11, <1>12,
     <1>13, <1>14, <1>15, EnvironmentCases DEF Next, Run

LEMMA NextBufferInv ==
  ASSUME Inv, [Next]_vars
  PROVE  BufferInv'
<1>0. TypeOK /\ OrderInv /\ LogInv /\ BufferInv /\ ReplayInv
  BY DEF Inv
<1> USE <1>0 DEF BufferInv, source, catalog, doc, stream, load
<1>1. ASSUME Environment PROVE BufferInv'
  <2>1. UNCHANGED <<buf, pc, cur, left>>
    <3>1. ASSUME NEW s, NEW new, NEW sent, NEW w \in 1..MaxWidth, Commit(s, new, sent, w)
          PROVE  UNCHANGED <<buf, pc, cur, left>>
      BY <3>1 DEF Commit
    <3>2. ASSUME NEW s \in Streams, Select(s) \/ Deselect(s)
          PROVE  UNCHANGED <<buf, pc, cur, left>>
      BY <3>2 DEF Select, Deselect
    <3> QED
      BY <1>1, <3>1, <3>2, EnvironmentCases
  <2> QED
    BY <2>1
<1>2. ASSUME Start \/ EnsurePublication \/ EnsureSlot \/ SaveAnchor
      PROVE  BufferInv'
  BY <1>2 DEF Start, EnsurePublication, EnsureSlot, SaveAnchor
<1>3. ASSUME NEW s \in Streams, OpenStream(s) PROVE BufferInv'
  BY <1>3 DEF OpenStream
<1>4. ASSUME NEW r \in Rows, ReadRow(r) PROVE BufferInv'
  BY <1>4 DEF ReadRow, WriteRecord, TypeOK, RowsOf
<1>5. ASSUME FlushBackfill PROVE BufferInv'
  BY <1>5 DEF FlushBackfill, FlushWriter, Written, RowsOf
<1>6. ASSUME MarkBackfilled \/ BeginStreaming PROVE BufferInv'
  BY <1>6 DEF MarkBackfilled, BeginStreaming
<1>7. ASSUME ReceiveChange PROVE BufferInv'
  <2>1. pc' \in {"stream", "ack", "flush"} /\ left' = left /\ left = group
    BY <1>7 DEF ReceiveChange, ReplayInv
  <2> DEFINE e == log[at + 1]
  <2>2. at + 1 \in 1..Len(log)
    BY <1>7, ReceiveFacts DEF OrderInv
  <2>3. ASSUME NEW q \in Rows, e.table \in group, e.sent[q] # Nothing,
               WriteRecord(e.table, q, e.sent[q]), NEW r \in Rows, buf'[r] # Nothing
        PROVE  StreamOf[r] \in group
    <3>1. StreamOf[q] \in group
      BY <2>2, <2>3 DEF LogInv
    <3> HIDE DEF e
    <3>2. buf' = buf \/ buf' = [buf EXCEPT ![q] = e.sent[q]]
      BY <2>3 DEF WriteRecord
    <3> QED
      BY <1>7, <2>1, <2>3, <3>1, <3>2 DEF ReceiveChange, TypeOK
  <2>4. \A r \in Rows : buf'[r] # Nothing => StreamOf[r] \in group
    <3>1. CASE UNCHANGED buf
      BY <1>7, <2>1, <3>1 DEF ReceiveChange
    <3>2. CASE \E q \in Rows : /\ e.table \in group /\ e.sent[q] # Nothing
                              /\ WriteRecord(e.table, q, e.sent[q])
      BY <2>3, <3>2
    <3> QED
      BY <1>7, <3>1, <3>2 DEF ReceiveChange
  <2> QED
    BY <2>1, <2>4
<1>8. ASSUME AckSlot \/ IdleOut \/ SavePosition \/ Finish PROVE BufferInv'
  BY <1>8 DEF AckSlot, IdleOut, SavePosition, Finish, Exit
<1>9. ASSUME NEW s \in Streams, FlushStream(s) \/ Spill(s) PROVE BufferInv'
  BY <1>9 DEF FlushStream, Spill, FlushWriter, Written, RowsOf
<1>10. ASSUME IdleError \/ Fail \/ Kill PROVE BufferInv'
  BY <1>10 DEF IdleError, Fail, Kill, Return, Exit
<1>11. ASSUME UNCHANGED vars PROVE BufferInv'
  BY <1>11 DEF vars
<1> QED
  BY <1>1, <1>2, <1>3, <1>4, <1>5, <1>6, <1>7, <1>8, <1>9, <1>10, <1>11
     DEF Next, Run

-----------------------------------------------------------------------------
(* What the destination and the buffers hold.                              *)

LEMMA NextBackfillInv ==
  ASSUME Inv, [Next]_vars
  PROVE  BackfillInv'
<1> USE DEF BackfillInv, source, catalog, doc, stream, load, files, faults
<1>0. TypeOK /\ OrderInv /\ PositionInv /\ GroupInv /\ BufferInv /\ BackfillInv
  BY DEF Inv
<1>1. ASSUME NEW s, NEW new, NEW sent, NEW w \in 1..MaxWidth,
             Commit(s, new, sent, w), Sound(s, new, sent)
      PROVE  BackfillInv'
  <2>1. UNCHANGED <<dest, tail, swallowed, buf, pc, cur, toRead, since>>
    BY <1>1 DEF Commit
  <2>2. ASSUME pc \in {"backfill", "flushed"}, NEW q \in Rows, NEW x,
               Settled(x, q, since)
        PROVE  \/ x = now'[q]
               \/ \E j \in 1..Len(log') : j > since /\ log'[j].new[q] # Nothing
               \/ q \in HalfTold'
    <3>1. since \in Int /\ since <= Len(log) /\ TypeOK
      BY <1>0, <2>2, PositionTypes DEF PositionInv
    <3> QED
      BY <1>1, <2>2, <3>1, CommitKeeps
  <2> QED
    BY <1>0, <2>1, <2>2 DEF RowsOf, Written, Settled, ChangedAfter
<1>2. ASSUME UNCHANGED <<now, log, dest, tail, swallowed, buf, pc, cur, toRead, since>>
      PROVE  BackfillInv'
  BY <1>0, <1>2, HalfToldSame DEF RowsOf, Written, Settled, ChangedAfter
<1>3. ASSUME NEW s \in Streams, Select(s) \/ Deselect(s) PROVE BackfillInv'
  BY <1>2, <1>3 DEF Select, Deselect
<1>4. ASSUME NEW s \in Streams, OpenStream(s) PROVE BackfillInv'
  <2>1. CASE s \in backfilled
    BY <1>0, <1>4, <2>1 DEF OpenStream
  <2>2. CASE s \notin backfilled
    <3>1. \A r \in Rows : buf'[r] = Nothing
      BY <1>0, <1>4 DEF OpenStream, BufferInv
    <3>2. /\ pc' = "backfill" /\ cur' = s /\ toRead' = RowsOf(s) /\ tail'[s] = "whole"
          /\ \A r \in RowsOf(s) : dest'[r] = None /\ r \notin swallowed'
      BY <1>0, <1>4, <2>2 DEF OpenStream, RowsOf, TypeOK
    <3> QED
      BY <3>1, <3>2 DEF RowsOf
  <2> QED
    BY <2>1, <2>2
<1>5. ASSUME NEW r \in Rows, ReadRow(r) PROVE BackfillInv'
  <2>1. /\ pc = "backfill" /\ pc' = "backfill" /\ tail[cur] = "whole"
        /\ UNCHANGED <<now, log, cur, since>>
        /\ toRead' = toRead \ {r}
        /\ r \in RowsOf(cur) /\ r \in toRead /\ dest[r] = None /\ buf[r] = Nothing
    BY <1>0, <1>5 DEF ReadRow, TypeOK
  <2>2. /\ UNCHANGED <<dest, tail>>
        /\ \A q \in Rows : q # r => buf'[q] = buf[q]
        /\ \A q \in Rows : q \in swallowed' => q \in swallowed
    BY <1>0, <1>5, <2>1 DEF ReadRow, WriteRecord, TypeOK
  <2>3. \/ buf'[r] = now[r] /\ now[r] # Nothing
        \/ buf'[r] = buf[r] /\ now[r] = None
        \/ ChangedAfter(since, r)
    BY <1>0, <1>5, <2>1, CdcAssumption DEF ReadRow, WriteRecord, TypeOK, CdcAssumption
  <2>4. ASSUME NEW q \in RowsOf(cur), q \notin toRead'
        PROVE  Settled(IF buf'[q] = Nothing THEN dest[q] ELSE buf'[q], q, since)
    <3>1. CASE q = r
      BY <2>1, <2>3, <3>1 DEF Settled
    <3>2. CASE q # r
      BY <1>0, <2>1, <2>2, <2>4, <3>2 DEF RowsOf, Written
    <3> QED
      BY <3>1, <3>2
  <2>5. \A q \in RowsOf(cur) : q \in toRead' => buf'[q] = Nothing /\ dest'[q] = None
    BY <1>0, <2>1, <2>2 DEF RowsOf
  <2>6. \A q \in RowsOf(cur) : q \notin swallowed'
    BY <1>0, <2>1, <2>2 DEF RowsOf
  <2> QED
    BY <2>1, <2>2, <2>4, <2>5, <2>6, HalfToldSame
       DEF RowsOf, Written, Settled, ChangedAfter
<1>6. ASSUME FlushBackfill PROVE BackfillInv'
  <2>1. /\ pc = "backfill" /\ pc' = "flushed" /\ toRead = {}
        /\ UNCHANGED <<now, log, cur, since, swallowed>>
        /\ \A r \in RowsOf(cur) : dest'[r] = Written(r)
    BY <1>6 DEF FlushBackfill, FlushWriter, RowsOf
  <2> QED
    BY <1>0, <2>1, HalfToldSame DEF RowsOf, Settled, ChangedAfter
<1>7. ASSUME NEW s \in Streams, Spill(s) PROVE BackfillInv'
  <2>1. /\ UNCHANGED <<now, log, cur, since, toRead, swallowed, pc>>
        /\ pc # "flushed" /\ (tail[cur] = "whole" => tail'[cur] = "whole")
        /\ \A r \in Rows : Written(r)' = Written(r)
        /\ \A r \in Rows : buf[r] = Nothing => buf'[r] = Nothing /\ dest'[r] = dest[r]
    BY <1>0, <1>7 DEF Spill, FlushWriter, Written, Mended, TypeOK
  <2> HIDE DEF files
  <2> QED
    BY <1>0, <2>1, HalfToldSame DEF RowsOf, Settled, ChangedAfter
<1>8. ASSUME Start \/ EnsurePublication \/ EnsureSlot \/ SaveAnchor \/ MarkBackfilled
      PROVE  BackfillInv'
  BY <1>8 DEF Start, EnsurePublication, EnsureSlot, SaveAnchor, MarkBackfilled
<1>9. ASSUME BeginStreaming \/ ReceiveChange \/ AckSlot \/ IdleOut PROVE BackfillInv'
  BY <1>9 DEF BeginStreaming, ReceiveChange, AckSlot, IdleOut
<1>10. ASSUME NEW s \in Streams, FlushStream(s) PROVE BackfillInv'
  BY <1>10 DEF FlushStream
<1>11. ASSUME SavePosition \/ Finish \/ IdleError \/ Fail \/ Kill PROVE BackfillInv'
  BY <1>11 DEF SavePosition, Finish, IdleError, Fail, Kill, Return, Exit
<1>12. ASSUME UNCHANGED vars PROVE BackfillInv'
  BY <1>2, <1>12 DEF vars
<1> QED
  BY <1>1, <1>3, <1>4, <1>5, <1>6, <1>7, <1>8, <1>9, <1>10, <1>11, <1>12,
     EnvironmentCases, <1>0 DEF Next, Run

LEMMA NextReplayInv ==
  ASSUME Lossless, Inv, [Next]_vars
  PROVE  ReplayInv'
<1> USE DEF ReplayInv, source, catalog, doc, stream, load, files, faults
<1>0. /\ TypeOK /\ PositionInv /\ OrderInv /\ GroupInv /\ PublishedInv /\ BufferInv
      /\ ReplayInv /\ LogInv /\ DurableInv
  BY DEF Inv
<1>1. ASSUME NEW s, NEW new, NEW sent, NEW w \in 1..MaxWidth,
             Commit(s, new, sent, w), Sound(s, new, sent)
      PROVE  ReplayInv'
  <2>1. UNCHANGED <<dest, swallowed, buf, pc, left, group, backfilled, selected, at>>
    BY <1>1 DEF Commit
  <2>2. ASSUME pc \in {"stream", "ack", "flush"}, NEW q \in Rows, NEW x,
               Settled(x, q, at)
        PROVE  \/ x = now'[q]
               \/ \E j \in 1..Len(log') : j > at /\ log'[j].new[q] # Nothing
               \/ q \in HalfTold'
    <3>1. at \in Int /\ at <= Len(log) /\ TypeOK
      BY <1>0, <2>2, PositionTypes DEF PositionInv
    <3> QED
      BY <1>1, <2>2, <3>1, CommitKeeps
  <2>3. Kept' = Kept
    BY <2>1 DEF Kept
  <2> QED
    BY <1>0, <2>1, <2>2, <2>3 DEF Written, Kept, Settled, ChangedAfter
<1>2. ASSUME UNCHANGED <<now, log, left, group, at, swallowed>>,
             pc \in {"stream", "ack", "flush"}, pc' \in {pc, "flush"},
             \A r \in Kept' : r \in Kept /\ Written(r)' = Written(r)
      PROVE  ReplayInv'
  BY <1>0, <1>2, HalfToldSame DEF Settled, ChangedAfter
<1>3. ASSUME pc' \notin {"stream", "ack", "flush"} PROVE ReplayInv'
  BY <1>3
<1>4. ASSUME NEW s \in Streams, Select(s) \/ Deselect(s) PROVE ReplayInv'
  <2>1. UNCHANGED <<now, log, dest, swallowed, buf, pc, left, group, at, backfilled>>
    BY <1>4 DEF Select, Deselect
  <2>2. \A r \in Kept' : r \in Kept \/ pc = "flushed"
    BY <2>1, KeptStep DEF MarkBackfilled
  <2>3. \A r \in Rows : Written(r)' = Written(r)
    BY <2>1 DEF Written
  <2>4. CASE pc \in {"stream", "ack", "flush"}
    BY <1>2, <2>1, <2>2, <2>3, <2>4 DEF Kept
  <2> QED
    BY <1>3, <2>1, <2>4
<1>5. ASSUME Start \/ EnsurePublication \/ EnsureSlot \/ SaveAnchor \/ MarkBackfilled
      PROVE  ReplayInv'
  BY <1>5 DEF Start, EnsurePublication, EnsureSlot, SaveAnchor, MarkBackfilled
<1>6. ASSUME NEW s \in Streams, OpenStream(s) PROVE ReplayInv'
  BY <1>6 DEF OpenStream
<1>7. ASSUME NEW r \in Rows, ReadRow(r) PROVE ReplayInv'
  BY <1>7 DEF ReadRow
<1>8. ASSUME FlushBackfill PROVE ReplayInv'
  BY <1>8 DEF FlushBackfill
<1>9. ASSUME BeginStreaming PROVE ReplayInv'
  <2>1. \A r \in Rows : Written(r) = dest[r]
    BY <1>0, <1>9 DEF BeginStreaming, BufferInv, Written
  <2>2. at' = Resume
    BY <1>0, <1>9, PositionTypes, CdcAssumption
       DEF BeginStreaming, Resume, Larger, PositionInv, OrderInv, Binlog, Slot, CdcAssumption
  <2>3. /\ pc = "open" /\ left' = group /\ pc' \in {"stream", "flush"}
        /\ UNCHANGED <<now, log, dest, swallowed, buf, group, backfilled, selected>>
    BY <1>9 DEF BeginStreaming
  <2>4. \A r \in Kept : Settled(dest[r], r, Resume) \/ r \in swallowed
    BY <1>0, <2>3 DEF DurableInv
  <2>5. Kept' = Kept /\ \A r \in Kept : Written(r)' = dest[r]
    BY <2>1, <2>3 DEF Kept, Written
  <2> QED
    BY <2>2, <2>3, <2>4, <2>5, HalfToldSame DEF Settled, ChangedAfter
<1>10. ASSUME ReceiveChange PROVE ReplayInv'
  <2>1. /\ pc = "stream" /\ left = group /\ at \in Int /\ 0 <= at /\ at < Len(log)
        /\ Resume <= at /\ Len(log) \in Nat
    BY <1>0, <1>10, PositionTypes DEF ReceiveChange, PositionInv, OrderInv, NoPos
  <2> DEFINE e == log[at + 1]
  <2>2. at + 1 \in 1..Len(log) /\ pc' \in {"stream", "ack", "flush"}
    BY <1>10, <2>1 DEF ReceiveChange
  <2>3. /\ e.sent \in [Rows -> Values \cup {Nothing, Unavailable}]
        /\ \A r \in Rows :
             /\ e.sent[r] # Nothing => e.new[r] # Nothing
             /\ e.new[r] # Nothing =>
                  StreamOf[r] = e.table /\ (e.new[r] = now[r] \/ ChangedAfter(at + 1, r))
        /\ \A r, q \in Rows : e.sent[r] # Nothing /\ e.sent[q] # Nothing => r = q
    BY <1>0, <2>2, ChangeFields DEF LogInv, TypeOK
  <2>4. /\ at' = at + 1
        /\ UNCHANGED <<now, log, dest, left, group, backfilled, selected>>
        /\ \/ \E r \in Rows : /\ e.pub /\ e.table \in group /\ e.sent[r] # Nothing
                              /\ WriteRecord(e.table, r, e.sent[r])
           \/ /\ ~e.pub \/ e.table \notin group \/ \A r \in Rows : e.sent[r] = Nothing
              /\ UNCHANGED <<swallowed, buf>>
    <3>1. dest' = dest
      BY <1>0, <1>10, ReceiveFacts DEF OrderInv
    <3> QED
      BY <1>10, <3>1 DEF ReceiveChange
  <2>5. ASSUME NEW r \in Kept, e.table = StreamOf[r] PROVE e.pub
    <3>1. CASE Binlog
      BY <1>0, <2>2, <3>1 DEF LogInv
    <3>2. CASE ~Binlog
      <4>1. Slot /\ Resume = confirmed
        BY <3>2, ResumeFacts
      <4>2. confirmed # NoPos /\ at + 1 > confirmed
        BY <1>0, <2>1, <4>1, PositionTypes DEF OrderInv
      <4>3. e.pub \/ e.table \notin selected
        BY <1>0, <2>2, <4>1, <4>2 DEF PublishedInv
      <4> QED
        BY <2>5, <4>3 DEF Kept
    <3> QED
      BY <3>1, <3>2
  <2>6. ASSUME NEW r \in Rows, e.sent[r] = Nothing
        PROVE  Written(r)' = Written(r) /\ (r \in swallowed <=> r \in swallowed')
    <3>1. CASE UNCHANGED <<swallowed, buf>>
      BY <2>4, <3>1 DEF Written
    <3>2. CASE \E q \in Rows : /\ e.table \in group /\ e.sent[q] # Nothing
                              /\ WriteRecord(e.table, q, e.sent[q])
      <4>1. PICK q \in Rows : /\ e.table \in group /\ e.sent[q] # Nothing
                              /\ WriteRecord(e.table, q, e.sent[q])
        BY <3>2
      <4>2. q # r
        BY <2>6, <4>1
      <4> HIDE DEF e
      <4> QED
        BY <1>0, <2>4, <4>1, <4>2 DEF WriteRecord, Written, TypeOK
    <3> QED
      BY <2>4, <3>1, <3>2
  <2>7. ASSUME NEW r \in Kept, e.sent[r] # Nothing
        PROVE  \/ Written(r)' = e.sent[r]
               \/ r \in swallowed'
    <3>1. e.table = StreamOf[r] /\ r \in Rows /\ e.table \in group
      BY <1>0, <2>1, <2>3, <2>7, KeptInGroup DEF Kept
    <3>2. PICK q \in Rows : e.sent[q] # Nothing /\ WriteRecord(e.table, q, e.sent[q])
      BY <2>4, <2>5, <2>7, <3>1
    <3>3. q = r
      BY <2>3, <2>7, <3>1, <3>2
    <3> HIDE DEF e
    <3> QED
      BY <1>0, <2>7, <3>1, <3>2, <3>3 DEF WriteRecord, Written, TypeOK
  <2>8. ASSUME NEW r \in Kept, e.new[r] = Nothing, Settled(Written(r), r, at)
        PROVE  Settled(Written(r), r, at + 1)
    <3>1. ASSUME NEW j \in 1..Len(log), j > at, log[j].new[r] # Nothing
          PROVE  j > at + 1
      BY <2>1, <2>8, <3>1
    <3> QED
      BY <2>8, <3>1 DEF Settled, ChangedAfter
  <2>9. ASSUME NEW r \in Kept, e.new[r] # Nothing, e.sent[r] # e.new[r]
        PROVE  ChangedAfter(at + 1, r) \/ r \in HalfTold
    BY <2>2, <2>9 DEF HalfTold, Kept
  <2>10. ASSUME NEW r \in Kept
         PROVE  \/ Written(r)' = now[r] \/ ChangedAfter(at + 1, r) \/ r \in HalfTold
                \/ r \in swallowed'
    <3>1. r \in Rows /\ (Settled(Written(r), r, at) \/ r \in swallowed)
      BY <1>0, <2>1, <2>10 DEF Kept
    <3>2. CASE e.new[r] = Nothing
      <4>1. e.sent[r] = Nothing
        BY <2>3, <3>1, <3>2
      <4> QED
        BY <2>6, <2>8, <2>10, <3>1, <3>2, <4>1 DEF Settled
    <3>3. CASE e.new[r] # Nothing /\ e.sent[r] # e.new[r]
      BY <2>9, <2>10, <3>3
    <3>4. CASE e.new[r] # Nothing /\ e.sent[r] = e.new[r]
      BY <2>3, <2>7, <2>10, <3>1, <3>4
    <3> QED
      BY <3>2, <3>3, <3>4
  <2>11. Kept' = Kept
    BY <2>4 DEF Kept
  <2> QED
    BY <2>1, <2>2, <2>4, <2>10, <2>11, HalfToldSame DEF Settled, ChangedAfter
<1>11. ASSUME AckSlot \/ IdleOut PROVE ReplayInv'
  <2>1. /\ UNCHANGED <<now, log, dest, swallowed, buf, left, group, at, backfilled, selected>>
        /\ pc \in {"stream", "ack"} /\ pc' = "flush"
    BY <1>11 DEF AckSlot, IdleOut
  <2> QED
    BY <1>2, <2>1 DEF Written, Kept
<1>12. ASSUME NEW s \in Streams, FlushStream(s) PROVE ReplayInv'
  <2>1. \A r \in Rows : Written(r)' = Written(r)
    BY <1>0, <1>12 DEF FlushStream, FlushWriter, Written, TypeOK
  <2>2. /\ pc = "flush" /\ pc' = "flush"
        /\ UNCHANGED <<now, log, backfilled, selected, at, swallowed>>
    BY <1>12 DEF FlushStream, FlushWriter
  <2>3. Kept' = Kept /\ Kept \subseteq Rows
    BY <2>2 DEF Kept
  <2> QED
    BY <1>0, <2>1, <2>2, <2>3, HalfToldSame DEF Settled, ChangedAfter
<1>13. ASSUME NEW s \in Streams, Spill(s) PROVE ReplayInv'
  <2>1. \A r \in Rows : Written(r)' = Written(r)
    BY <1>0, <1>13 DEF Spill, FlushWriter, Written, TypeOK
  <2>2. UNCHANGED <<now, log, left, group, at, swallowed, pc, backfilled, selected>>
    BY <1>13 DEF Spill, FlushWriter
  <2>3. Kept' = Kept /\ Kept \subseteq Rows
    BY <2>2 DEF Kept
  <2> QED
    BY <1>2, <1>3, <2>1, <2>2, <2>3
<1>14. ASSUME SavePosition \/ Finish \/ IdleError \/ Fail \/ Kill PROVE ReplayInv'
  BY <1>14 DEF SavePosition, Finish, IdleError, Fail, Kill, Return, Exit
<1>15. ASSUME UNCHANGED vars PROVE ReplayInv'
  BY <1>2, <1>3, <1>15 DEF vars, Written, Kept
<1> QED
  BY <1>0, <1>1, <1>4, <1>5, <1>6, <1>7, <1>8, <1>9, <1>10, <1>11, <1>12, <1>13,
     <1>14, <1>15, EnvironmentCases DEF Next, Run

LEMMA NextDurableInv ==
  ASSUME Lossless, Inv, [Next]_vars
  PROVE  DurableInv'
<1> USE DEF DurableInv, source, catalog, doc, stream, load, files, faults
<1>0. /\ TypeOK /\ OrderInv /\ LogInv /\ PositionInv /\ GroupInv /\ BufferInv
      /\ ReplayInv /\ BackfillInv /\ DurableInv
  BY DEF Inv
<1>1. /\ position \in Int /\ Resume \in Int /\ at \in Int /\ since \in Int
      /\ clientPos \in Int /\ position <= Resume
  BY <1>0, PositionTypes, ResumeFacts DEF PositionInv
<1>2. ASSUME NEW s, NEW new, NEW sent, NEW w \in 1..MaxWidth,
             Commit(s, new, sent, w), Sound(s, new, sent)
      PROVE  DurableInv'
  <2>1. UNCHANGED <<dest, swallowed, backfilled, selected, position, confirmed, pc>>
    BY <1>2 DEF Commit
  <2>2. ASSUME NEW q \in Rows, NEW x, NEW p \in {position, Resume}, Settled(x, q, p)
        PROVE  \/ x = now'[q]
               \/ \E j \in 1..Len(log') : j > p /\ log'[j].new[q] # Nothing
               \/ q \in HalfTold'
    <3>1. p \in Int /\ p <= Len(log) /\ TypeOK
      BY <1>0, <1>1, PositionTypes DEF PositionInv
    <3> QED
      BY <1>2, <2>2, <3>1, CommitKeeps
  <2>3. Kept' = Kept /\ Resume' = Resume /\ Kept \subseteq Rows
    BY <2>1 DEF Kept, Resume
  <2> QED
    BY <1>0, <2>1, <2>2, <2>3 DEF Settled, ChangedAfter
<1>3. ASSUME UNCHANGED <<now, log, doc, confirmed>>,
             pc # "flush" \/ pc' = "flush" \/ Resume = position,
             \A r \in Kept' : r \in Kept /\ dest'[r] = dest[r]
                              /\ (r \in swallowed => r \in swallowed')
      PROVE  DurableInv'
  <2>1. Resume' = Resume
    BY <1>3 DEF Resume
  <2> QED
    BY <1>0, <1>3, <2>1, HalfToldSame DEF Settled, ChangedAfter
<1>4. ASSUME NEW s \in Streams, Select(s) \/ Deselect(s) PROVE DurableInv'
  <2>1. UNCHANGED <<now, log, dest, swallowed, doc, confirmed, pc>>
    BY <1>4 DEF Select, Deselect
  <2>2. ~MarkBackfilled \/ pc' = "open"
    BY DEF MarkBackfilled
  <2>3. \A r \in Kept' : r \in Kept \/ MarkBackfilled
    BY KeptStep
  <2>4. \A r \in Kept' : r \in Kept
    BY <2>1, <2>2, <2>3 DEF MarkBackfilled
  <2> QED
    BY <1>3, <2>1, <2>4
<1>5. ASSUME UNCHANGED <<now, log, dest, swallowed, doc, selected, confirmed>>,
             pc # "flush" \/ pc' = "flush" \/ Resume = position
      PROVE  DurableInv'
  <2>1. Kept' = Kept
    BY <1>5 DEF Kept
  <2> QED
    BY <1>3, <1>5, <2>1
<1>6. ASSUME Start \/ EnsurePublication PROVE DurableInv'
  BY <1>5, <1>6 DEF Start, EnsurePublication
<1>7. ASSUME EnsureSlot \/ SaveAnchor PROVE DurableInv'
  <2>1. Kept' = {}
    BY <1>0, <1>7 DEF EnsureSlot, SaveAnchor, OrderInv, GroupInv, Kept
  <2> QED
    BY <2>1
<1>8. ASSUME NEW s \in Streams, OpenStream(s) PROVE DurableInv'
  <2>1. /\ UNCHANGED <<now, log, doc, selected, confirmed>>
        /\ pc = "open"
        /\ \A r \in Kept : dest'[r] = dest[r] /\ (r \in swallowed => r \in swallowed')
    BY <1>0, <1>8 DEF OpenStream, RowsOf, Kept, TypeOK
  <2>2. Kept' = Kept
    BY <2>1 DEF Kept
  <2> QED
    BY <1>3, <2>1, <2>2
<1>9. ASSUME NEW r \in Rows, ReadRow(r) PROVE DurableInv'
  <2>1. /\ UNCHANGED <<now, log, dest, doc, selected, confirmed>>
        /\ pc = "backfill" /\ r \in RowsOf(cur)
        /\ \A q \in Rows : q # r => (q \in swallowed => q \in swallowed')
    BY <1>0, <1>9 DEF ReadRow, WriteRecord, TypeOK
  <2>2. Kept' = Kept /\ Kept \subseteq Rows /\ r \notin Kept
    BY <1>0, <2>1 DEF Kept, GroupInv, RowsOf
  <2> QED
    BY <1>3, <2>1, <2>2
<1>10. ASSUME FlushBackfill PROVE DurableInv'
  <2>1. /\ UNCHANGED <<now, log, doc, selected, confirmed, swallowed>>
        /\ pc = "backfill"
        /\ \A r \in Kept : dest'[r] = dest[r]
    BY <1>0, <1>10 DEF FlushBackfill, FlushWriter, GroupInv, RowsOf, Kept
  <2>2. Kept' = Kept
    BY <2>1 DEF Kept
  <2> QED
    BY <1>3, <2>1, <2>2
<1>11. ASSUME MarkBackfilled PROVE DurableInv'
  <2>1. /\ UNCHANGED <<now, log, dest, swallowed, position, confirmed>>
        /\ pc = "flushed" /\ Resume <= since
    BY <1>0, <1>11 DEF MarkBackfilled, PositionInv
  <2>2. Resume' = Resume
    BY <2>1 DEF Resume
  <2>3. ASSUME NEW r \in Rows, StreamOf[r] = cur
        PROVE  Settled(dest[r], r, Resume)
    BY <1>0, <1>1, <2>1, <2>3 DEF BackfillInv, RowsOf, Settled, ChangedAfter
  <2>4. ASSUME NEW r \in Kept', r \notin swallowed
        PROVE  Settled(dest[r], r, Resume)
    <3>1. CASE r \in Kept
      BY <1>0, <2>1, <2>4, <3>1
    <3>2. CASE StreamOf[r] = cur
      BY <2>3, <2>4, <3>2 DEF Kept
    <3> QED
      BY <2>4, <3>1, <3>2, KeptStep
  <2>5. ASSUME NEW r \in Kept', r \notin swallowed
        PROVE  Settled(dest[r], r, position)
    BY <1>1, <2>4, <2>5 DEF Settled, ChangedAfter
  <2> QED
    BY <2>1, <2>2, <2>4, <2>5, HalfToldSame DEF Settled, ChangedAfter
<1>12. ASSUME BeginStreaming PROVE DurableInv'
  BY <1>5, <1>12 DEF BeginStreaming
<1>13. ASSUME ReceiveChange PROVE DurableInv'
  <2>1. /\ pc = "stream" /\ at \in Int /\ 0 <= at /\ at < Len(log)
        /\ Resume <= at /\ position <= at /\ at + 1 \in 1..Len(log) /\ dest' = dest
        /\ UNCHANGED <<now, log, doc, selected, confirmed>>
    BY <1>0, <1>1, <1>13, PositionTypes, ReceiveFacts
       DEF ReceiveChange, PositionInv, OrderInv, NoPos
  <2> DEFINE e == log[at + 1]
  <2>2. \A r \in Rows : \/ r \in swallowed => r \in swallowed'
                        \/ e.sent[r] # Nothing
    <3>1. CASE UNCHANGED swallowed
      BY <3>1
    <3>2. ASSUME NEW q \in Rows, e.sent[q] # Nothing, WriteRecord(e.table, q, e.sent[q])
          PROVE  \A r \in Rows : \/ r \in swallowed => r \in swallowed'
                                 \/ e.sent[r] # Nothing
      BY <3>2 DEF WriteRecord
    <3> QED
      BY <1>13, <3>1, <3>2 DEF ReceiveChange
  <2>3. ASSUME NEW r \in Rows, e.sent[r] # Nothing
        PROVE  ChangedAfter(Resume, r) /\ ChangedAfter(position, r)
    <3>1. log[at + 1].new[r] # Nothing
      BY <1>0, <2>1, <2>3 DEF LogInv
    <3> QED
      BY <1>1, <2>1, <3>1 DEF ChangedAfter
  <2>4. Kept' = Kept /\ Kept \subseteq Rows /\ Resume' = Resume
    BY <2>1 DEF Kept, Resume
  <2> HIDE DEF e
  <2>5. \A r \in Kept : r \notin swallowed' =>
          Settled(dest[r], r, Resume) /\ Settled(dest[r], r, position)
    BY <1>0, <2>1, <2>2, <2>3, <2>4 DEF Settled
  <2> QED
    BY <2>1, <2>4, <2>5, HalfToldSame DEF Settled, ChangedAfter
<1>14. ASSUME AckSlot PROVE DurableInv'
  <2>1. /\ UNCHANGED <<now, log, dest, swallowed, doc, selected>> /\ pc' = "flush"
    BY <1>14 DEF AckSlot
  <2>2. Kept' = Kept
    BY <2>1 DEF Kept
  <2> QED
    BY <1>0, <2>1, <2>2, HalfToldSame DEF Settled, ChangedAfter
<1>15. ASSUME IdleOut PROVE DurableInv'
  BY <1>5, <1>15 DEF IdleOut
<1>16. ASSUME pc \in {"stream", "ack", "flush"}, NEW r \in Kept, r \notin swallowed,
              NEW p \in Int, p <= at
       PROVE  Settled(Written(r), r, p)
  BY <1>0, <1>1, <1>16 DEF ReplayInv, Settled, ChangedAfter
<1>17. ASSUME pc \in {"stream", "ack", "flush"}
       PROVE  Resume <= at /\ position <= at /\ clientPos <= at
  BY <1>0, <1>1, <1>17 DEF PositionInv
<1>18. ASSUME UNCHANGED <<now, log, doc, selected, confirmed, swallowed>>,
              pc # "flush" \/ pc' = "flush" \/ Resume = position
                \/ \A r \in Rows : dest'[r] = Written(r),
              \A r \in Rows : dest'[r] = Written(r) \/ dest'[r] = dest[r]
       PROVE  DurableInv'
  <2>1. Kept' = Kept /\ Kept \subseteq Rows /\ Resume' = Resume
    BY <1>18 DEF Kept, Resume
  <2>2. CASE pc \in {"stream", "ack", "flush"}
    <3>1. \A r \in Kept : r \notin swallowed =>
             /\ Settled(dest'[r], r, position)
             /\ pc' # "flush" => Settled(dest'[r], r, Resume)
      BY <1>0, <1>1, <1>16, <1>17, <1>18, <2>1, <2>2
    <3> QED
      BY <1>18, <2>1, <3>1, HalfToldSame DEF Settled, ChangedAfter
  <2>3. CASE pc \notin {"stream", "ack", "flush"}
    <3>1. \A r \in Kept : dest'[r] = dest[r]
      BY <1>0, <1>18, <2>1, <2>3 DEF BufferInv, GroupInv, Written, Kept
    <3> QED
      BY <1>3, <1>18, <2>1, <2>3, <3>1
  <2> QED
    BY <2>2, <2>3
<1>19. ASSUME NEW s \in Streams, FlushStream(s) \/ Spill(s) PROVE DurableInv'
  BY <1>18, <1>19 DEF FlushStream, Spill, FlushWriter
<1>20. ASSUME SavePosition PROVE DurableInv'
  <2>1. /\ UNCHANGED <<now, log, dest, swallowed, backfilled, selected, confirmed>>
        /\ pc = "flush" /\ pc' = "saved" /\ position' = clientPos
        /\ \A r \in Rows : Written(r) = dest[r]
    BY <1>0, <1>20 DEF SavePosition, BufferInv, Written
  <2>2. Kept' = Kept /\ Kept \subseteq Rows
    BY <2>1 DEF Kept
  <2>3. Resume' \in {Resume, clientPos}
    BY <2>1 DEF Resume
  <2>4. Resume' \in Int /\ Resume' <= at
    BY <1>1, <1>17, <2>1, <2>3
  <2>5. ASSUME NEW r \in Kept, r \notin swallowed, NEW p \in Int, p <= at
        PROVE  Settled(dest[r], r, p)
    BY <1>16, <2>1, <2>2, <2>5
  <2>6. ASSUME NEW r \in Kept, r \notin swallowed
        PROVE  Settled(dest[r], r, clientPos) /\ Settled(dest[r], r, Resume')
    BY <1>1, <1>17, <2>1, <2>4, <2>5, <2>6
  <2> QED
    BY <2>1, <2>2, <2>6, HalfToldSame DEF Settled, ChangedAfter
<1>21. ASSUME Finish PROVE DurableInv'
  BY <1>5, <1>21 DEF Finish
<1>22. ASSUME Kill PROVE DurableInv'
  BY <1>5, <1>22, LosslessFacts, ResumeFacts DEF Kill
<1>23. ASSUME IdleError \/ Fail PROVE DurableInv'
  <2>1. /\ dest' = [r \in Rows |-> Written(r)]
        /\ UNCHANGED <<now, log, doc, selected, confirmed, swallowed>>
    BY <1>23 DEF IdleError, Fail, Return
  <2> QED
    BY <1>18, <2>1
<1>24. ASSUME UNCHANGED vars PROVE DurableInv'
  BY <1>5, <1>24 DEF vars
<1> QED
  BY <1>0, <1>2, <1>4, <1>6, <1>7, <1>8, <1>9, <1>10, <1>11, <1>12, <1>13, <1>14,
     <1>15, <1>19, <1>20, <1>21, <1>22, <1>23, <1>24, EnvironmentCases DEF Next, Run

LEMMA InitInv == Init => Inv
<1> SUFFICES ASSUME Init PROVE Inv
  OBVIOUS
<1>1. TypeOK /\ OrderInv
  BY InitTypeOK DEF Init, OrderInv, NoPos
<1>2. LogInv /\ PositionInv
  BY DEF Init, LogInv, PositionInv, Resume, NoPos
<1>3. GroupInv /\ PublishedInv /\ BufferInv /\ BackfillInv
  BY DEF Init, GroupInv, PublishedInv, BufferInv, BackfillInv
<1>4. ReplayInv /\ DurableInv
  BY DEF Init, ReplayInv, DurableInv, Kept
<1> QED
  BY <1>1, <1>2, <1>3, <1>4 DEF Inv

LEMMA NextInv ==
  ASSUME Lossless, Inv, [Next]_vars
  PROVE  Inv'
BY NextTypeOK, NextOrderInv, NextLogInv, NextPositionInv, NextGroupInv,
   NextPublishedInv, NextBufferInv, NextBackfillInv, NextReplayInv,
   NextDurableInv DEF Inv

-----------------------------------------------------------------------------
(* What torn lines cost.                                                   *)

\* Stream s has no more swallowed rows and torn lines than before.
TornKept(s) ==
  /\ Swallowed(s)' \subseteq Swallowed(s)
  /\ tail'[s] = "torn" => tail[s] = "torn"
  /\ tail[s] = "whole" => tail'[s] = "whole"
  /\ kills' = kills

LEMMA TornKeptInv ==
  ASSUME TypeOK, TornInv, \A s \in Streams : TornKept(s)
  PROVE  TornInv'
<1>1. ASSUME NEW s \in Streams
      PROVE  /\ IsFiniteSet(Swallowed(s)')
             /\ Cardinality(Swallowed(s)') + Torn(s)' <= kills'
             /\ Format = "parquet" => tail'[s] = "whole" /\ Swallowed(s)' = {}
  <2>1. IsFiniteSet(Swallowed(s)) /\ Swallowed(s)' \subseteq Swallowed(s)
    BY <1>1 DEF TornInv, TornKept
  <2>2. /\ IsFiniteSet(Swallowed(s)')
        /\ Cardinality(Swallowed(s)') <= Cardinality(Swallowed(s))
        /\ Cardinality(Swallowed(s)') \in Nat /\ Cardinality(Swallowed(s)) \in Nat
    BY <2>1, FS_Subset, FS_CardinalityType
  <2>3. Torn(s)' <= Torn(s) /\ Torn(s)' \in {0, 1} /\ Torn(s) \in {0, 1} /\ kills \in Int
    BY <1>1 DEF Torn, TornKept, TypeOK
  <2>4. Cardinality(Swallowed(s)) + Torn(s) <= kills /\ kills' = kills
    BY <1>1 DEF TornInv, TornKept
  <2>5. Cardinality(Swallowed(s)') + Torn(s)' <= kills'
    BY <2>2, <2>3, <2>4
  <2> QED
    BY <1>1, <2>2, <2>5 DEF TornInv, TornKept
<1> QED
  BY <1>1 DEF TornInv

LEMMA WriteTorn ==
  ASSUME TypeOK, TornInv, NEW s \in Streams, NEW r \in RowsOf(s), NEW v,
         WriteRecord(s, r, v), kills' = kills
  PROVE  TornInv'
<1>1. CASE tail[s] # "torn"
  <2>1. \A t \in Streams : TornKept(t)
    BY <1>1 DEF WriteRecord, TornKept, Swallowed
  <2> QED
    BY <2>1, TornKeptInv
<1>2. CASE tail[s] = "torn"
  <2>1. /\ tail' = [tail EXCEPT ![s] = "glued"] /\ swallowed' = swallowed \cup {r}
    BY <1>2 DEF WriteRecord
  <2>2. Format # "parquet"
    BY <1>2 DEF TornInv
  <2>3. /\ IsFiniteSet(Swallowed(s)) /\ Swallowed(s)' = Swallowed(s) \cup {r}
        /\ Cardinality(Swallowed(s)) + 1 <= kills /\ kills \in Int
    BY <1>2, <2>1 DEF TornInv, Torn, Swallowed, RowsOf, TypeOK
  <2>4. /\ IsFiniteSet(Swallowed(s)')
        /\ Cardinality(Swallowed(s)') <= Cardinality(Swallowed(s)) + 1
        /\ Cardinality(Swallowed(s)') \in Nat /\ Cardinality(Swallowed(s)) \in Nat
    <3>1. /\ IsFiniteSet(Swallowed(s) \cup {r})
          /\ \/ Cardinality(Swallowed(s) \cup {r}) = Cardinality(Swallowed(s))
             \/ Cardinality(Swallowed(s) \cup {r}) = Cardinality(Swallowed(s)) + 1
      BY <2>3, FS_AddElement
    <3>2. Cardinality(Swallowed(s)) \in Nat
      BY <2>3, FS_CardinalityType
    <3> QED
      BY <2>3, <3>1, <3>2
  <2>5. Torn(s)' = 0
    BY <2>1 DEF Torn, TypeOK
  <2>6. ASSUME NEW t \in Streams, t # s
        PROVE  Swallowed(t)' = Swallowed(t) /\ Torn(t)' = Torn(t)
    BY <2>1, <2>6 DEF Swallowed, RowsOf, Torn, TypeOK
  <2>7. ASSUME NEW t \in Streams
        PROVE  IsFiniteSet(Swallowed(t)') /\ Cardinality(Swallowed(t)') + Torn(t)' <= kills'
    <3>1. CASE t = s
      BY <1>2, <2>3, <2>4, <2>5, <3>1, kills' = kills DEF Torn, Swallowed
    <3>2. CASE t # s
      BY <2>6, <3>2 DEF TornInv
    <3> QED
      BY <3>1, <3>2
  <2> QED
    BY <2>2, <2>7 DEF TornInv
<1> QED
  BY <1>1, <1>2

LEMMA NextTornInv ==
  ASSUME TypeOK, OrderInv, LogInv, TornInv, [Next]_vars
  PROVE  TornInv'
<1> USE DEF source, catalog, doc, stream, load, files, faults
<1>1. ASSUME UNCHANGED <<tail, swallowed, kills>> PROVE TornInv'
  BY <1>1, TornKeptInv DEF TornKept, Swallowed
<1>2. ASSUME UNCHANGED <<swallowed, kills>>,
             \A s \in Streams : tail'[s] \in {tail[s], Mended(tail[s])}
      PROVE  TornInv'
  <2>1. \A s \in Streams : TornKept(s)
    BY <1>2 DEF TornKept, Swallowed, Mended
  <2> QED
    BY <2>1, TornKeptInv
<1>3. ASSUME Environment PROVE TornInv'
  <2>1. ASSUME NEW s, NEW new, NEW sent, NEW w \in 1..MaxWidth, Commit(s, new, sent, w)
        PROVE  UNCHANGED <<tail, swallowed, kills>>
    BY <2>1 DEF Commit
  <2>2. ASSUME NEW s \in Streams, Select(s) \/ Deselect(s)
        PROVE  UNCHANGED <<tail, swallowed, kills>>
    BY <2>2 DEF Select, Deselect
  <2> QED
    BY <1>1, <1>3, <2>1, <2>2, EnvironmentCases
<1>4. ASSUME Start \/ EnsurePublication \/ EnsureSlot \/ SaveAnchor \/ MarkBackfilled
      PROVE  TornInv'
  BY <1>1, <1>4 DEF Start, EnsurePublication, EnsureSlot, SaveAnchor, MarkBackfilled
<1>5. ASSUME BeginStreaming \/ AckSlot \/ IdleOut \/ SavePosition \/ Finish PROVE TornInv'
  BY <1>1, <1>5 DEF BeginStreaming, AckSlot, IdleOut, SavePosition, Finish
<1>6. ASSUME NEW s \in Streams, OpenStream(s) PROVE TornInv'
  <2>1. \A t \in Streams : TornKept(t)
    BY <1>6 DEF OpenStream, TornKept, Swallowed, TypeOK
  <2> QED
    BY <2>1, TornKeptInv
<1>7. ASSUME NEW r \in Rows, ReadRow(r) PROVE TornInv'
  <2>1. r \in RowsOf(cur) /\ cur \in Streams /\ kills' = kills
    BY <1>7 DEF ReadRow, TypeOK
  <2>2. CASE WriteRecord(cur, r, now[r])
    BY <2>1, <2>2, WriteTorn
  <2>3. CASE UNCHANGED <<files, buf>>
    BY <1>1, <2>1, <2>3
  <2> QED
    BY <1>7, <2>2, <2>3 DEF ReadRow
<1>8. ASSUME FlushBackfill PROVE TornInv'
  BY <1>2, <1>8 DEF FlushBackfill, FlushWriter, TypeOK
<1>9. ASSUME NEW s \in Streams, FlushStream(s) \/ Spill(s) PROVE TornInv'
  BY <1>2, <1>9 DEF FlushStream, Spill, FlushWriter, TypeOK
<1>10. ASSUME ReceiveChange PROVE TornInv'
  <2> DEFINE e == log[at + 1]
  <2>1. at + 1 \in 1..Len(log) /\ kills' = kills
    BY <1>10, ReceiveFacts DEF OrderInv, ReceiveChange
  <2>2. ASSUME NEW r \in Rows, e.table \in group, e.sent[r] # Nothing,
               WriteRecord(e.table, r, e.sent[r])
        PROVE  TornInv'
    <3>1. r \in RowsOf(e.table) /\ e.table \in Streams
      BY <2>1, <2>2 DEF LogInv, RowsOf, TypeOK
    <3> HIDE DEF e
    <3> QED
      BY <2>1, <2>2, <3>1, WriteTorn
  <2>3. CASE UNCHANGED <<files, buf>>
    BY <1>1, <2>1, <2>3
  <2> QED
    BY <1>10, <2>2, <2>3 DEF ReceiveChange
<1>11. ASSUME IdleError \/ Fail PROVE TornInv'
  BY <1>2, <1>11 DEF IdleError, Fail, Return
<1>12. ASSUME Kill PROVE TornInv'
  <2>1. ASSUME NEW s \in Streams
        PROVE  /\ IsFiniteSet(Swallowed(s)') /\ Cardinality(Swallowed(s)') + Torn(s)' <= kills'
               /\ Format = "parquet" => tail'[s] = "whole" /\ Swallowed(s)' = {}
    <3>1. Swallowed(s)' = Swallowed(s) /\ kills' = kills + 1
      BY <1>12 DEF Kill, Swallowed
    <3>2. /\ IsFiniteSet(Swallowed(s)) /\ Cardinality(Swallowed(s)) + Torn(s) <= kills
          /\ Cardinality(Swallowed(s)) \in Nat
      BY FS_CardinalityType DEF TornInv
    <3>3. Torn(s) \in {0, 1} /\ Torn(s)' \in {0, 1} /\ kills \in Int
      BY DEF Torn, TypeOK
    <3>4. Format = "parquet" => tail'[s] = "whole"
      BY <1>12 DEF Kill, MayTear, TornInv
    <3> QED
      BY <3>1, <3>2, <3>3, <3>4 DEF TornInv
  <2> QED
    BY <2>1 DEF TornInv
<1>13. ASSUME UNCHANGED vars PROVE TornInv'
  BY <1>1, <1>13 DEF vars
<1> QED
  BY <1>3, <1>4, <1>5, <1>6, <1>7, <1>8, <1>9, <1>10, <1>11, <1>12, <1>13
     DEF Next, Run

-----------------------------------------------------------------------------
LEMMA InitTornInv == Init => TornInv
<1> SUFFICES ASSUME Init PROVE TornInv
  OBVIOUS
<1>1. \A s \in Streams : Swallowed(s) = {} /\ Torn(s) = 0 /\ tail[s] = "whole"
  BY DEF Init, Swallowed, Torn
<1>2. IsFiniteSet({}) /\ Cardinality({}) = 0 /\ kills = 0
  BY FS_EmptySet DEF Init
<1> QED
  BY <1>1, <1>2 DEF TornInv

LEMMA InvLosesNothing ==
  ASSUME Inv, TornInv
  PROVE  NoLostChange
<1>1. ASSUME NEW s \in Streams
      PROVE  Cardinality(Astray(position) \cap RowsOf(s))
               <= IF Format = "ndjson" THEN kills ELSE 0
  <2>1. Astray(position) \cap RowsOf(s) \subseteq Swallowed(s)
    BY DEF Inv, DurableInv, Settled, Kept, Astray, Swallowed
  <2>2. /\ IsFiniteSet(Swallowed(s)) /\ Cardinality(Swallowed(s)) + Torn(s) <= kills
        /\ Torn(s) \in {0, 1} /\ kills \in Int
    BY DEF TornInv, Torn, Inv, TypeOK
  <2>3. /\ Cardinality(Astray(position) \cap RowsOf(s)) <= Cardinality(Swallowed(s))
        /\ Cardinality(Astray(position) \cap RowsOf(s)) \in Nat
        /\ Cardinality(Swallowed(s)) \in Nat
    BY <2>1, <2>2, FS_Subset, FS_CardinalityType
  <2>4. CASE Format = "parquet"
    <3>1. Swallowed(s) = {} /\ Cardinality({}) = 0
      BY <2>4, FS_EmptySet DEF TornInv
    <3> QED
      BY <2>3, <2>4, <3>1
  <2>5. CASE Format = "ndjson"
    BY <2>2, <2>3, <2>5
  <2> QED
    BY <2>4, <2>5, CdcAssumption DEF CdcAssumption
<1> QED
  BY <1>1 DEF NoLostChange, OneRowPerKill

LEMMA LosslessLosesNothing ==
  ASSUME Lossless PROVE Spec => []NoLostChange
<1>1. Init => Inv /\ TornInv
  BY InitInv, InitTornInv
<1>2. Inv /\ TornInv /\ [Next]_vars => (Inv /\ TornInv)'
  BY Lossless, NextInv, NextTornInv DEF Inv
<1>3. Inv /\ TornInv => NoLostChange
  BY InvLosesNothing
<1> QED
  BY <1>1, <1>2, <1>3, PTL DEF Spec

(***************************************************************************)
(* With a binlog, whatever the tables and rows, the writes among them that *)
(* the log tells in part, the destination's format, whether streams join   *)
(* or leave (only not both), and however often and wherever runs fail or   *)
(* are killed, a row of a backfilled stream differs from the source only   *)
(* if the saved position has a change of it still to replay, if its last   *)
(* change is not told in full, or, with NDJSON, for one row of a stream    *)
(* and killed run, whose record was appended to a torn line.               *)
(***************************************************************************)
THEOREM BinlogLosesNothing ==
  ASSUME Binlog, ~(MayJoin /\ MayLeave) PROVE Spec => []NoLostChange
BY LosslessLosesNothing, Binlog DEF Lossless

(***************************************************************************)
(* With a slot that was told of changes before they were flushed, whatever *)
(* the tables and rows, the writes that the log tells in part, the format, *)
(* whichever streams leave and however often runs return an error, a row   *)
(* of a backfilled stream differs only if a change of it is still to be    *)
(* replayed or its last one (a truncation, a key's old value, an unchanged *)
(* TOASTed column) is not told in full: Close flushes what the slot will   *)
(* not send again.  Without any one of the conditions a told change is     *)
(* lost: a killed run does not close its writers, a late stream is not     *)
(* published, and a wide message pushes the position past the next change. *)
(***************************************************************************)
THEOREM SlotLosesNothing ==
  ASSUME Slot, ~MayJoin, ~MayKill, MaxWidth = 1 PROVE Spec => []NoLostChange
<1>1. Lossless
  BY Slot DEF Lossless, Slot, Binlog
<1> QED
  BY <1>1, LosslessLosesNothing
=============================================================================
