------------------------- MODULE IncrementalProofs -------------------------
(***************************************************************************)
(* Proofs about Incremental, for any rows and bounds and either format:    *)
(* types, what torn lines cost and the write-ahead contract whatever the   *)
(* order of commits; no gap below the watermark, but for those torn lines, *)
(* when every commit is above all commits before it.  The model checker    *)
(* shows that equal cursors and late commits each leave a gap.             *)
(***************************************************************************)
EXTENDS Incremental, FiniteSetTheorems, TLAPS

Strict == CommitOrder = "strict"

-----------------------------------------------------------------------------
(* The inductive invariant, in named parts.                                *)

\* Versions that have a record, readable or swallowed.
Kept == stored \cup swallowed

\* An open transaction leaves room for its own write below the bound.
RoomInv == \A r \in Rows : pending[r] # NoCursor => ver[r] < MaxWrites

\* Each swallowed version was paid for by a stop of its own.
Torn == IF tail = "torn" THEN 1 ELSE 0
TornInv == /\ IsFiniteSet(swallowed)
           /\ Cardinality(swallowed) + Torn <= stops
           /\ Format = "parquet" => tail = "whole" /\ swallowed = {}

\* How far the run has read, and where the rows it read are.
ReadInv ==
  /\ pc = "read" =>
       /\ \A r \in unread : viewCur[r] > watermark /\ newCursor <= viewCur[r]
       /\ newCursor = watermark \/ newCursor > watermark
       /\ \A r \in Rows \ unread :
            /\ viewCur[r] <= newCursor
            /\ viewCur[r] > watermark => <<r, viewVer[r]>> \in buf \cup swallowed
  /\ pc = "flushed" =>
       /\ newCursor > watermark
       /\ \A r \in Rows : /\ viewCur[r] <= newCursor
                          /\ viewCur[r] > watermark => <<r, viewVer[r]>> \in Kept

\* The snapshot is no newer than the table.
ViewInv == pc \in {"read", "flushed"} =>
             \A r \in Rows : \/ viewVer[r] < ver[r]
                             \/ (viewVer[r] = ver[r] /\ viewCur[r] = cur[r])

\* A claimed version is kept, and no later run reads it again.
Past(v, version, cursor) == v < version \/ (v = version /\ cursor <= watermark)
ClaimInv ==
  /\ claimed \subseteq Kept
  /\ watermark = NoCursor => claimed = {}
  /\ \A r \in Rows, v \in 0..MaxWrites : <<r, v>> \in claimed =>
       /\ Past(v, ver[r], cur[r])
       /\ pc \in {"read", "flushed"} => Past(v, viewVer[r], viewCur[r])

\* Nothing can be committed below the watermark, nor below what was read.
OrderInv ==
  /\ watermark = NoCursor \/ \E q \in Rows : watermark <= cur[q]
  /\ pc \in {"read", "flushed"} =>
       \A r \in Rows : \/ cur[r] = viewCur[r] /\ ver[r] = viewVer[r]
                       \/ \A q \in Rows : viewCur[q] < cur[r]
  /\ pc \in {"read", "flushed"} =>
       newCursor = watermark \/ \E q \in Rows : viewCur[q] = newCursor

\* What a watermark covers is kept.
Covered == \A r \in Rows : cur[r] # NoCursor /\ cur[r] <= watermark
                              => <<r, ver[r]>> \in Kept

AheadInv == TypeOK /\ RoomInv /\ TornInv /\ ReadInv /\ ViewInv /\ ClaimInv
GapInv   == AheadInv /\ OrderInv /\ Covered

-----------------------------------------------------------------------------
(* Type correctness.                                                       *)

LEMMA InitTypeOK == Init => TypeOK
BY IncrementalAssumption DEF IncrementalAssumption, Init, TypeOK, Cursors, NoCursor

LEMMA NextTypeOK == TypeOK /\ RoomInv /\ [Next]_vars => TypeOK'
<1> SUFFICES ASSUME TypeOK, RoomInv, [Next]_vars PROVE TypeOK'
  OBVIOUS
<1> USE IncrementalAssumption DEF IncrementalAssumption, Cursors, NoCursor
<1>1. ASSUME Tick PROVE TypeOK'
  BY <1>1 DEF Tick, TypeOK, query, dest
<1>2. ASSUME NEW r \in Rows, Begin(r) PROVE TypeOK'
  BY <1>2 DEF Begin, TypeOK, query, dest
<1>3. ASSUME NEW r \in Rows, Commit(r) PROVE TypeOK'
  <2>1. pending[r] \in Cursors /\ ver[r] + 1 \in 0..MaxWrites
    BY <1>3 DEF Commit, TypeOK, RoomInv
  <2> QED
    BY <1>3, <2>1 DEF Commit, TypeOK, query, dest
<1>4. ASSUME NEW r \in Rows, Abort(r) PROVE TypeOK'
  BY <1>4 DEF Abort, TypeOK, query, dest
<1>5. ASSUME Open PROVE TypeOK'
  BY <1>5 DEF Open, TypeOK, source, query, dest
<1>6. ASSUME Query PROVE TypeOK'
  BY <1>6 DEF Query, TypeOK, source, dest
<1>7. ASSUME NEW r \in Rows, ReadRow(r) PROVE TypeOK'
  <2>1. <<r, viewVer[r]>> \in Versions
    BY DEF TypeOK, Versions
  <2> QED
    BY <1>7, <2>1 DEF ReadRow, TypeOK, source
<1>8. ASSUME Flush PROVE TypeOK'
  BY <1>8 DEF Flush, FlushWriter, TypeOK, source, query
<1>9. ASSUME SaveCursor PROVE TypeOK'
  <2>1. {<<r, viewVer[r]>> : r \in {q \in Rows : viewCur[q] > watermark}} \subseteq Versions
    BY DEF TypeOK, Versions
  <2> QED
    BY <1>9, <2>1 DEF SaveCursor, TypeOK, source, query, dest
<1>10. ASSUME Finish PROVE TypeOK'
  BY <1>10 DEF Finish, FlushWriter, TypeOK, source, query
<1>11. ASSUME Stop PROVE TypeOK'
  BY <1>11 DEF Stop, TypeOK, source, query
<1>12. ASSUME UNCHANGED vars PROVE TypeOK'
  BY <1>12 DEF vars, source, query, dest, TypeOK
<1> QED
  BY <1>1, <1>2, <1>3, <1>4, <1>5, <1>6, <1>7, <1>8, <1>9, <1>10, <1>11,
     <1>12 DEF Next, Clients, Run

LEMMA NextRoomInv == TypeOK /\ RoomInv /\ [Next]_vars => RoomInv'
<1> SUFFICES ASSUME TypeOK, RoomInv, [Next]_vars PROVE RoomInv'
  OBVIOUS
<1>1. ASSUME NEW r \in Rows, Begin(r) PROVE RoomInv'
  BY <1>1 DEF Begin, TypeOK, RoomInv
<1>2. ASSUME NEW r \in Rows, Commit(r) \/ Abort(r) PROVE RoomInv'
  BY <1>2 DEF Commit, Abort, TypeOK, RoomInv
<1>3. ASSUME UNCHANGED <<pending, ver>> PROVE RoomInv'
  BY <1>3 DEF RoomInv
<1>4. Tick \/ Run \/ Stop \/ UNCHANGED vars => UNCHANGED <<pending, ver>>
  BY DEF Tick, Run, Open, Query, ReadRow, Flush, SaveCursor, Finish, Stop, vars, source
<1> QED
  BY <1>1, <1>2, <1>3, <1>4 DEF Next, Clients

LEMMA InitTypes == Init => TypeOK /\ RoomInv
BY InitTypeOK DEF Init, RoomInv

(***************************************************************************)
(* Every reachable state of an incremental sync is well typed, whatever    *)
(* the order in which the source's transactions commit.                    *)
(***************************************************************************)
THEOREM TypeCorrect == Spec => []TypeOK
<1>1. TypeOK /\ RoomInv /\ [Next]_vars => TypeOK' /\ RoomInv'
  BY NextTypeOK, NextRoomInv
<1> QED
  BY <1>1, InitTypes, PTL DEF Spec

-----------------------------------------------------------------------------
(* What torn lines cost.                                                   *)

LEMMA NextTornInv ==
  ASSUME TypeOK, TornInv, [Next]_vars
  PROVE  TornInv'
<1> USE DEF TornInv, Torn
<1>0. stops \in Int /\ Cardinality(swallowed) \in Nat
  BY FS_CardinalityType, IncrementalAssumption DEF IncrementalAssumption, TypeOK
<1>1. ASSUME UNCHANGED <<tail, swallowed, stops>> PROVE TornInv'
  BY <1>1
<1>2. ASSUME FlushWriter, stops' = stops PROVE TornInv'
  BY <1>2 DEF FlushWriter
<1>3. ASSUME Clients \/ Query \/ SaveCursor \/ UNCHANGED vars PROVE TornInv'
  BY <1>1, <1>3 DEF Clients, Tick, Begin, Commit, Abort, Query, SaveCursor, vars, dest
<1>4. ASSUME Flush \/ Finish PROVE TornInv'
  BY <1>2, <1>4 DEF Flush, Finish
<1>5. ASSUME Open PROVE TornInv'
  <2>1. CASE watermark = NoCursor
    <3>1. tail' = "whole" /\ swallowed' = {} /\ stops' = stops
      BY <1>5, <2>1 DEF Open
    <3>2. stops >= 0
      BY <1>0
    <3> QED
      BY <1>0, <3>1, <3>2, FS_EmptySet
  <2>2. CASE watermark # NoCursor
    BY <1>1, <1>5, <2>2 DEF Open, dest
  <2> QED
    BY <2>1, <2>2
<1>6. ASSUME NEW r \in Rows, ReadRow(r) PROVE TornInv'
  <2>1. CASE tail = "torn"
    <3>1. /\ tail' = "glued" /\ swallowed' = swallowed \cup {<<r, viewVer[r]>>}
          /\ stops' = stops
      BY <1>6, <2>1 DEF ReadRow
    <3>2. /\ IsFiniteSet(swallowed')
          /\ Cardinality(swallowed') <= Cardinality(swallowed) + 1
          /\ Cardinality(swallowed') \in Nat
      <4>1. /\ IsFiniteSet(swallowed \cup {<<r, viewVer[r]>>})
            /\ \/ Cardinality(swallowed \cup {<<r, viewVer[r]>>}) = Cardinality(swallowed)
               \/ Cardinality(swallowed \cup {<<r, viewVer[r]>>}) = Cardinality(swallowed) + 1
        BY FS_AddElement
      <4> QED
        BY <1>0, <3>1, <4>1
    <3> QED
      BY <1>0, <2>1, <3>1, <3>2
  <2>2. CASE tail # "torn"
    BY <1>1, <1>6, <2>2 DEF ReadRow
  <2> QED
    BY <2>1, <2>2
<1>7. ASSUME Stop PROVE TornInv'
  BY <1>0, <1>7 DEF Stop, ParquetRemains
<1> QED
  BY <1>3, <1>4, <1>5, <1>6, <1>7 DEF Next, Run

LEMMA InitTornInv == Init => TornInv
BY FS_EmptySet DEF Init, TornInv, Torn

(***************************************************************************)
(* Whatever the order of commits and of interruptions, no more row         *)
(* versions lose their line to a torn one than runs were interrupted, and  *)
(* with Parquet none does: NDJSON's Open appends to whatever the file ends *)
(* in.                                                                     *)
(***************************************************************************)
THEOREM TornLinesAreFew ==
  Spec => [](Cardinality(swallowed) <= IF Format = "ndjson" THEN stops ELSE 0)
<1>1. TypeOK /\ RoomInv /\ TornInv /\ [Next]_vars => TypeOK' /\ RoomInv' /\ TornInv'
  BY NextTypeOK, NextRoomInv, NextTornInv
<1>2. TypeOK /\ TornInv => Cardinality(swallowed) <= IF Format = "ndjson" THEN stops ELSE 0
  BY FS_EmptySet, FS_CardinalityType, IncrementalAssumption
     DEF IncrementalAssumption, TypeOK, TornInv, Torn
<1> QED
  BY <1>1, <1>2, InitTypes, InitTornInv, PTL DEF Spec

-----------------------------------------------------------------------------
(* Durability ahead of the watermark, and the write-ahead contract.        *)

LEMMA InitAheadInv == Init => AheadInv
BY InitTypes, InitTornInv DEF Init, AheadInv, ReadInv, ViewInv, ClaimInv

LEMMA NextReadInv ==
  ASSUME TypeOK, ReadInv, [Next]_vars
  PROVE  ReadInv'
<1> USE DEF ReadInv, Kept
<1>1. ASSUME Clients PROVE ReadInv'
  <2>1. UNCHANGED <<pc, watermark, dest, query, buf>>
    BY <1>1 DEF Clients, Tick, Begin, Commit, Abort
  <2> QED
    BY <2>1 DEF query, dest
<1>2. ASSUME Open PROVE ReadInv'
  BY <1>2 DEF Open
<1>3. ASSUME Query PROVE ReadInv'
  BY <1>3 DEF Query, TypeOK, Cursors
<1>4. ASSUME NEW r \in Rows, ReadRow(r) PROVE ReadInv'
  <2>1. /\ pc = "read" /\ r \in unread /\ unread' = unread \ {r}
        /\ newCursor' = viewCur[r]
        /\ \A q \in unread : viewCur[r] <= viewCur[q]
        /\ buf \cup swallowed \cup {<<r, viewVer[r]>>} \subseteq buf' \cup swallowed'
        /\ UNCHANGED <<pc, watermark, viewCur, viewVer>>
    BY <1>4 DEF ReadRow
  <2>2. newCursor' > watermark'
    BY <2>1
  <2>3. \A q \in unread' : viewCur'[q] > watermark' /\ newCursor' <= viewCur'[q]
    BY <2>1
  <2>4. ASSUME NEW q \in Rows \ unread'
        PROVE  /\ viewCur'[q] <= newCursor'
               /\ viewCur'[q] > watermark' => <<q, viewVer'[q]>> \in buf' \cup swallowed'
    <3>1. CASE q = r
      BY <2>1, <3>1 DEF TypeOK, Cursors
    <3>2. CASE q # r
      <4>1. viewCur[q] <= newCursor /\ newCursor <= viewCur[r]
        BY <2>1, <3>2
      <4> QED
        BY <2>1, <3>2, <4>1 DEF TypeOK, Cursors
    <3> QED
      BY <3>1, <3>2
  <2> QED
    BY <2>1, <2>2, <2>3, <2>4
<1>5. ASSUME Flush PROVE ReadInv'
  <2>1. newCursor' > watermark'
    BY <1>5 DEF Flush, query, TypeOK, Cursors
  <2> QED
    BY <1>5, <2>1 DEF Flush, FlushWriter, query
<1>6. ASSUME SaveCursor PROVE ReadInv'
  BY <1>6 DEF SaveCursor
<1>7. ASSUME Finish PROVE ReadInv'
  BY <1>7 DEF Finish
<1>8. ASSUME Stop PROVE ReadInv'
  BY <1>8 DEF Stop
<1>9. ASSUME UNCHANGED vars PROVE ReadInv'
  BY <1>9 DEF vars, query, dest
<1> QED
  BY <1>1, <1>2, <1>3, <1>4, <1>5, <1>6, <1>7, <1>8, <1>9 DEF Next, Run

LEMMA NextViewInv ==
  ASSUME TypeOK, ViewInv, [Next]_vars
  PROVE  ViewInv'
<1> USE DEF ViewInv
<1>1. ASSUME NEW r \in Rows, Commit(r) PROVE ViewInv'
  BY <1>1 DEF Commit, TypeOK, query
<1>2. ASSUME Tick \/ \E r \in Rows : Begin(r) \/ Abort(r) PROVE ViewInv'
  BY <1>2 DEF Tick, Begin, Abort, query
<1>3. ASSUME Query PROVE ViewInv'
  BY <1>3 DEF Query, source
<1>4. ASSUME (\E r \in Rows : ReadRow(r)) \/ Flush PROVE ViewInv'
  BY <1>4 DEF ReadRow, Flush, source, query
<1>5. ASSUME Open \/ SaveCursor \/ Finish \/ Stop PROVE ViewInv'
  BY <1>5 DEF Open, SaveCursor, Finish, Stop
<1>6. ASSUME UNCHANGED vars PROVE ViewInv'
  BY <1>6 DEF vars, source, query
<1> QED
  BY <1>1, <1>2, <1>3, <1>4, <1>5, <1>6 DEF Next, Clients, Run

\* Nothing is claimed, and no version loses its record.
LEMMA KeptClaimInv ==
  ASSUME TypeOK, ClaimInv, Kept \subseteq Kept', UNCHANGED <<watermark, claimed>>,
         UNCHANGED <<cur, ver>>, pc' \in {"read", "flushed"} => pc \in {"read", "flushed"},
         UNCHANGED <<viewCur, viewVer>>
  PROVE  ClaimInv'
<1>1. claimed' \subseteq Kept' /\ (watermark' = NoCursor => claimed' = {})
  BY DEF ClaimInv
<1>2. ASSUME NEW r \in Rows, NEW v \in 0..MaxWrites, <<r, v>> \in claimed'
      PROVE  /\ Past(v, ver[r], cur[r])'
             /\ pc' \in {"read", "flushed"} => Past(v, viewVer[r], viewCur[r])'
  BY <1>2 DEF ClaimInv, Past
<1> QED
  BY <1>1, <1>2 DEF ClaimInv

LEMMA CommitClaimInv ==
  ASSUME TypeOK, ClaimInv, NEW r \in Rows, Commit(r)
  PROVE  ClaimInv'
<1>1. /\ UNCHANGED <<watermark, stored, swallowed, claimed, pc, viewCur, viewVer>>
      /\ ver'[r] = ver[r] + 1
      /\ \A q \in Rows \ {r} : cur'[q] = cur[q] /\ ver'[q] = ver[q]
  BY DEF Commit, dest, query, TypeOK
<1>2. ASSUME NEW q \in Rows, NEW v \in 0..MaxWrites, <<q, v>> \in claimed'
      PROVE  Past(v, ver[q], cur[q])'
  <2>1. CASE q = r
    BY <1>1, <1>2, <2>1 DEF ClaimInv, Past, TypeOK
  <2>2. CASE q # r
    BY <1>1, <1>2, <2>2 DEF ClaimInv, Past
  <2> QED
    BY <2>1, <2>2
<1>3. ASSUME NEW q \in Rows, NEW v \in 0..MaxWrites, <<q, v>> \in claimed',
             pc' \in {"read", "flushed"}
      PROVE  Past(v, viewVer[q], viewCur[q])'
  BY <1>1, <1>3 DEF ClaimInv, Past
<1> QED
  BY <1>1, <1>2, <1>3 DEF ClaimInv, Kept

\* The versions of the snapshot are at or below the new watermark.
LEMMA SaveClaimInv ==
  ASSUME TypeOK, ReadInv, ViewInv, ClaimInv, SaveCursor
  PROVE  ClaimInv'
<1>1. /\ pc = "flushed" /\ pc' = "saved" /\ watermark' = newCursor
      /\ claimed' = claimed \cup {<<r, viewVer[r]>> : r \in {q \in Rows : viewCur[q] > watermark}}
      /\ UNCHANGED <<stored, swallowed, cur, ver>>
  BY DEF SaveCursor, source, dest
<1>2. newCursor > watermark /\ watermark' # NoCursor
  BY <1>1 DEF ReadInv, TypeOK, Cursors, NoCursor
<1>0. \A r \in Rows : /\ viewCur[r] <= newCursor
                      /\ viewCur[r] > watermark => <<r, viewVer[r]>> \in Kept
  BY <1>1, Zenon DEF ReadInv
<1>3. claimed' \subseteq Kept'
  <2>1. claimed \subseteq Kept /\ Kept' = Kept
    BY <1>1 DEF ClaimInv, Kept
  <2> QED
    BY <1>0, <1>1, <2>1
<1>4. ASSUME NEW r \in Rows, NEW v \in 0..MaxWrites, <<r, v>> \in claimed'
      PROVE  Past(v, ver[r], cur[r])'
  <2>1. CASE <<r, v>> \in claimed
    <3>1. v < ver[r] \/ (v = ver[r] /\ cur[r] <= watermark)
      BY <2>1 DEF ClaimInv, Past
    <3> QED
      BY <1>1, <1>2, <3>1 DEF Past, TypeOK, Cursors
  <2>2. CASE v = viewVer[r]
    BY <1>0, <1>1, <2>2 DEF ViewInv, Past
  <2> QED
    BY <1>1, <1>4, <2>1, <2>2
<1> QED
  BY <1>1, <1>2, <1>3, <1>4 DEF ClaimInv

LEMMA NextClaimInv ==
  ASSUME TypeOK, ReadInv, ViewInv, ClaimInv, [Next]_vars
  PROVE  ClaimInv'
<1>1. ASSUME NEW r \in Rows, Commit(r) PROVE ClaimInv'
  BY <1>1, CommitClaimInv
<1>2. ASSUME Tick \/ (\E r \in Rows : Begin(r) \/ Abort(r)) \/ UNCHANGED vars PROVE ClaimInv'
  BY <1>2, KeptClaimInv DEF Tick, Begin, Abort, Kept, dest, query, vars, source
<1>3. ASSUME Open PROVE ClaimInv'
  <2>1. CASE watermark = NoCursor
    BY <1>3, <2>1 DEF Open, ClaimInv
  <2>2. CASE watermark # NoCursor
    BY <1>3, <2>2, KeptClaimInv DEF Open, Kept, dest, query, source
  <2> QED
    BY <2>1, <2>2
<1>4. ASSUME Query PROVE ClaimInv'
  BY <1>4 DEF Query, ClaimInv, Past, Kept, dest, source
<1>5. ASSUME (\E r \in Rows : ReadRow(r)) \/ Flush \/ Finish \/ Stop PROVE ClaimInv'
  <2>1. Kept \subseteq Kept'
    BY <1>5 DEF ReadRow, Flush, Finish, FlushWriter, Stop, Kept
  <2> QED
    BY <1>5, <2>1, KeptClaimInv DEF ReadRow, Flush, Finish, Stop, query, source
<1>6. ASSUME SaveCursor PROVE ClaimInv'
  BY <1>6, SaveClaimInv
<1> QED
  BY <1>1, <1>2, <1>3, <1>4, <1>5, <1>6 DEF Next, Clients, Run

LEMMA AheadInvInvariant == Spec => []AheadInv
<1>1. AheadInv /\ [Next]_vars => AheadInv'
  BY NextTypeOK, NextRoomInv, NextTornInv, NextReadInv, NextViewInv, NextClaimInv DEF AheadInv
<1> QED
  BY <1>1, InitAheadInv, PTL DEF Spec

LEMMA StepRefinesWriteAhead ==
  ASSUME AheadInv, AheadInv', [Next]_vars
  PROVE  [WA!Next]_(WA!vars)
<1> DEFINE Readable == claimed \ swallowed
           Goal == WA!Store \/ WA!Discard \/ WA!Claim \/ UNCHANGED <<stored, Readable>>
<1> USE DEF AheadInv
<1>1. ASSUME Clients \/ Query \/ UNCHANGED vars PROVE Goal
  BY <1>1 DEF Clients, Tick, Begin, Commit, Abort, Query, vars, dest
<1>2. ASSUME Open PROVE Goal
  <2>1. CASE watermark = NoCursor
    <3>1. claimed = {} /\ stored' = {} /\ claimed' = {}
      BY <1>2, <2>1 DEF Open, ClaimInv
    <3> QED
      BY <3>1 DEF WA!Discard
  <2>2. CASE watermark # NoCursor
    BY <1>2, <2>2 DEF Open, dest
  <2> QED
    BY <2>1, <2>2
<1>3. ASSUME NEW r \in Rows, ReadRow(r) PROVE Goal
  <2>1. <<r, viewVer[r]>> \notin claimed
    BY <1>3 DEF ReadRow, ReadInv, ClaimInv, Past, TypeOK, Cursors
  <2> QED
    BY <1>3, <2>1 DEF ReadRow
<1>4. ASSUME Flush \/ Finish PROVE Goal
  BY <1>4 DEF Flush, Finish, FlushWriter, WA!Store, TypeOK
<1>5. ASSUME SaveCursor PROVE Goal
  BY <1>5 DEF SaveCursor, dest, ReadInv, ClaimInv, Kept, WA!Claim
<1>6. ASSUME Stop PROVE Goal
  BY <1>6 DEF Stop, WA!Store, TypeOK
<1> QED
  BY <1>1, <1>2, <1>3, <1>4, <1>5, <1>6 DEF Next, Run, WA!Next, WA!vars

(***************************************************************************)
(* Whatever the order of commits, a watermark is saved only over row       *)
(* versions the run read that are durable, and none of those is discarded: *)
(* runIncremental flushes before it calls SetCursor.  The versions whose   *)
(* own line a torn one swallowed are excepted, which TornLinesAreFew       *)
(* counts; with Parquet there are none.                                    *)
(***************************************************************************)
THEOREM IncrementalWriteAhead == Spec => ImplementsWriteAhead
<1>1. Init => WA!Init
  BY DEF Init, WA!Init
<1>2. AheadInv /\ AheadInv' /\ [Next]_vars => [WA!Next]_(WA!vars)
  BY StepRefinesWriteAhead
<1> QED
  BY <1>1, <1>2, AheadInvInvariant, PTL DEF Spec, ImplementsWriteAhead, WA!Spec

-----------------------------------------------------------------------------
(* No gap, when every commit is above all commits before it.               *)

LEMMA InitGapInv == Init => GapInv
<1> SUFFICES ASSUME Init PROVE GapInv
  OBVIOUS
<1>1. OrderInv /\ Covered
  BY DEF Init, OrderInv, Covered
<1> QED
  BY <1>1, InitAheadInv DEF GapInv

\* A row committed now is above the watermark and above the snapshot.
LEMMA StrictCommit ==
  ASSUME Strict, TypeOK, OrderInv, NEW r \in Rows, Commit(r)
  PROVE  /\ watermark < cur'[r]
         /\ pc \in {"read", "flushed"} => \A q \in Rows : viewCur[q] < cur'[r]
<1> USE DEF Strict, TypeOK, Cursors, NoCursor
<1>1. /\ cur'[r] = pending[r]
      /\ \A q \in Rows : cur[q] < pending[r]
      /\ pending[r] > 0
  BY DEF Commit
<1>2. watermark < cur'[r]
  BY <1>1 DEF OrderInv
<1>3. ASSUME pc \in {"read", "flushed"}, NEW q \in Rows PROVE viewCur[q] < cur'[r]
  <2>1. CASE cur[q] = viewCur[q]
    BY <1>1, <2>1
  <2>2. CASE \A s \in Rows : viewCur[s] < cur[q]
    <3>1. viewCur[q] < cur[q] /\ cur[q] < pending[r]
      BY <1>1, <2>2
    <3> QED
      BY <3>1, <1>1
  <2> QED
    BY <1>3, <2>1, <2>2 DEF OrderInv
<1> QED
  BY <1>2, <1>3

LEMMA CommitGapInv ==
  ASSUME Strict, TypeOK, OrderInv, Covered, NEW r \in Rows, Commit(r)
  PROVE  OrderInv' /\ Covered'
<1>1. /\ cur' = [cur EXCEPT ![r] = pending[r]]
      /\ ver' = [ver EXCEPT ![r] = ver[r] + 1]
      /\ UNCHANGED <<watermark, stored, swallowed, pc, viewCur, viewVer, newCursor>>
      /\ cur'[r] = pending[r]
      /\ \A q \in Rows \ {r} : cur'[q] = cur[q] /\ ver'[q] = ver[q]
      /\ \A q \in Rows : cur[q] < pending[r]
  BY DEF Commit, query, dest, Strict, TypeOK
<1>2. /\ watermark < cur'[r]
      /\ pc \in {"read", "flushed"} => \A q \in Rows : viewCur[q] < cur'[r]
  BY StrictCommit
<1>3. watermark' = NoCursor \/ \E q \in Rows : watermark' <= cur'[q]
  BY <1>1, <1>2 DEF TypeOK, Cursors
<1>4. pc' \in {"read", "flushed"} =>
        \A q \in Rows : \/ cur'[q] = viewCur'[q] /\ ver'[q] = viewVer'[q]
                        \/ \A s \in Rows : viewCur'[s] < cur'[q]
  BY <1>1, <1>2 DEF OrderInv
<1>5. pc' \in {"read", "flushed"} =>
        newCursor' = watermark' \/ \E q \in Rows : viewCur'[q] = newCursor'
  BY <1>1 DEF OrderInv
<1>6. Covered'
  <2> SUFFICES ASSUME NEW q \in Rows, cur'[q] # NoCursor, cur'[q] <= watermark'
               PROVE  <<q, ver'[q]>> \in Kept'
    BY DEF Covered
  <2>1. q # r
    BY <1>1, <1>2 DEF TypeOK, Cursors
  <2> QED
    BY <1>1, <2>1 DEF Covered, Kept
<1> QED
  BY <1>3, <1>4, <1>5, <1>6 DEF OrderInv

\* The rows at or below the new watermark were in the snapshot, or were at
\* or below the old one.
LEMMA SaveCovered ==
  ASSUME TypeOK, ReadInv, OrderInv, Covered, SaveCursor
  PROVE  Covered'
<1>1. /\ pc = "flushed" /\ watermark' = newCursor
      /\ UNCHANGED <<cur, ver, stored, swallowed>>
  BY DEF SaveCursor, source, dest
<1> SUFFICES ASSUME NEW r \in Rows, cur[r] # NoCursor, cur[r] <= newCursor
             PROVE  <<r, ver[r]>> \in Kept
  BY <1>1 DEF Covered, Kept
<1>2. newCursor > watermark
  BY <1>1 DEF ReadInv
<1>3. PICK q \in Rows : viewCur[q] = newCursor
  BY <1>1, <1>2 DEF OrderInv, TypeOK, Cursors
<1>4. ~(viewCur[q] < cur[r])
  BY <1>3 DEF TypeOK, Cursors
<1>5. cur[r] = viewCur[r] /\ ver[r] = viewVer[r]
  BY <1>1, <1>4 DEF OrderInv
<1>6. CASE viewCur[r] > watermark
  BY <1>1, <1>5, <1>6 DEF ReadInv
<1>7. CASE ~(viewCur[r] > watermark)
  <2>1. cur[r] <= watermark
    BY <1>5, <1>7 DEF TypeOK, Cursors
  <2> QED
    BY <2>1 DEF Covered
<1> QED
  BY <1>6, <1>7

LEMMA SaveOrderInv ==
  ASSUME TypeOK, ReadInv, OrderInv, SaveCursor
  PROVE  OrderInv'
<1>1. /\ pc = "flushed" /\ pc' = "saved" /\ watermark' = newCursor
      /\ UNCHANGED <<cur, ver>>
  BY DEF SaveCursor, source
<1>2. newCursor > watermark
  BY <1>1 DEF ReadInv
<1>3. PICK q \in Rows : viewCur[q] = newCursor
  BY <1>1, <1>2 DEF OrderInv, TypeOK, Cursors
<1>4. cur[q] = viewCur[q] \/ viewCur[q] < cur[q]
  BY <1>1 DEF OrderInv
<1>5. newCursor <= cur[q]
  BY <1>3, <1>4 DEF TypeOK, Cursors
<1> QED
  BY <1>1, <1>5 DEF OrderInv

LEMMA NextGap ==
  ASSUME Strict, GapInv, [Next]_vars
  PROVE  OrderInv' /\ Covered'
<1> DEFINE Goal == OrderInv' /\ Covered'
<1>0. TypeOK /\ ReadInv /\ ClaimInv /\ OrderInv /\ Covered
  BY DEF GapInv, AheadInv
<1>1. ASSUME Tick PROVE Goal
  BY <1>0, <1>1 DEF Tick, query, dest, Kept, OrderInv, Covered
<1>2. ASSUME NEW r \in Rows, Begin(r) PROVE Goal
  BY <1>0, <1>2 DEF Begin, query, dest, Kept, OrderInv, Covered
<1>3. ASSUME NEW r \in Rows, Commit(r) PROVE Goal
  BY <1>0, <1>3, CommitGapInv
<1>4. ASSUME NEW r \in Rows, Abort(r) PROVE Goal
  BY <1>0, <1>4 DEF Abort, query, dest, Kept, OrderInv, Covered
<1>5. ASSUME Open PROVE Goal
  <2>1. OrderInv'
    BY <1>0, <1>5 DEF Open, source, query, OrderInv
  <2>2. UNCHANGED <<cur, ver, watermark>>
    BY <1>5 DEF Open, source
  <2>3. CASE watermark = NoCursor
    <3>1. \A r \in Rows : cur[r] # NoCursor => ~(cur[r] <= watermark)
      BY <1>0, <2>3 DEF NoCursor, TypeOK, Cursors
    <3> QED
      BY <2>1, <2>2, <3>1 DEF Covered
  <2>4. CASE watermark # NoCursor
    <3>1. Kept' = Kept
      BY <1>5, <2>4 DEF Open, dest, Kept
    <3> QED
      BY <1>0, <2>1, <2>2, <3>1 DEF Covered
  <2> QED
    BY <2>3, <2>4
<1>6. ASSUME Query PROVE Goal
  BY <1>0, <1>6 DEF Query, source, dest, Kept, OrderInv, Covered
<1>7. ASSUME NEW r \in Rows, ReadRow(r) PROVE Goal
  BY <1>0, <1>7 DEF ReadRow, source, Kept, OrderInv, Covered
<1>8. ASSUME Flush PROVE Goal
  BY <1>0, <1>8 DEF Flush, FlushWriter, source, query, Kept, OrderInv, Covered
<1>9. ASSUME SaveCursor PROVE Goal
  BY <1>0, <1>9, SaveCovered, SaveOrderInv
<1>10. ASSUME Finish PROVE Goal
  BY <1>0, <1>10 DEF Finish, FlushWriter, source, query, Kept, OrderInv, Covered
<1>11. ASSUME Stop PROVE Goal
  BY <1>0, <1>11 DEF Stop, source, query, Kept, OrderInv, Covered
<1>12. ASSUME UNCHANGED vars PROVE Goal
  BY <1>0, <1>12 DEF vars, source, query, dest, Kept, OrderInv, Covered
<1> QED
  BY <1>1, <1>2, <1>3, <1>4, <1>5, <1>6, <1>7, <1>8, <1>9, <1>10, <1>11,
     <1>12 DEF Next, Clients, Run

\* The missing versions below the watermark are swallowed ones.
LEMMA GapIsSwallowed == GapInv => NoGap
<1> SUFFICES ASSUME GapInv PROVE NoGap
  OBVIOUS
<1>1. Missing(watermark) \subseteq swallowed
  BY DEF GapInv, Covered, Kept, Missing
<1>2. /\ IsFiniteSet(Missing(watermark))
      /\ Cardinality(Missing(watermark)) <= Cardinality(swallowed)
      /\ Cardinality(Missing(watermark)) \in Nat /\ Cardinality(swallowed) \in Nat
  BY <1>1, FS_Subset, FS_CardinalityType DEF GapInv, AheadInv, TornInv
<1>3. CASE Format = "ndjson"
  <2>1. Cardinality(swallowed) <= stops /\ stops \in Int
    BY <1>2, IncrementalAssumption
       DEF IncrementalAssumption, GapInv, AheadInv, TornInv, Torn, TypeOK
  <2> QED
    BY <1>2, <1>3, <2>1 DEF NoGap, OneRowPerStop
<1>4. CASE Format = "parquet"
  BY <1>2, <1>4, FS_EmptySet DEF NoGap, OneRowPerStop, GapInv, AheadInv, TornInv
<1> QED
  BY <1>3, <1>4, IncrementalAssumption DEF IncrementalAssumption

(***************************************************************************)
(* When each commit's cursor is above all commits before it, the watermark *)
(* of runIncremental leaves no gap: every row at or below it is in the     *)
(* destination in its committed version, but for at most one version per   *)
(* interrupted run, and none with Parquet, for any interruption.           *)
(***************************************************************************)
THEOREM StrictLeavesNoGap == ASSUME Strict PROVE Spec => []NoGap
<1>1. GapInv /\ [Next]_vars => GapInv'
  BY Strict, NextTypeOK, NextRoomInv, NextTornInv, NextReadInv, NextViewInv, NextClaimInv,
     NextGap DEF GapInv, AheadInv
<1> QED
  BY <1>1, GapIsSwallowed, InitGapInv, PTL DEF Spec
=============================================================================
