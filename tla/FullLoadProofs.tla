-------------------------- MODULE FullLoadProofs --------------------------
(***************************************************************************)
(* Proofs about FullLoad, for every set of rows, number of chunks and      *)
(* bound.  Write-ahead durability and the refinement of WriteAhead hold    *)
(* for a Parquet destination; completeness needs in addition that no row   *)
(* changes chunk (keyset ranges).  For NDJSON, and for ctid ranges, the    *)
(* model checker shows the properties are violated; that a torn line costs *)
(* at most one row holds of every format and range.                        *)
(***************************************************************************)
EXTENDS FullLoad, FiniteSetTheorems, TLAPS

Parquet == Format = "parquet"
Keyset  == Relocates = FALSE

-----------------------------------------------------------------------------
(* The inductive invariant, in three named parts.                          *)

\* How the process stands to the state document it loaded or wrote.
PlanInv ==
  /\ ~planned => /\ pc \in {"down", "plan"}
                 /\ claimed = {} /\ steady = {}
  /\ pc = "plan" => ~planned
  /\ pc = "open" /\ fresh => claimed = {}
  /\ pc \in {"open", "next", "read", "flushed"} => todo = remaining
  /\ pc \in {"read", "flushed"} => chunk \in todo

\* Where the rows of the snapshot being read are.
DurableInv ==
  /\ claimed \subseteq stored
  /\ pc = "read"    => snap \subseteq unread \cup buf
  /\ pc = "flushed" => snap \subseteq stored

\* A row that never left the source is claimed once its chunk is done, and
\* is in the snapshot while its chunk is being read.
CoverInv ==
  /\ steady \subseteq present
  /\ planned => \A r \in steady : loc[r] \in remaining \/ r \in claimed
  /\ pc \in {"read", "flushed"} => \A r \in steady : loc[r] = chunk => r \in snap

DurInv  == TypeOK /\ tail # "glued" /\ PlanInv /\ DurableInv
FullInv == DurInv /\ CoverInv

-----------------------------------------------------------------------------
(* Type correctness.                                                       *)

LEMMA InitTypeOK == Init => TypeOK
<1> SUFFICES ASSUME Init PROVE TypeOK
  OBVIOUS
<1>1. 1 \in Chunks /\ 0 \in 0..MaxWrites /\ 0 \in 0..MaxStops
  BY FullLoadAssumption DEF FullLoadAssumption, Chunks
<1> QED
  BY <1>1 DEF Init, TypeOK, PCs

LEMMA NextTypeOK == TypeOK /\ [Next]_vars => TypeOK'
<1> SUFFICES ASSUME TypeOK, [Next]_vars PROVE TypeOK'
  OBVIOUS
<1> USE FullLoadAssumption DEF FullLoadAssumption
<1>1. ASSUME NEW r \in Rows, Insert(r) PROVE TypeOK'
  BY <1>1 DEF Insert, TypeOK, doc, dest, proc
<1>2. ASSUME NEW r \in Rows, Delete(r) PROVE TypeOK'
  BY <1>2 DEF Delete, TypeOK, doc, dest, proc
<1>3. ASSUME NEW r \in Rows, Relocate(r) PROVE TypeOK'
  BY <1>3 DEF Relocate, TypeOK, doc, dest, proc
<1>4. ASSUME Start PROVE TypeOK'
  BY <1>4 DEF Start, TypeOK, PCs, source, doc, dest
<1>5. ASSUME PlanChunks PROVE TypeOK'
  BY <1>5 DEF PlanChunks, RecordPlan, TypeOK, PCs, source, dest
<1>6. ASSUME OpenWriter PROVE TypeOK'
  BY <1>6 DEF OpenWriter, TypeOK, PCs, source, doc, dest
<1>7. ASSUME BeginChunk PROVE TypeOK'
  BY <1>7 DEF BeginChunk, TypeOK, PCs, source, doc, dest
<1>8. ASSUME NEW r \in Rows, EmitRow(r) PROVE TypeOK'
  BY <1>8 DEF EmitRow, TypeOK, PCs, source, doc
<1>9. ASSUME FlushChunk PROVE TypeOK'
  BY <1>9 DEF FlushChunk, FlushWriter, TypeOK, PCs, source, doc
<1>10. ASSUME CompleteChunk PROVE TypeOK'
  BY <1>10 DEF CompleteChunk, TypeOK, PCs, source, dest
<1>11. ASSUME FinishStream PROVE TypeOK'
  BY <1>11 DEF FinishStream, FlushWriter, TypeOK, PCs, source, doc
<1>12. ASSUME Stop PROVE TypeOK'
  BY <1>12 DEF Stop, TypeOK, PCs, source, doc
<1>13. ASSUME UNCHANGED vars PROVE TypeOK'
  BY <1>13 DEF vars, source, doc, dest, proc, TypeOK
<1> QED
  BY <1>1, <1>2, <1>3, <1>4, <1>5, <1>6, <1>7, <1>8, <1>9, <1>10, <1>11,
     <1>12, <1>13 DEF Next, SourceNext, Run

(***************************************************************************)
(* Every reachable state is well typed, whatever the destination format    *)
(* and the kind of chunk range.                                            *)
(***************************************************************************)
THEOREM TypeCorrect == Spec => []TypeOK
BY InitTypeOK, NextTypeOK, PTL DEF Spec

-----------------------------------------------------------------------------
(* Write-ahead durability (Parquet).                                       *)

LEMMA InitDurInv == Init => DurInv
<1> SUFFICES ASSUME Init PROVE DurInv
  OBVIOUS
<1> QED
  BY InitTypeOK DEF Init, DurInv, PlanInv, DurableInv

LEMMA NextPlanInv == TypeOK /\ PlanInv /\ [Next]_vars => PlanInv'
<1> SUFFICES ASSUME TypeOK, PlanInv, [Next]_vars PROVE PlanInv'
  OBVIOUS
<1> USE DEF PlanInv
<1>1. ASSUME NEW r \in Rows, Insert(r) PROVE PlanInv'
  BY <1>1 DEF Insert, doc, dest, proc
<1>2. ASSUME NEW r \in Rows, Delete(r) PROVE PlanInv'
  BY <1>2 DEF Delete, doc, dest, proc
<1>3. ASSUME NEW r \in Rows, Relocate(r) PROVE PlanInv'
  BY <1>3 DEF Relocate, doc, dest, proc
<1>4. ASSUME Start PROVE PlanInv'
  BY <1>4 DEF Start, TypeOK, doc
<1>5. ASSUME PlanChunks PROVE PlanInv'
  BY <1>5 DEF PlanChunks, RecordPlan
<1>6. ASSUME OpenWriter PROVE PlanInv'
  BY <1>6 DEF OpenWriter, doc
<1>7. ASSUME BeginChunk PROVE PlanInv'
  BY <1>7 DEF BeginChunk, doc
<1>8. ASSUME NEW r \in Rows, EmitRow(r) PROVE PlanInv'
  BY <1>8 DEF EmitRow, doc
<1>9. ASSUME FlushChunk PROVE PlanInv'
  BY <1>9 DEF FlushChunk, doc
<1>10. ASSUME CompleteChunk PROVE PlanInv'
  BY <1>10 DEF CompleteChunk
<1>11. ASSUME FinishStream PROVE PlanInv'
  BY <1>11 DEF FinishStream, doc
<1>12. ASSUME Stop PROVE PlanInv'
  BY <1>12 DEF Stop, doc
<1>13. ASSUME UNCHANGED vars PROVE PlanInv'
  BY <1>13 DEF vars, doc, dest, proc
<1> QED
  BY <1>1, <1>2, <1>3, <1>4, <1>5, <1>6, <1>7, <1>8, <1>9, <1>10, <1>11,
     <1>12, <1>13 DEF Next, SourceNext, Run

\* A Parquet directory loses nothing that was flushed, and no line of it can
\* continue another.
LEMMA NextDurableInv ==
  ASSUME Parquet, DurInv, [Next]_vars
  PROVE  DurableInv' /\ tail' # "glued"
<1> DEFINE Goal == DurableInv' /\ tail' # "glued"
<1> USE DEF DurInv, PlanInv, DurableInv
<1>1. ASSUME NEW r \in Rows, Insert(r) \/ Delete(r) \/ Relocate(r) PROVE Goal
  BY <1>1 DEF Insert, Delete, Relocate, dest, proc
<1>2. ASSUME Start PROVE Goal
  BY <1>2 DEF Start, dest
<1>3. ASSUME PlanChunks PROVE Goal
  BY <1>3 DEF PlanChunks, RecordPlan, dest
<1>4. ASSUME OpenWriter PROVE Goal
  BY <1>4 DEF OpenWriter, dest
<1>5. ASSUME BeginChunk PROVE Goal
  BY <1>5 DEF BeginChunk, dest
<1>6. ASSUME NEW r \in Rows, EmitRow(r) PROVE Goal
  BY <1>6, Parquet DEF EmitRow, Parquet
<1>7. ASSUME FlushChunk PROVE Goal
  BY <1>7 DEF FlushChunk, FlushWriter
<1>8. ASSUME CompleteChunk PROVE Goal
  BY <1>8 DEF CompleteChunk, dest
<1>9. ASSUME FinishStream PROVE Goal
  BY <1>9 DEF FinishStream, FlushWriter
<1>10. ASSUME Stop PROVE Goal
  BY <1>10 DEF Stop
<1>11. ASSUME UNCHANGED vars PROVE Goal
  BY <1>11 DEF vars, dest, proc
<1> QED
  BY <1>1, <1>2, <1>3, <1>4, <1>5, <1>6, <1>7, <1>8, <1>9, <1>10, <1>11
     DEF Next, SourceNext, Run

(***************************************************************************)
(* The strengthening of write-ahead durability that is inductive: where    *)
(* the rows of the chunk being read are, and how the run stands to the     *)
(* plan in the state document.                                             *)
(***************************************************************************)
THEOREM DurInvInvariant == ASSUME Parquet PROVE Spec => []DurInv
<1>1. DurInv /\ [Next]_vars => DurInv'
  BY Parquet, NextTypeOK, NextPlanInv, NextDurableInv DEF DurInv
<1> QED
  BY <1>1, InitDurInv, PTL DEF Spec

(***************************************************************************)
(* With a Parquet destination every row of a chunk that state counts as    *)
(* done is durable, whatever chunks rows move between and whenever the     *)
(* process stops.                                                          *)
(***************************************************************************)
THEOREM ParquetWriteAhead ==
  ASSUME Parquet PROVE Spec => []CompletedChunksDurable
<1>1. DurInv => CompletedChunksDurable
  BY DEF DurInv, DurableInv, CompletedChunksDurable
<1> QED
  BY <1>1, DurInvInvariant, PTL

-----------------------------------------------------------------------------
(* Refinement of the write-ahead contract (Parquet).                       *)

LEMMA StepRefinesWriteAhead ==
  ASSUME Parquet, DurInv, DurInv', [Next]_vars
  PROVE  [WA!Next]_(WA!vars)
<1> DEFINE Goal == WA!Store \/ WA!Discard \/ WA!Claim \/ UNCHANGED <<stored, claimed>>
<1> USE DEF DurInv, PlanInv, DurableInv
<1>1. ASSUME NEW r \in Rows, Insert(r) \/ Delete(r) \/ Relocate(r) PROVE Goal
  BY <1>1 DEF Insert, Delete, Relocate, dest
<1>2. ASSUME Start PROVE Goal
  BY <1>2 DEF Start, dest
<1>3. ASSUME PlanChunks PROVE Goal
  BY <1>3 DEF PlanChunks, RecordPlan, dest
<1>4. ASSUME OpenWriter PROVE Goal
  <2>1. CASE fresh
    BY <1>4, <2>1 DEF OpenWriter, WA!Discard
  <2>2. CASE ~fresh
    BY <1>4, <2>2 DEF OpenWriter, dest
  <2> QED
    BY <2>1, <2>2
<1>5. ASSUME BeginChunk PROVE Goal
  BY <1>5 DEF BeginChunk, dest
<1>6. ASSUME NEW r \in Rows, EmitRow(r) PROVE Goal
  BY <1>6 DEF EmitRow
<1>7. ASSUME FlushChunk PROVE Goal
  BY <1>7 DEF FlushChunk, FlushWriter, WA!Store, TypeOK
<1>8. ASSUME CompleteChunk PROVE Goal
  BY <1>8 DEF CompleteChunk, dest, WA!Claim
<1>9. ASSUME FinishStream PROVE Goal
  BY <1>9 DEF FinishStream, FlushWriter, WA!Store, TypeOK
<1>10. ASSUME Stop PROVE Goal
  BY <1>10 DEF Stop, WA!Store, TypeOK
<1>11. ASSUME UNCHANGED vars PROVE Goal
  BY <1>11 DEF vars, dest
<1>12. Goal
  BY <1>1, <1>2, <1>3, <1>4, <1>5, <1>6, <1>7, <1>8, <1>9, <1>10, <1>11
     DEF Next, SourceNext, Run
<1> QED
  BY <1>12 DEF WA!Next, WA!vars

(***************************************************************************)
(* The full load into Parquet is an implementation of WriteAhead: every    *)
(* step stores rows, discards rows nothing claims, or claims stored rows.  *)
(***************************************************************************)
THEOREM ParquetRefinement ==
  ASSUME Parquet PROVE Spec => ImplementsWriteAhead
<1>1. Init => WA!Init
  BY InitTypeOK DEF Init, TypeOK, WA!Init
<1>2. DurInv /\ DurInv' /\ [Next]_vars => [WA!Next]_(WA!vars)
  BY Parquet, StepRefinesWriteAhead
<1> QED
  BY <1>1, <1>2, DurInvInvariant, PTL DEF Spec, ImplementsWriteAhead, WA!Spec

-----------------------------------------------------------------------------
(* Completeness (Parquet, keyset ranges).                                  *)

LEMMA NextCoverInv ==
  ASSUME Keyset, FullInv, [Next]_vars PROVE CoverInv'
<1> USE Keyset DEF FullInv, DurInv, PlanInv, CoverInv, Keyset
<1>1. ASSUME NEW r \in Rows, Insert(r) PROVE CoverInv'
  BY <1>1 DEF Insert, doc, dest, proc
<1>2. ASSUME NEW r \in Rows, Delete(r) PROVE CoverInv'
  BY <1>2 DEF Delete, doc, dest, proc
<1>3. ASSUME NEW r \in Rows, Relocate(r) PROVE CoverInv'
  BY <1>3 DEF Relocate
<1>4. ASSUME Start PROVE CoverInv'
  BY <1>4 DEF Start, source, doc
<1>5. ASSUME PlanChunks PROVE CoverInv'
  BY <1>5 DEF PlanChunks, RecordPlan, TypeOK, source
<1>6. ASSUME OpenWriter PROVE CoverInv'
  BY <1>6 DEF OpenWriter, source, doc
<1>7. ASSUME BeginChunk PROVE CoverInv'
  BY <1>7 DEF BeginChunk, source, doc
<1>8. ASSUME NEW r \in Rows, EmitRow(r) PROVE CoverInv'
  BY <1>8 DEF EmitRow, source, doc
<1>9. ASSUME FlushChunk PROVE CoverInv'
  BY <1>9 DEF FlushChunk, source, doc
<1>10. ASSUME CompleteChunk PROVE CoverInv'
  BY <1>10 DEF CompleteChunk, source
<1>11. ASSUME FinishStream PROVE CoverInv'
  BY <1>11 DEF FinishStream, source, doc
<1>12. ASSUME Stop PROVE CoverInv'
  BY <1>12 DEF Stop, source, doc
<1>13. ASSUME UNCHANGED vars PROVE CoverInv'
  BY <1>13 DEF vars, source, doc, proc
<1> QED
  BY <1>1, <1>2, <1>3, <1>4, <1>5, <1>6, <1>7, <1>8, <1>9, <1>10, <1>11,
     <1>12, <1>13 DEF Next, SourceNext, Run

(***************************************************************************)
(* With keyset ranges and a Parquet destination, a load that state says is *)
(* over has stored every row that was in the source all along, whatever    *)
(* was inserted, deleted or interrupted meanwhile.                         *)
(***************************************************************************)
THEOREM KeysetLoadComplete ==
  ASSUME Parquet, Keyset PROVE Spec => []LoadIsComplete
<1>1. Init => FullInv
  BY InitDurInv DEF Init, FullInv, CoverInv
<1>2. FullInv /\ [Next]_vars => FullInv'
  BY Parquet, Keyset, NextTypeOK, NextPlanInv, NextDurableInv, NextCoverInv
     DEF FullInv, DurInv
<1>3. FullInv => LoadIsComplete
  BY DEF FullInv, DurInv, DurableInv, CoverInv, LoadIsComplete
<1> QED
  BY <1>1, <1>2, <1>3, PTL DEF Spec

(***************************************************************************)
(* No format and no kind of range makes a run read a chunk that the state  *)
(* document has already dropped.                                           *)
(***************************************************************************)
THEOREM OnlyRemainingChunks == Spec => []ReadsOnlyRemaining
<1> DEFINE Inv == TypeOK /\ PlanInv
<1>1. Init => Inv
  BY InitTypeOK DEF Init, PlanInv
<1>2. Inv /\ [Next]_vars => Inv'
  BY NextTypeOK, NextPlanInv
<1>3. Inv => ReadsOnlyRemaining
  BY DEF PlanInv, ReadsOnlyRemaining
<1> QED
  BY <1>1, <1>2, <1>3, PTL DEF Spec

-----------------------------------------------------------------------------
(* A fresh destination.                                                    *)

\* Until a run is interrupted, what an earlier load left is there only as
\* long as the first run has not opened the destination.
FreshInv == stops = 0 /\ stale => \/ ~planned /\ (pc = "plan" => fresh)
                                  \/ pc = "open" /\ fresh /\ remaining # {}

LEMMA NextFreshInv ==
  ASSUME TypeOK, PlanInv, FreshInv, [Next]_vars PROVE FreshInv'
<1> USE DEF FreshInv, PlanInv
<1>1. ASSUME NEW r \in Rows, Insert(r) \/ Delete(r) \/ Relocate(r) PROVE FreshInv'
  <2>1. UNCHANGED <<doc, dest, proc, stops>>
    BY <1>1 DEF Insert, Delete, Relocate
  <2> QED
    BY <2>1 DEF doc, dest, proc
<1>2. ASSUME Start PROVE FreshInv'
  BY <1>2 DEF Start, doc, dest
<1>3. ASSUME PlanChunks PROVE FreshInv'
  <2>1. Chunks # {}
    BY FullLoadAssumption DEF Chunks
  <2> QED
    BY <1>3, <2>1 DEF PlanChunks, RecordPlan, dest
<1>4. ASSUME OpenWriter PROVE FreshInv'
  BY <1>4 DEF OpenWriter, doc, dest
<1>5. ASSUME \/ BeginChunk \/ FlushChunk \/ CompleteChunk \/ FinishStream
             \/ \E r \in Rows : EmitRow(r)
      PROVE  FreshInv'
  BY <1>5 DEF BeginChunk, FlushChunk, CompleteChunk, FinishStream, EmitRow, doc, dest
<1>6. ASSUME Stop PROVE FreshInv'
  <2>1. stops' # 0
    BY <1>6, FullLoadAssumption DEF Stop, TypeOK
  <2> QED
    BY <2>1
<1>7. ASSUME UNCHANGED vars PROVE FreshInv'
  BY <1>7 DEF vars, doc, dest, proc
<1> QED
  BY <1>1, <1>2, <1>3, <1>4, <1>5, <1>6, <1>7 DEF Next, SourceNext, Run

(***************************************************************************)
(* A load that was never interrupted leaves no row of an earlier load in   *)
(* the destination, with either format and either kind of range.           *)
(***************************************************************************)
THEOREM UninterruptedLoadIsFresh == Spec => []NothingOldSurvives
<1> DEFINE Inv == TypeOK /\ PlanInv /\ FreshInv
<1>1. Init => Inv
  BY InitTypeOK DEF Init, PlanInv, FreshInv
<1>2. Inv /\ [Next]_vars => Inv'
  BY NextTypeOK, NextPlanInv, NextFreshInv
<1>3. Inv => NothingOldSurvives
  BY DEF FreshInv, NothingOldSurvives
<1> QED
  BY <1>1, <1>2, <1>3, PTL DEF Spec

-----------------------------------------------------------------------------
(* What a torn line costs: TornLossIsBounded, for either format.           *)

\* A row of the snapshot is still to be flushed, flushed, or in a line nobody can read.
LossInv ==
  /\ claimed \subseteq stored \cup swallowed
  /\ pc = "read"    => snap \subseteq unread \cup buf \cup swallowed
  /\ pc = "flushed" => snap \subseteq stored \cup swallowed

\* A run that was stopped leaves one torn line at most, and that one takes one row.
TornInv ==
  /\ IsFiniteSet(swallowed)
  /\ Cardinality(swallowed) + (IF tail = "torn" THEN 1 ELSE 0) <= stops

LEMMA NextLossInv ==
  ASSUME TypeOK, PlanInv, LossInv, [Next]_vars
  PROVE  LossInv'
<1> USE DEF LossInv
<1>1. ASSUME NEW r \in Rows, Insert(r) PROVE LossInv'
  BY <1>1 DEF Insert, doc, dest, proc
<1>2. ASSUME NEW r \in Rows, Delete(r) PROVE LossInv'
  BY <1>2 DEF Delete, doc, dest, proc
<1>3. ASSUME NEW r \in Rows, Relocate(r) PROVE LossInv'
  BY <1>3 DEF Relocate, doc, dest, proc
<1>4. ASSUME Start PROVE LossInv'
  BY <1>4 DEF Start, doc, dest
<1>5. ASSUME PlanChunks PROVE LossInv'
  BY <1>5 DEF PlanChunks, RecordPlan, dest
<1>6. ASSUME OpenWriter PROVE LossInv'
  BY <1>6 DEF OpenWriter, PlanInv, doc, dest
<1>7. ASSUME BeginChunk PROVE LossInv'
  BY <1>7 DEF BeginChunk, doc, dest
<1>8. ASSUME NEW r \in Rows, EmitRow(r) PROVE LossInv'
  BY <1>8 DEF EmitRow, doc
<1>9. ASSUME FlushChunk PROVE LossInv'
  BY <1>9 DEF FlushChunk, FlushWriter, doc
<1>10. ASSUME CompleteChunk PROVE LossInv'
  BY <1>10 DEF CompleteChunk, dest
<1>11. ASSUME FinishStream PROVE LossInv'
  BY <1>11 DEF FinishStream, FlushWriter, doc
<1>12. ASSUME Stop PROVE LossInv'
  BY <1>12 DEF Stop, doc
<1>13. ASSUME UNCHANGED vars PROVE LossInv'
  BY <1>13 DEF vars, dest, proc
<1> QED
  BY <1>1, <1>2, <1>3, <1>4, <1>5, <1>6, <1>7, <1>8, <1>9, <1>10, <1>11,
     <1>12, <1>13 DEF Next, SourceNext, Run

LEMMA NextTornInv ==
  ASSUME TypeOK, TornInv, [Next]_vars
  PROVE  TornInv'
<1> DEFINE torn == IF tail = "torn" THEN 1 ELSE 0
<1>1. /\ IsFiniteSet(swallowed) /\ Cardinality(swallowed) \in Nat
      /\ Cardinality(swallowed) + torn <= stops /\ stops \in Nat
  BY FS_CardinalityType DEF TornInv, TypeOK
<1>2. ASSUME swallowed' = swallowed, stops' = stops, tail' = tail \/ tail' = "whole"
      PROVE  TornInv'
  BY <1>1, <1>2 DEF TornInv
<1>3. CASE Stop
  BY <1>1, <1>3 DEF Stop, TornInv
<1>4. ASSUME NEW r \in Rows, EmitRow(r) PROVE TornInv'
  <2>1. CASE Format = "ndjson" /\ tail = "torn"
    <3>1. swallowed' = swallowed \cup {r} /\ tail' = "glued" /\ stops' = stops
      BY <1>4, <2>1 DEF EmitRow
    <3>2. /\ IsFiniteSet(swallowed \cup {r})
          /\ Cardinality(swallowed \cup {r}) <= Cardinality(swallowed) + 1
      BY <1>1, FS_AddElement
    <3>3. Cardinality(swallowed \cup {r}) \in Nat
      BY <3>2, FS_CardinalityType
    <3> QED
      BY <1>1, <2>1, <3>1, <3>2, <3>3 DEF TornInv
  <2>2. CASE ~ (Format = "ndjson" /\ tail = "torn")
    BY <1>2, <1>4, <2>2 DEF EmitRow
  <2> QED
    BY <2>1, <2>2
<1>5. CASE SourceNext
  BY <1>2, <1>5 DEF SourceNext, Insert, Delete, Relocate, dest
<1>6. CASE OpenWriter
  BY <1>2, <1>6 DEF OpenWriter, dest
<1>7. CASE FlushChunk \/ FinishStream
  BY <1>2, <1>7 DEF FlushChunk, FinishStream, FlushWriter
<1>8. CASE Start \/ PlanChunks \/ BeginChunk \/ CompleteChunk
  BY <1>2, <1>8 DEF Start, PlanChunks, RecordPlan, BeginChunk, CompleteChunk, dest
<1>9. CASE UNCHANGED vars
  BY <1>2, <1>9 DEF vars, dest
<1> QED
  BY <1>3, <1>4, <1>5, <1>6, <1>7, <1>8, <1>9 DEF Next, Run

(***************************************************************************)
(* Whatever the destination and the ranges, an interrupted run costs the   *)
(* completed chunks at most one row: the rows they lack are among those    *)
(* whose line continued a torn line, and there are no more than stops.     *)
(***************************************************************************)
THEOREM OneRowLostPerStop == Spec => []TornLossIsBounded
<1> DEFINE I == TypeOK /\ PlanInv /\ LossInv /\ TornInv
<1>1. Init => I
  <2> SUFFICES ASSUME Init PROVE I
    OBVIOUS
  <2>1. TornInv
    BY FS_EmptySet DEF Init, TornInv
  <2> QED
    BY InitTypeOK, <2>1 DEF Init, PlanInv, LossInv
<1>2. I /\ [Next]_vars => I'
  BY NextTypeOK, NextPlanInv, NextLossInv, NextTornInv
<1>3. I => TornLossIsBounded
  <2> SUFFICES ASSUME I PROVE TornLossIsBounded
    OBVIOUS
  <2>1. claimed \ stored \subseteq swallowed
    BY DEF LossInv
  <2>2. Cardinality(claimed \ stored) <= Cardinality(swallowed)
    BY <2>1, FS_Subset DEF TornInv
  <2>3. Cardinality(claimed \ stored) \in Nat /\ Cardinality(swallowed) \in Nat
    BY <2>1, FS_Subset, FS_CardinalityType DEF TornInv
  <2>4. Cardinality(swallowed) <= stops /\ stops \in Nat
    BY <2>3 DEF TornInv, TypeOK
  <2> QED
    BY <2>1, <2>2, <2>3, <2>4 DEF TornLossIsBounded
<1> HIDE DEF I
<1> QED
  BY <1>1, <1>2, <1>3, PTL DEF Spec

=============================================================================
