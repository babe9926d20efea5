------------------------------ MODULE Sources ------------------------------
(***************************************************************************)
(* Every source connector under one specification: a behaviour is one of   *)
(* SourceReads, for a connector that reads rows, one of KafkaReads, or one *)
(* of RowValues, which follows the cells of the rows to the destination.   *)
(***************************************************************************)
EXTENDS SourceReads

CONSTANTS Partitions, MaxAppends, MaxReads, MaxFaults, Formats

ASSUME KafkaAssumption ==
    /\ Partitions \subseteq Nat
    /\ MaxAppends \in Nat /\ MaxReads \in Nat /\ MaxFaults \in Nat

ASSUME FormatsAssumption == Formats \subseteq {"ndjson", "parquet"}

VARIABLES kind, topic, log, first, offsets, kphase, todo, at, next,
          delivered, reads, faults,
          col, format, keyed, unread, records, sums, stage

Kafka == INSTANCE KafkaReads
Values == INSTANCE RowValues

kafka == <<topic, log, first, offsets, kphase, todo, at, next,
           delivered, reads, faults>>
cells == <<col, format, keyed, unread, records, sums, stage>>

\* What a behaviour is not about starts in one state only.
InitSources ==
    /\ kind \in {"rows", "messages", "values"}
    /\ \/ kind = "rows"
       \/ kind # "rows" /\ conn = "redis" /\ cursorType = "number"
                        /\ cur = [k \in Keys |-> 0]
    /\ \/ kind = "messages"
       \/ kind # "messages" /\ topic = Partitions /\ kphase = "ready"
    /\ \/ kind = "values"
       \/ kind # "values" /\ format = "ndjson" /\ keyed = TRUE
                          /\ col = CHOOSE c \in Values!Columns : TRUE
    /\ Init /\ Kafka!Init /\ Values!InitCells

NextSources ==
    \/ kind = "rows" /\ Next /\ UNCHANGED <<kind, kafka, cells>>
    \/ kind = "messages" /\ Kafka!Next /\ UNCHANGED <<kind, vars, cells>>
    \/ kind = "values" /\ Values!NextCells /\ UNCHANGED <<kind, vars, kafka>>

SpecSources ==
    InitSources /\ [][NextSources]_<<kind, vars, kafka, cells>>
                /\ WF_vars(PlanStep \/ FinishPlan)

\* The watermark of no connector, be it a cursor value or an offset, passes a
\* row or a message that was not delivered.
NothingSkippedAnywhere ==
    IF kind = "rows" THEN NothingSkipped ELSE Kafka!NoMessageSkipped

\* After a scan the destination reads back what the source holds, for every
\* column that RowValues tabulates but those it lists.
CellsComeBack == Values!CellsComeBack

\* Two keys of a source are two rows of the destination and one key is one,
\* but for the columns RowValues lists.
OneRowPerKey == Values!OneRowPerKey

\* What rowdigest.go's comment says of the two sums; it does not hold of Parquet.
CorruptionShows == Values!CorruptionShows

\* The type of the state.
TypesOK == TypeOK /\ Kafka!TypeOK
=============================================================================
