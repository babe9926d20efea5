----------------------------- MODULE KafkaReads -----------------------------
(***************************************************************************)
(* The Kafka connector: its cursor is one offset per partition.  A read    *)
(* captures the end of each partition and reads up to it, while messages   *)
(* are appended, expire, partitions are added, and a partition is missing  *)
(* from the metadata for a while.  A stream is loaded in full or read in   *)
(* increments, the first of them without stored offsets.  A marker is an   *)
(* offset that holds no message for a consumer (a transaction marker, a    *)
(* compacted record).                                                      *)
(***************************************************************************)
EXTENDS Integers, Sequences, FiniteSets

CONSTANTS
    Partitions,     \* partition ids
    MaxAppends,     \* bound: records per partition
    MaxReads,       \* bound: reads of the topic, the full load among them
    MaxFaults       \* bound: expired messages and gaps of the metadata

VARIABLES
    topic,          \* the partitions that exist
    log,            \* partition -> its records, "message" or "marker"
    first,          \* partition -> earliest offset retained
    offsets,        \* the stored cursor: partition -> next offset
    kphase,         \* "ready", "load", "loaded", or "idle", "increment"
    todo,           \* partitions of this read still to come
    at,             \* the partition being read, its offset and its end
    next,           \* the partitions read to their end, and that end
    delivered,      \* messages <<partition, offset>> emitted
    reads, faults   \* reads begun, faults used

broker == <<topic, log, first>>
kvars == <<broker, offsets, kphase, todo, at, next, delivered,
           reads, faults>>

NoPartition == <<>>
Nowhere == [p \in {} |-> 0]
End(p) == Len(log[p])
Message(p, o) == log[p][o + 1] = "message"
Least(S) == CHOOSE x \in S : \A y \in S : x <= y

Init ==
    /\ topic \in SUBSET Partitions \ {{}}
    /\ log = [p \in Partitions |-> <<>>]
    /\ first = [p \in Partitions |-> 0]
    /\ offsets = Nowhere /\ kphase \in {"ready", "idle"}
    /\ todo = {} /\ at = NoPartition /\ next = Nowhere
    /\ delivered = {}
    /\ reads = 0 /\ faults = 0

engine == <<offsets, kphase, todo, at, next, delivered,
            reads>>

\* The broker.
Produce(p, record) ==
    /\ p \in topic /\ End(p) < MaxAppends
    /\ log' = [log EXCEPT ![p] = @ \o <<record>>]
    /\ UNCHANGED <<topic, first, engine, faults>>

Expire(p) ==
    /\ faults < MaxFaults /\ first[p] < End(p)
    /\ first' = [first EXCEPT ![p] = @ + 1]
    /\ faults' = faults + 1
    /\ UNCHANGED <<topic, log, engine>>

AddPartition(p) ==
    /\ p \notin topic
    /\ topic' = topic \cup {p}
    /\ UNCHANGED <<log, first, engine, faults>>

\* The connector.

\* partitions: what the metadata lists; one may be missing from it.
Listed(S) ==
    \/ S = topic /\ UNCHANGED faults
    \/ /\ faults < MaxFaults
       /\ \E p \in topic : S = topic \ {p}
       /\ faults' = faults + 1

StartRead(from, to) ==
    /\ kphase = from /\ reads < MaxReads
    /\ \E S \in SUBSET Partitions : Listed(S) /\ todo' = S
    /\ reads' = reads + 1
    /\ kphase' = to /\ next' = Nowhere
    /\ UNCHANGED <<broker, offsets, at, delivered>>

\* The fault: a partition without a stored offset starts at its end.
StartOffsetLatest(p) ==
    IF kphase = "load" THEN first[p]
    ELSE IF p \notin DOMAIN offsets THEN End(p)
    ELSE IF offsets[p] < first[p] THEN first[p]
    ELSE IF offsets[p] > End(p) THEN End(p) ELSE offsets[p]

\* ReadIncrement starts at the stored offset, at the earliest one when there
\* is none or it expired, and not beyond the end.
StartOffset(p) ==
    IF kphase = "load" THEN first[p]
    ELSE IF p \notin DOMAIN offsets \/ offsets[p] < first[p] THEN first[p]
    ELSE IF offsets[p] > End(p) THEN End(p) ELSE offsets[p]

\* bounds: the end is captured here.
Bounds ==
    /\ at = NoPartition /\ todo # {}
    /\ LET p == Least(todo) IN
       /\ at' = [part |-> p, off |-> StartOffset(p), end |-> End(p)]
       /\ todo' = todo \ {p}
    /\ UNCHANGED <<broker, offsets, kphase, next, delivered, reads,
                   faults>>

\* A read that fails keeps the stored offsets; the load is to be done again.
Fail ==
    /\ kphase' = IF kphase = "load" THEN "ready" ELSE "idle"
    /\ at' = NoPartition /\ todo' = {}
    /\ UNCHANGED <<next, delivered>>

\* The next message at or after the offset, if only markers lie between; no
\* message at all lets the deadline pass, an expired offset is refused.
ReadMessage ==
    /\ at # NoPartition /\ at.off < at.end
    /\ LET p == at.part
           found == {o \in at.off .. End(p) - 1 : Message(p, o)} IN
       IF at.off < first[p] \/ found = {} THEN Fail
       ELSE LET m == Least(found) IN
            /\ delivered' = delivered \cup {<<p, m>>}
            /\ at' = [at EXCEPT !.off = m + 1]
            /\ UNCHANGED <<kphase, todo, next>>
    /\ UNCHANGED <<broker, offsets, reads, faults>>

\* A partition read to its end: its next offset is the end captured.
EndPartition ==
    /\ at # NoPartition /\ at.off >= at.end
    /\ next' = [p \in DOMAIN next \cup {at.part} |->
                   IF p = at.part THEN at.end ELSE next[p]]
    /\ at' = NoPartition
    /\ UNCHANGED <<broker, offsets, kphase, todo, delivered, reads,
                   faults>>

\* The full load ends.
EndLoad ==
    /\ kphase = "load" /\ todo = {} /\ at = NoPartition
    /\ kphase' = "loaded"
    /\ UNCHANGED <<broker, offsets, todo, at, next, delivered, reads,
                   faults>>

\* The new cursor keeps the offsets of partitions missing from the metadata.
EndIncrement ==
    /\ kphase = "increment" /\ todo = {} /\ at = NoPartition
    /\ offsets' = [p \in DOMAIN next \cup DOMAIN offsets |->
                      IF p \in DOMAIN next THEN next[p] ELSE offsets[p]]
    /\ kphase' = "idle"
    /\ UNCHANGED <<broker, todo, at, next, delivered, reads,
                   faults>>

ReadChunk == StartRead("ready", "load") \/ EndLoad
ReadIncrement == StartRead("idle", "increment") \/ EndIncrement

Next ==
    \/ ReadChunk \/ ReadIncrement
    \/ Bounds \/ ReadMessage \/ EndPartition
    \/ \E p \in Partitions :
          \/ \E r \in {"message", "marker"} : Produce(p, r)
          \/ Expire(p)
          \/ AddPartition(p)

Spec == Init /\ [][Next]_kvars

-----------------------------------------------------------------------------

\* The type of the state.
TypeOK ==
    /\ topic \subseteq Partitions
    /\ log \in [Partitions -> UNION {[1 .. n -> {"message", "marker"}] :
                                        n \in 0 .. MaxAppends}]
    /\ first \in [Partitions -> 0 .. MaxAppends]
    /\ DOMAIN offsets \subseteq Partitions
    /\ \A p \in DOMAIN offsets : offsets[p] \in 0 .. MaxAppends
    /\ kphase \in {"ready", "load", "loaded", "idle", "increment"}
    /\ todo \subseteq Partitions
    /\ reads \in 0 .. MaxReads /\ faults \in 0 .. MaxFaults

\* What a read vouches for: the ends a full load has reached, or the stored
\* offsets.
Vouched == IF kphase = "loaded" THEN next ELSE offsets

\* After a full load and between two increments, every message still retained
\* is delivered or lies at or beyond the offset vouched for its partition:
\* those appended while the read ran, those of a partition added later or
\* absent from the metadata, and those behind a read that failed.
NoMessageSkipped ==
    kphase \in {"loaded", "idle"} =>
        \A p \in topic : \A o \in first[p] .. End(p) - 1 :
            \/ ~Message(p, o) \/ <<p, o>> \in delivered
            \/ p \notin DOMAIN Vouched \/ o >= Vouched[p]
=============================================================================
