--------------------------- MODULE SourcesProofs ---------------------------
(***************************************************************************)
(* Proofs about Sources, for any connectors, keys, pages, partitions and   *)
(* bounds, at any width of the integers: a finished plan puts every key    *)
(* into exactly one chunk, a load reads a row nothing touches once, no     *)
(* watermark passes a row or a message that was not delivered, and a pass  *)
(* over a quiet source leaves nothing behind; and, for every column that   *)
(* RowValues tabulates, which cells a destination gives back as they were  *)
(* and which keys tell two rows apart.                                     *)
(***************************************************************************)
EXTENDS Sources, Sequences, FiniteSetTheorems, WellFoundedInduction, TLAPS

-----------------------------------------------------------------------------
(* Integers, and the least and the greatest of a bounded set.              *)

LEMMA NatHasLeast ==
  ASSUME NEW S \in SUBSET Nat, S # {}
  PROVE  \E x \in S : \A y \in S : x <= y
<1> DEFINE R == {ss \in Nat \X Nat : ss[1] < ss[2]}
<1>1. IsWellFoundedOn(R, Nat)
  BY NatLessThanWellFounded, Zenon DEF OpToRel
<1>2. \E x \in S : \A y \in S : <<y, x>> \notin R
  BY <1>1, WFMin
<1>3. \A x, y \in Nat : <<y, x>> \notin R => x <= y
  OBVIOUS
<1>4. \A x \in S : x \in Nat
  OBVIOUS
<1> HIDE DEF R
<1> QED
  BY <1>2, <1>3, <1>4

LEMMA LeastOf ==
  ASSUME NEW S \in SUBSET Int, S # {}, NEW a \in Int, \A x \in S : a <= x
  PROVE  SetMin(S) \in S /\ \A y \in S : SetMin(S) <= y
<1> DEFINE T == {x - a : x \in S}
<1>1. T \in SUBSET Nat /\ T # {}
  <2>1. \A x \in S : x - a \in Nat
    OBVIOUS
  <2> QED
    BY <2>1
<1>2. PICK t \in T : \A u \in T : t <= u
  BY <1>1, NatHasLeast
<1>3. \E x \in S : \A y \in S : x <= y
  <2>1. PICK x \in S : t = x - a
    BY <1>2
  <2>2. ASSUME NEW y \in S PROVE x <= y
    <3>1. x - a <= y - a
      BY <1>2, <2>1
    <3> QED
      BY <3>1
  <2> QED
    BY <2>2
<1> QED
  BY <1>3 DEF SetMin

LEMMA GreatestOf ==
  ASSUME NEW S \in SUBSET Int, S # {}, NEW b \in Int, \A x \in S : x <= b
  PROVE  SetMax(S) \in S /\ \A y \in S : y <= SetMax(S)
<1> DEFINE T == {b - x : x \in S}
<1>1. T \in SUBSET Nat /\ T # {}
  <2>1. \A x \in S : b - x \in Nat
    OBVIOUS
  <2> QED
    BY <2>1
<1>2. PICK t \in T : \A u \in T : t <= u
  BY <1>1, NatHasLeast
<1>3. \E x \in S : \A y \in S : y <= x
  <2>1. PICK x \in S : t = b - x
    BY <1>2
  <2>2. ASSUME NEW y \in S PROVE y <= x
    <3>1. b - x <= b - y
      BY <1>2, <2>1
    <3> QED
      BY <3>1
  <2> QED
    BY <2>2
<1> QED
  BY <1>3 DEF SetMax

LEMMA IntegerFacts ==
  /\ MaxInt \in Nat \ {0} /\ MinInt = -MaxInt - 1
  /\ Below = MinInt - 1 /\ Above = MaxInt + 1
  /\ Keys \subseteq MinInt .. MaxInt /\ Pages \subseteq 0 .. MaxInt /\ 0 \in Pages
  /\ ChunkRows \in 1 .. MaxInt /\ TargetRows \in 1 .. MaxInt
  /\ Estimates \subseteq 0 .. MaxInt
BY SourcesAssumption DEF SourcesAssumption, MinInt, Below, Above

\* What fits into an integer is not changed; anything else becomes some integer.
LEMMA WrapFits ==
  ASSUME NEW x \in Int
  PROVE  /\ Wrap(x) \in MinInt .. MaxInt
         /\ x \in MinInt .. MaxInt => Wrap(x) = x
<1> DEFINE n == 2 * (MaxInt + 1)
           d == x - MinInt
<1>1. n \in Nat \ {0} /\ d \in Int /\ n = 2 * MaxInt + 2 /\ MaxInt \in Nat /\ MinInt = -MaxInt - 1
  BY IntegerFacts
<1> HIDE DEF n, d
<1>2. d % n \in 0 .. n - 1
  BY <1>1
<1>3. d \in 0 .. n - 1 => d % n = d
  BY <1>1
<1>4. Wrap(x) = (d % n) + MinInt
  BY DEF Wrap, n, d
<1>5. x = d + MinInt
  BY <1>1 DEF d
<1> QED
  BY <1>1, <1>2, <1>3, <1>4, <1>5

-----------------------------------------------------------------------------
(* The steps, connector by connector, as the few kinds they are.           *)

Selecting == {"mysql", "oracle", "sqlite", "clickhouse"} \cup Postgres
Walking == {"mssql", "db2", "mongodb", "dynamodb", "cassandra"}
Sorting == {"mssql", "db2", "mongodb"}
KeysetPostgres == {"postgres_keyset", "postgres_parent"}
Ranged == IntegerKeyed \cup KeysetPostgres

\* The step of a keyset plan from lo to hi.
StepOf(lo, hi, step) ==
    \/ conn \in IntegerKeyed /\ step = ChunkRows
    \/ conn \in KeysetPostgres /\ \E rows \in Estimates : step = KeysetStep(lo, hi, rows)

LoopStep ==
    /\ conn \in Ranged /\ Present # {}
    /\ \E step : /\ StepOf(SetMin(Present), SetMax(Present), step)
                 /\ StartLoop(SetMin(Present), SetMax(Present), step,
                              {[min |-> Below, max |-> SetMin(Present)]})

OneChunkStep == conn # "postgres_ctid" /\ OneChunk
SelectStep == conn \in Selecting /\ \E c \in left : SelectChunk(c)
WalkStep == conn \in Walking /\ ScanChunk
FailLoadStep == conn = "postgres_parent" /\ \E c \in left : FailLoad(c)
SelectIncrementStep == conn \in Selecting /\ SelectIncrement
SortStep == conn \in Sorting /\ (StartWalk \/ WalkAndSort)
FailPassStep == conn \in Incrementals /\ FailPass

LEMMA NextCases ==
  ASSUME Next
  PROVE  \/ \E k \in Keys : Write(k)
         \/ \E k \in Keys : Delete(k)
         \/ LoopStep \/ OneChunkStep \/ PageRanges \/ PlanStep \/ FinishPlan
         \/ SelectStep \/ FailLoadStep \/ WalkStep \/ ElasticsearchReadChunk
         \/ ObjectstoreReadChunk \/ RedisReadChunk
         \/ SelectIncrementStep \/ SortStep \/ CassandraReadIncrement
         \/ ElasticsearchReadIncrement \/ ObjectstoreReadIncrement \/ FailPassStep
<1>2. CASE SplitChunks
  <2>1. ASSUME NEW c \in IntegerKeyed, KeysetSplit(c) PROVE LoopStep \/ OneChunkStep
    <3>1. conn \in Ranged /\ conn # "postgres_ctid" /\ conn \in IntegerKeyed
      BY <2>1 DEF KeysetSplit, Ranged, IntegerKeyed
    <3>2. CASE OneChunk
      BY <3>1, <3>2 DEF OneChunkStep
    <3>3. CASE /\ Present # {}
               /\ StartLoop(SetMin(Present), SetMax(Present), ChunkRows,
                            {[min |-> Below, max |-> SetMin(Present)]})
      BY <3>1, <3>3, Zenon DEF LoopStep, StepOf
    <3> QED
      BY <2>1, <3>2, <3>3, Zenon DEF KeysetSplit
  <2>2. ASSUME SplitKeyset, conn \in KeysetPostgres PROVE LoopStep \/ OneChunkStep
    <3>1. conn \in Ranged /\ conn # "postgres_ctid"
      BY <2>2 DEF KeysetPostgres, Ranged
    <3>2. CASE OneChunk
      BY <3>1, <3>2 DEF OneChunkStep
    <3>3. CASE /\ Present # {}
               /\ \E rows \in Estimates :
                    StartLoop(SetMin(Present), SetMax(Present),
                              KeysetStep(SetMin(Present), SetMax(Present), rows),
                              {[min |-> Below, max |-> SetMin(Present)]})
      BY <2>2, <3>1, <3>3, Zenon DEF LoopStep, StepOf
    <3> QED
      BY <2>2, <3>2, <3>3, Zenon DEF SplitKeyset
  <2>3. ASSUME NEW c, c # "postgres_ctid", conn = c, OneChunk PROVE OneChunkStep
    BY <2>3 DEF OneChunkStep
  <2>4. {"mysql", "mssql", "oracle", "db2", "sqlite"} \subseteq IntegerKeyed
    BY DEF IntegerKeyed
  <2>5. MysqlSplitChunks \/ MssqlSplitChunks \/ OracleSplitChunks \/ Db2SplitChunks
          \/ SqliteSplitChunks => LoopStep \/ OneChunkStep
    BY <2>1, <2>4
       DEF MysqlSplitChunks, MssqlSplitChunks, OracleSplitChunks, Db2SplitChunks,
           SqliteSplitChunks
  <2>6. ClickhouseSplitChunks \/ MongodbSplitChunks \/ ElasticsearchSplitChunks
          \/ DynamodbSplitChunks \/ CassandraSplitChunks \/ ObjectstoreSplitChunks
          \/ RedisSplitChunks => OneChunkStep
    BY DEF ClickhouseSplitChunks, MongodbSplitChunks, ElasticsearchSplitChunks,
           DynamodbSplitChunks, CassandraSplitChunks, ObjectstoreSplitChunks,
           RedisSplitChunks, OneChunkStep
  <2>7. PostgresSplitKeyset => LoopStep \/ OneChunkStep
    BY <2>2 DEF PostgresSplitKeyset, KeysetPostgres
  <2>8. PostgresSplitCTID => PageRanges \/ LoopStep \/ OneChunkStep
    BY <2>2 DEF PostgresSplitCTID, KeysetPostgres, OneChunkStep
  <2> QED
    BY <1>2, <2>5, <2>6, <2>7, <2>8, Zenon DEF SplitChunks
<1>3. CASE ReadChunk
  <2>1. MysqlReadChunk \/ OracleReadChunk \/ SqliteReadChunk \/ ClickhouseReadChunk
          => SelectStep
    BY DEF MysqlReadChunk, OracleReadChunk, SqliteReadChunk, ClickhouseReadChunk,
           SelectStep, Selecting
  <2>3. PostgresReadChunk => SelectStep \/ FailLoadStep
    BY DEF PostgresReadChunk, ReadsAsPages, Postgres, SelectStep, FailLoadStep, Selecting
  <2>2. MssqlReadChunk \/ Db2ReadChunk \/ MongodbReadChunk \/ DynamodbReadChunk
          \/ CassandraReadChunk => WalkStep
    BY DEF MssqlReadChunk, Db2ReadChunk, MongodbReadChunk, DynamodbReadChunk,
           CassandraReadChunk, WalkStep, Walking
  <2> QED
    BY <1>3, <2>1, <2>2, <2>3, Zenon DEF ReadChunk
<1>4. CASE ReadIncrement
  <2>1. MysqlReadIncrement \/ OracleReadIncrement \/ SqliteReadIncrement
          \/ ClickhouseReadIncrement \/ PostgresReadIncrement => SelectIncrementStep
    BY DEF MysqlReadIncrement, OracleReadIncrement, SqliteReadIncrement,
           ClickhouseReadIncrement, PostgresReadIncrement, SelectIncrementStep, Selecting
  <2>2. MssqlReadIncrement \/ Db2ReadIncrement \/ MongodbReadIncrement => SortStep
    BY DEF MssqlReadIncrement, Db2ReadIncrement, MongodbReadIncrement, SortStep, Sorting
  <2> QED
    BY <1>4, <2>1, <2>2, Zenon DEF ReadIncrement, FailPassStep
<1> QED
  BY <1>2, <1>3, <1>4, Zenon DEF Next

-----------------------------------------------------------------------------
(* Types: no cursor value is above the clock.                              *)

\* The rows' versions up to clock value n.
VersionsTo(n) == Keys \X (0 .. n)

ScanType(n) ==
    [chunk : Chunk, pos : Below .. MaxInt, item : {<<>>} \cup VersionsTo(n),
     view : SUBSET VersionsTo(n), newest : 0 .. n, open : BOOLEAN]

PlanType == [lo : MinInt .. MaxInt, first : MinInt .. MaxInt, hi : MinInt .. MaxInt,
             step : MinInt .. MaxInt, last : Chunk]

Types ==
    /\ conn \in Connectors /\ cursorType \in {"number", "time"}
    /\ server \in {"converts", "refuses", "byDay"}
    /\ clock \in 1 .. MaxWrites + 1
    /\ cur \in [Keys -> 0 .. clock] /\ page \in [Keys -> Pages]
    /\ phase \in {"split", "plan", "load", "loaded", "idle", "increment", "failed"}
    /\ watermark \in 0 .. clock
    /\ plan \in PlanType
    /\ chunks \subseteq Chunk /\ left \subseteq chunks
    /\ phase \in {"split", "plan"} => left = {}
    /\ scan \in ScanType(clock) /\ emitted \subseteq VersionsTo(clock)
    /\ loads \in [Keys -> 0 .. 2] /\ touched \subseteq Keys
    /\ quiet \in BOOLEAN /\ overlapped \in BOOLEAN
    /\ passes \in 0 .. MaxPasses

LEMMA TypesImply == Types => TypeOK
<1> SUFFICES ASSUME Types PROVE TypeOK
  OBVIOUS
<1>1. MaxWrites \in Nat
  BY SourcesAssumption DEF SourcesAssumption
<1>2. 0 .. clock \subseteq 0 .. MaxWrites + 1
  BY <1>1 DEF Types
<1>3. VersionsTo(clock) \subseteq Versions
  BY <1>2 DEF VersionsTo, Versions
<1>4. scan.view \subseteq VersionsTo(clock)
  BY DEF Types, ScanType
<1> QED
  BY <1>2, <1>3, <1>4 DEF Types, TypeOK, PlanType

LEMMA BoundFacts ==
  /\ WholeTable \in Chunk /\ NoPlan \in PlanType
  /\ MinInt \in Int /\ MaxInt \in Int /\ Below \in Int /\ Above \in Int
  /\ MinInt .. MaxInt \subseteq Below .. Above
<1>1. WholeTable \in Chunk
  BY IntegerFacts DEF WholeTable, Chunk
<1> QED
  BY <1>1, IntegerFacts DEF NoPlan, PlanType

LEMMA NoScanType == ASSUME NEW n \in Nat PROVE NoScan \in ScanType(n)
BY BoundFacts, IntegerFacts DEF NoScan, ScanType, VersionsTo

\* What the clock admits it admits later.
LEMMA LaterTypes ==
  ASSUME NEW n \in Nat
  PROVE  /\ 0 .. n \subseteq 0 .. n + 1
         /\ VersionsTo(n) \subseteq VersionsTo(n + 1)
         /\ ScanType(n) \subseteq ScanType(n + 1)
<1>1. 0 .. n \subseteq 0 .. n + 1
  OBVIOUS
<1>2. VersionsTo(n) \subseteq VersionsTo(n + 1)
  BY <1>1 DEF VersionsTo
<1>3. ASSUME NEW s \in ScanType(n) PROVE s \in ScanType(n + 1)
  <2> DEFINE items(m) == {<<>>} \cup VersionsTo(m)
             views(m) == SUBSET VersionsTo(m)
             stamps(m) == 0 .. m
  <2>1. items(n) \subseteq items(n + 1) /\ views(n) \subseteq views(n + 1)
        /\ stamps(n) \subseteq stamps(n + 1)
    BY <1>1, <1>2
  <2>2. s \in [chunk : Chunk, pos : Below .. MaxInt, item : items(n), view : views(n),
               newest : stamps(n), open : BOOLEAN]
    BY <1>3 DEF ScanType
  <2>3. s \in [chunk : Chunk, pos : Below .. MaxInt, item : items(n + 1), view : views(n + 1),
               newest : stamps(n + 1), open : BOOLEAN]
    <3> HIDE DEF items, views, stamps
    <3> QED
      BY <2>1, <2>2
  <2> QED
    BY <2>3 DEF ScanType
<1> QED
  BY <1>1, <1>2, <1>3

LEMMA ClockIsNat == Types => clock \in Nat /\ 0 \in 0 .. clock
BY SourcesAssumption DEF SourcesAssumption, Types

LEMMA VersionType ==
  ASSUME Types, NEW k \in Keys
  PROVE  Version(k) \in VersionsTo(clock) /\ Version(k)[1] = k /\ Version(k)[2] = cur[k]
BY DEF Types, Version, VersionsTo

LEMMA PresentFacts ==
  /\ Present \subseteq Keys
  /\ \A k \in Keys : k \in MinInt .. MaxInt /\ k \in Below .. MaxInt
  /\ \A S : S \subseteq Keys /\ S # {} =>
        /\ SetMin(S) \in S /\ \A k \in S : SetMin(S) <= k
        /\ SetMax(S) \in S /\ \A k \in S : k <= SetMax(S)
<1>1. ASSUME NEW S, S \subseteq Keys, S # {}
      PROVE  /\ SetMin(S) \in S /\ \A k \in S : SetMin(S) <= k
             /\ SetMax(S) \in S /\ \A k \in S : k <= SetMax(S)
  <2>1. S \in SUBSET Int /\ \A k \in S : MinInt <= k /\ k <= MaxInt
    BY <1>1, IntegerFacts
  <2> QED
    BY <1>1, <2>1, LeastOf, GreatestOf, BoundFacts
<1> QED
  BY <1>1, IntegerFacts DEF Present

\* The newest of some cursor values, 0 among them.
LEMMA NewestOf ==
  ASSUME NEW n \in Nat, NEW S, S \subseteq 0 .. n, S # {}
  PROVE  SetMax(S) \in S /\ SetMax(S) \in 0 .. n /\ \A x \in S : x <= SetMax(S)
<1>1. S \in SUBSET Int /\ n \in Int /\ \A x \in S : x <= n
  OBVIOUS
<1>2. SetMax(S) \in S /\ \A x \in S : x <= SetMax(S)
  BY <1>1, GreatestOf
<1> QED
  BY <1>2

LEMMA InitTypes == Init => Types
<1> SUFFICES ASSUME Init PROVE Types
  OBVIOUS
<1>1. MaxWrites \in Nat /\ MaxPasses \in Nat
  BY SourcesAssumption DEF SourcesAssumption
<1>2. cur \in [Keys -> 0 .. clock] /\ page \in [Keys -> Pages]
  BY IntegerFacts DEF Init
<1>3. NoScan \in ScanType(1) /\ NoPlan \in PlanType
  BY NoScanType, BoundFacts
<1>4. clock \in 1 .. MaxWrites + 1 /\ 0 \in 0 .. clock /\ 0 \in 0 .. MaxPasses
  BY <1>1 DEF Init
<1>5. clock = 1 /\ scan = NoScan /\ plan = NoPlan
  BY DEF Init
<1>6. scan \in ScanType(clock) /\ plan \in PlanType
  BY <1>3, <1>5
<1>7. loads \in [Keys -> 0 .. 2]
  BY DEF Init
<1>8. conn \in Connectors /\ cursorType \in {"number", "time"} /\ watermark \in 0 .. clock
      /\ server \in {"converts", "refuses", "byDay"}
      /\ phase \in {"split", "idle"} /\ chunks = {} /\ left = {} /\ emitted = {} /\ touched = {}
      /\ quiet \in BOOLEAN /\ overlapped \in BOOLEAN /\ passes \in 0 .. MaxPasses
  BY <1>4 DEF Init
<1> QED
  BY <1>2, <1>4, <1>6, <1>7, <1>8 DEF Types

LEMMA WriteTypes ==
  ASSUME Types, NEW k \in Keys, Write(k) \/ Delete(k)
  PROVE  Types'
<1>1. /\ clock \in Nat /\ clock' = clock + 1 /\ clock' \in 1 .. MaxWrites + 1
  BY SourcesAssumption DEF SourcesAssumption, Types, Write, Delete
<1>2. /\ 0 .. clock \subseteq 0 .. clock' /\ VersionsTo(clock) \subseteq VersionsTo(clock')
      /\ ScanType(clock) \subseteq ScanType(clock')
  BY <1>1, LaterTypes
<1>3. cur' \in [Keys -> 0 .. clock']
  <2>1. cur \in [Keys -> 0 .. clock'] /\ 0 \in 0 .. clock' /\ clock + 1 \in 0 .. clock'
    BY <1>1, <1>2 DEF Types
  <2> QED
    BY <2>1 DEF Write, Delete
<1>4. page' \in [Keys -> Pages]
  BY IntegerFacts DEF Types, Write, Delete
<1>5. /\ touched' \subseteq Keys /\ quiet' \in BOOLEAN /\ overlapped' \in BOOLEAN
      /\ UNCHANGED <<conn, cursorType, server, phase, watermark, plan, chunks, left,
                     scan, emitted, loads, passes>>
  BY DEF Types, Write, Delete, RecordWrite
<1> QED
  BY <1>1, <1>2, <1>3, <1>4, <1>5 DEF Types

LEMMA QuotientBound ==
  ASSUME NEW a \in MinInt .. MaxInt, NEW b \in Nat, b >= 2
  PROVE  Quotient(a, b) \in MinInt .. MaxInt
<1>1. ASSUME NEW x \in Nat PROVE x \div b \in 0 .. x
  BY <1>1
<1>2. CASE a >= 0
  <2>1. a \in Nat
    BY <1>2, IntegerFacts
  <2>2. a \div b \in 0 .. a
    BY <1>1, <2>1
  <2> QED
    BY <1>2, <2>2, IntegerFacts DEF Quotient
<1>3. CASE ~(a >= 0)
  <2>1. -a \in Nat
    BY <1>3, IntegerFacts
  <2>2. (-a) \div b \in 0 .. -a
    BY <1>1, <2>1
  <2> QED
    BY <1>3, <2>2, IntegerFacts DEF Quotient
<1> QED
  BY <1>2, <1>3

\* The step is an integer, and positive whenever the span of postgres fits.
LEMMA StepFacts ==
  ASSUME NEW lo \in MinInt .. MaxInt, NEW hi \in MinInt .. MaxInt, lo <= hi,
         NEW step, StepOf(lo, hi, step)
  PROVE  /\ step \in MinInt .. MaxInt
         /\ (conn \in KeysetPostgres => hi - lo < MaxInt) => step >= 1
<1>1. CASE conn \in IntegerKeyed /\ step = ChunkRows
  BY <1>1, IntegerFacts
<1>2. CASE conn \in KeysetPostgres /\ \E rows \in Estimates : step = KeysetStep(lo, hi, rows)
  <2>1. PICK rows \in Estimates : step = KeysetStep(lo, hi, rows)
    BY <1>2
  <2> DEFINE span == Wrap(hi - lo + 1)
             product == span * TargetRows
             most == Quotient(Wrap(product), rows)
  <2>2. span \in MinInt .. MaxInt /\ (hi - lo < MaxInt => span >= 1)
    <3>1. hi - lo + 1 \in Int /\ (hi - lo < MaxInt => hi - lo + 1 \in 1 .. MaxInt)
      BY IntegerFacts
    <3>2. 1 .. MaxInt \subseteq MinInt .. MaxInt
      BY IntegerFacts
    <3> QED
      BY <3>1, <3>2, WrapFits
  <2>3. product \in Int
    BY <2>2, IntegerFacts
  <2>4. Wrap(product) \in MinInt .. MaxInt
    <3> HIDE DEF product
    <3> QED
      BY <2>3, WrapFits
  <2>5. rows > TargetRows => most \in MinInt .. MaxInt
    <3>1. rows > TargetRows => rows \in Nat /\ rows >= 2
      BY IntegerFacts
    <3> QED
      BY <2>4, <3>1, QuotientBound
  <2>6. step = IF rows > TargetRows THEN (IF most < 1 THEN 1 ELSE most) ELSE span
    BY <2>1, Zenon DEF KeysetStep
  <2>7. conn \in KeysetPostgres /\ 1 \in MinInt .. MaxInt
    BY <1>2, IntegerFacts
  <2> HIDE DEF span, most
  <2>8. step \in MinInt .. MaxInt
    BY <2>2, <2>5, <2>6, <2>7
  <2>9. span >= 1 => step >= 1
    <3>1. CASE rows > TargetRows
      BY <2>5, <2>6, <3>1, IntegerFacts
    <3>2. CASE ~(rows > TargetRows)
      BY <2>6, <3>2
    <3> QED
      BY <3>1, <3>2
  <2> QED
    BY <2>2, <2>7, <2>8, <2>9
<1> QED
  BY <1>1, <1>2 DEF StepOf

LEMMA PlanTypes ==
  ASSUME Types, LoopStep \/ OneChunkStep \/ PageRanges \/ PlanStep \/ FinishPlan
  PROVE  Types'
<1> DEFINE kept == UNCHANGED <<conn, cursorType, server, source, watermark, scan, emitted, loads,
                               history, passes>>
<1>1. ASSUME NEW S, S \subseteq Chunk, Planned(S), UNCHANGED plan, kept PROVE Types'
  BY <1>1 DEF Planned, Types, source, history
<1>2. CASE LoopStep
  <2> DEFINE lo == SetMin(Present)
             hi == SetMax(Present)
  <2>1. lo \in MinInt .. MaxInt /\ hi \in MinInt .. MaxInt /\ lo <= hi
    BY <1>2, PresentFacts DEF LoopStep
  <2> HIDE DEF lo, hi
  <2>2. PICK step : /\ StepOf(lo, hi, step)
                    /\ StartLoop(lo, hi, step, {[min |-> Below, max |-> lo]})
    BY <1>2, Zenon DEF LoopStep, lo, hi
  <2>3. step \in MinInt .. MaxInt
    BY <2>1, <2>2, StepFacts
  <2>4. [min |-> Below, max |-> lo] \in Chunk
    BY <2>1, IntegerFacts DEF Chunk
  <2>5. left = {} /\ left' = left
    BY <2>2 DEF StartLoop, Types
  <2>6. plan' \in PlanType
    BY <2>1, <2>2, <2>3, BoundFacts DEF StartLoop, PlanType
  <2> QED
    BY <2>2, <2>4, <2>5, <2>6 DEF StartLoop, Types, source, history
<1>3. CASE OneChunkStep
  BY <1>1, <1>3, BoundFacts DEF OneChunkStep, OneChunk
<1>4. CASE PageRanges
  <2>1. PICK relpages \in {0} \cup {p + 1 : p \in Pages} :
          Planned(IF relpages = 0
                  THEN {[min |-> 0, max |-> Above]}
                  ELSE {[min |-> p, max |-> IF p = relpages - 1 THEN Above
                                            ELSE p + 1] : p \in 0 .. relpages - 1})
    BY <1>4 DEF PageRanges
  <2>2. [min |-> 0, max |-> Above] \in Chunk
    BY IntegerFacts DEF Chunk
  <2>3. relpages - 1 \in Int /\ relpages - 1 <= MaxInt
    BY IntegerFacts
  <2>4. ASSUME NEW p \in 0 .. relpages - 1
        PROVE  [min |-> p, max |-> IF p = relpages - 1 THEN Above ELSE p + 1] \in Chunk
    BY <2>3, IntegerFacts DEF Chunk
  <2> QED
    BY <1>1, <1>4, <2>1, <2>2, <2>4 DEF PageRanges
<1>5. CASE PlanStep
  <2> DEFINE hi == Wrap(plan.lo + plan.step)
             c == [min |-> plan.lo, max |-> hi]
  <2>1. hi \in MinInt .. MaxInt
    BY IntegerFacts, WrapFits DEF Types, PlanType
  <2>2. plan.lo \in MinInt .. MaxInt
    BY DEF Types, PlanType
  <2> HIDE DEF hi
  <2>3. c \in Chunk
    BY <2>1, <2>2, BoundFacts DEF Chunk
  <2>4. /\ chunks' = chunks \cup {c}
        /\ plan' = [plan EXCEPT !.lo = hi, !.last = c]
        /\ UNCHANGED <<conn, cursorType, server, source, phase, watermark, left, scan,
                       emitted, loads, history, passes>>
    BY <1>5, Zenon DEF PlanStep, hi
  <2> HIDE DEF c
  <2>5. plan' \in PlanType
    <3>1. [plan EXCEPT !.lo = hi] \in PlanType
      BY <2>1 DEF Types, PlanType
    <3> QED
      BY <2>3, <2>4, <3>1 DEF PlanType
  <2> QED
    BY <2>3, <2>4, <2>5 DEF Types, source, history
<1>6. CASE FinishPlan
  <2>1. [plan.last EXCEPT !.max = Above] \in Chunk
    BY BoundFacts, IntegerFacts DEF Types, PlanType, Chunk
  <2>2. (chunks \ {plan.last}) \cup {[plan.last EXCEPT !.max = Above]} \subseteq Chunk
    BY <2>1 DEF Types
  <2> QED
    BY <1>1, <1>6, <2>2 DEF FinishPlan
<1> QED
  BY <1>2, <1>3, <1>4, <1>5, <1>6

LEMMA DeliverTypes ==
  ASSUME Types, NEW V, V \subseteq VersionsTo(clock), Deliver(V)
  PROVE  emitted' \subseteq VersionsTo(clock) /\ loads' \in [Keys -> 0 .. 2]
<1>1. \A k \in Keys : loads[k] \in 0 .. 2 /\ (loads[k] < 2 => loads[k] + 1 \in 0 .. 2)
  BY DEF Types
<1> QED
  BY <1>1 DEF Types, Deliver

LEMMA EndOfChunkTypes ==
  ASSUME Types, NEW c, EndOfChunk(c)
  PROVE  /\ left' \subseteq chunks /\ scan' \in ScanType(clock)
         /\ phase' \in {"loaded", "load"}
  BY NoScanType DEF Types, EndOfChunk

\* A step that opens a read, goes on with it, delivers or ends it.
LEMMA ReadStepTypes ==
  ASSUME Types,
         UNCHANGED <<conn, cursorType, server, source, plan, chunks, touched, overlapped>>,
         phase \in {"load", "idle", "increment"},
         phase' \in {"load", "loaded", "idle", "increment", "failed"},
         left' \subseteq chunks, scan' \in ScanType(clock), watermark' \in 0 .. clock,
         emitted' \subseteq VersionsTo(clock), loads' \in [Keys -> 0 .. 2],
         quiet' \in BOOLEAN, passes' \in 0 .. MaxPasses
  PROVE  Types'
BY DEF Types, source

LEMMA SelectTypes == ASSUME Types, SelectStep PROVE Types'
<1>1. PICK c \in left : SelectChunk(c)
  BY DEF SelectStep
<1>2. {Version(k) : k \in {j \in Present : InChunk(j, c)}} \subseteq VersionsTo(clock)
  BY VersionType, PresentFacts
<1>3. emitted' \subseteq VersionsTo(clock) /\ loads' \in [Keys -> 0 .. 2]
  BY <1>1, <1>2, DeliverTypes DEF SelectChunk
<1>4. left' \subseteq chunks /\ scan' \in ScanType(clock) /\ phase' \in {"loaded", "load"}
  BY <1>1, EndOfChunkTypes DEF SelectChunk
<1>5. /\ phase = "load"
      /\ UNCHANGED <<conn, cursorType, server, source, watermark, plan, chunks, history, passes>>
  BY <1>1 DEF SelectChunk
<1> QED
  BY <1>3, <1>4, <1>5, ReadStepTypes DEF Types, history

LEMMA OpenScanType ==
  ASSUME NEW n \in Nat, NEW c \in Chunk, NEW V \in SUBSET VersionsTo(n), NEW w \in 0 .. n
  PROVE  /\ [NoScan EXCEPT !.chunk = c, !.open = TRUE] \in ScanType(n)
         /\ [NoScan EXCEPT !.open = TRUE, !.newest = w] \in ScanType(n)
         /\ [NoScan EXCEPT !.view = V, !.open = TRUE, !.newest = w] \in ScanType(n)
<1>1. NoScan \in ScanType(n)
  BY NoScanType
<1>2. [NoScan EXCEPT !.chunk = c] \in ScanType(n)
  BY <1>1 DEF ScanType
<1>3. [NoScan EXCEPT !.open = TRUE] \in ScanType(n)
  BY <1>1 DEF ScanType
<1>4. [NoScan EXCEPT !.view = V] \in ScanType(n)
  BY <1>1 DEF ScanType
<1>5. [NoScan EXCEPT !.view = V, !.open = TRUE] \in ScanType(n)
  BY <1>4 DEF ScanType
<1> QED
  BY <1>2, <1>3, <1>5 DEF ScanType

\* The fields of a scan just opened.
LEMMA OpenScanFields ==
  ASSUME NEW c, NEW V, NEW w
  PROVE  /\ LET s == [NoScan EXCEPT !.chunk = c, !.open = TRUE]
            IN s.chunk = c /\ s.open /\ s.pos = Below /\ s.item = <<>> /\ s.view = {}
         /\ LET s == [NoScan EXCEPT !.open = TRUE, !.newest = w]
            IN s.newest = w /\ s.open /\ s.pos = Below /\ s.item = <<>> /\ s.view = {}
         /\ LET s == [NoScan EXCEPT !.view = V, !.open = TRUE, !.newest = w]
            IN s.view = V /\ s.newest = w /\ s.open
BY DEF NoScan

LEMMA AheadType ==
  ASSUME Types, NEW S, S \subseteq Present, S # {}
  PROVE  SetMin(S) \in Present /\ SetMin(S) \in Keys /\ SetMin(S) \in Below .. MaxInt
BY PresentFacts

LEMMA WalkTypes == ASSUME Types, WalkStep PROVE Types'
<1>1. clock \in Nat /\ phase = "load"
  BY ClockIsNat DEF WalkStep, ScanChunk, OpenScan, WalkChunk
<1>2. ASSUME NEW c \in left, OpenScan(c) PROVE Types'
  <2>1. scan' \in ScanType(clock)
    BY <1>1, <1>2, OpenScanType DEF OpenScan, Types, VersionsTo
  <2> QED
    BY <1>1, <1>2, <2>1, ReadStepTypes DEF OpenScan, Types, history
<1>3. CASE WalkChunk
  <2>1. UNCHANGED <<conn, cursorType, server, source, watermark, plan, chunks, history, passes>>
    BY <1>3 DEF WalkChunk
  <2>2. CASE Ahead = {}
    <3>1. EndOfChunk(scan.chunk) /\ UNCHANGED <<emitted, loads>>
      BY <1>3, <2>2 DEF WalkChunk
    <3>2. left' \subseteq chunks /\ scan' \in ScanType(clock) /\ phase' \in {"loaded", "load"}
      BY <3>1, EndOfChunkTypes
    <3> QED
      BY <1>1, <2>1, <3>1, <3>2, ReadStepTypes DEF Types, history
  <2>3. CASE Ahead # {}
    <3> DEFINE k == SetMin(Ahead)
    <3>1. /\ Deliver({Version(k)}) /\ scan' = [scan EXCEPT !.pos = k]
          /\ UNCHANGED <<phase, left>>
      BY <1>3, <2>3 DEF WalkChunk
    <3>2. k \in Keys /\ k \in Below .. MaxInt
      BY <2>3, AheadType DEF Ahead
    <3> HIDE DEF k
    <3>3. emitted' \subseteq VersionsTo(clock) /\ loads' \in [Keys -> 0 .. 2]
      BY <3>1, <3>2, DeliverTypes, VersionType
    <3>4. scan' \in ScanType(clock)
      BY <3>1, <3>2 DEF Types, ScanType
    <3> QED
      BY <1>1, <2>1, <3>1, <3>3, <3>4, ReadStepTypes DEF Types, history
  <2> QED
    BY <2>2, <2>3
<1> QED
  BY <1>2, <1>3 DEF WalkStep, ScanChunk

LEMMA PageTypes ==
  ASSUME Types, NEW done, NEW end, ScanSearchAfter(done, end), phase \in {"load", "increment"},
         done \in {"loaded", "idle"},
         \A n \in 0 .. clock : end[n] \in 0 .. clock
  PROVE  Types'
<1> DEFINE hits == Page(scan.view)
           last == IF hits = {} THEN scan.newest ELSE SetMax({v[2] : v \in hits})
<1>1. scan.view \subseteq VersionsTo(clock) /\ scan.newest \in 0 .. clock /\ hits \subseteq scan.view
  BY DEF Types, ScanType, Page
<1>2. last \in 0 .. clock
  <2>1. {v[2] : v \in hits} \subseteq 0 .. clock
    BY <1>1 DEF VersionsTo
  <2>2. hits # {} => {v[2] : v \in hits} # {}
    OBVIOUS
  <2> QED
    BY <1>1, <2>1, <2>2, ClockIsNat, NewestOf
<1>3. /\ Deliver(hits)
      /\ UNCHANGED <<conn, cursorType, server, source, plan, chunks, history, passes>>
      /\ \/ /\ left' = left \ {WholeTable} /\ phase' = done /\ scan' = NoScan
            /\ watermark' = end[last]
         \/ /\ scan' = [scan EXCEPT !.view = SearchAfter(@), !.newest = last]
            /\ UNCHANGED <<left, phase, watermark>>
  BY Zenon DEF ScanSearchAfter
<1> HIDE DEF hits, last
<1>4. emitted' \subseteq VersionsTo(clock) /\ loads' \in [Keys -> 0 .. 2]
  BY <1>1, <1>3, DeliverTypes
<1>5. CASE /\ left' = left \ {WholeTable} /\ phase' = done /\ scan' = NoScan
           /\ watermark' = end[last]
  BY <1>2, <1>3, <1>4, <1>5, NoScanType, ClockIsNat, ReadStepTypes DEF Types, history
<1>6. CASE /\ scan' = [scan EXCEPT !.view = SearchAfter(@), !.newest = last]
           /\ UNCHANGED <<left, phase, watermark>>
  <2> DEFINE rest == SearchAfter(scan.view)
  <2>1. rest \in SUBSET VersionsTo(clock)
    BY <1>1 DEF SearchAfter
  <2>2. scan' = [scan EXCEPT !.view = rest, !.newest = last]
    BY <1>6
  <2> HIDE DEF rest
  <2>3. [scan EXCEPT !.view = rest] \in ScanType(clock)
    BY <2>1 DEF Types, ScanType
  <2>4. scan' \in ScanType(clock)
    BY <1>2, <2>2, <2>3 DEF ScanType
  <2> QED
    BY <1>3, <1>4, <1>6, <2>4, ReadStepTypes DEF Types, history
<1> QED
  BY <1>3, <1>5, <1>6

LEMMA VersionsOf ==
  ASSUME Types, NEW S, S \subseteq Present
  PROVE  {Version(k) : k \in S} \in SUBSET VersionsTo(clock)
BY VersionType, PresentFacts

LEMMA ElasticsearchTypes ==
  ASSUME Types, ElasticsearchReadChunk \/ ElasticsearchReadIncrement
  PROVE  Types'
<1>1. ASSUME NEW S, S \subseteq Present, OpenPIT({Version(k) : k \in S})
      PROVE  scan' \in ScanType(clock)
  <2>1. {Version(k) : k \in S} \in SUBSET VersionsTo(clock)
    BY <1>1, VersionsOf
  <2>2. watermark \in 0 .. clock /\ WholeTable \in Chunk
    BY BoundFacts DEF Types
  <2> QED
    BY <1>1, <2>1, <2>2, ClockIsNat, OpenScanType DEF OpenPIT
<1>2. ASSUME ElasticsearchReadChunk, OpenPIT({Version(k) : k \in Present}),
             UNCHANGED <<conn, cursorType, server, source, phase, watermark, plan,
                         chunks, left, emitted, loads, history, passes>>
      PROVE  Types'
  BY <1>1, <1>2, ReadStepTypes DEF ElasticsearchReadChunk, Types, history
<1>3. ASSUME ElasticsearchReadChunk, ScanSearchAfter("loaded", [c \in 0 .. clock |-> watermark])
      PROVE  Types'
  <2>1. phase = "load" /\ watermark \in 0 .. clock
    BY <1>3 DEF ElasticsearchReadChunk, Types
  <2> QED
    BY <1>3, <2>1, PageTypes
<1>4. ASSUME OpenPass, OpenPIT({Version(k) : k \in {j \in Present : Newer(j)}}) PROVE Types'
  <2>1. scan' \in ScanType(clock)
    BY <1>1, <1>4
  <2> QED
    BY <1>4, <2>1, ReadStepTypes, SourcesAssumption
       DEF OpenPass, BeginPass, Types, SourcesAssumption
<1>5. ASSUME phase = "increment", ScanSearchAfter("idle", [c \in 0 .. clock |-> c]) PROVE Types'
  BY <1>5, PageTypes
<1> QED
  BY <1>2, <1>3, <1>4, <1>5, Zenon DEF ElasticsearchReadChunk, ElasticsearchReadIncrement

LEMMA ObjectTypes ==
  ASSUME Types, phase \in {"load", "increment"}, ListObject \/ ReadObject
  PROVE  Types'
<1>1. CASE ListObject
  <2> DEFINE k == SetMin(Unlisted)
             item == IF phase = "load" \/ Newer(k) THEN Version(k) ELSE <<>>
  <2>1. /\ Unlisted # {} /\ scan' = [scan EXCEPT !.pos = k, !.item = item]
        /\ UNCHANGED <<conn, cursorType, server, source, phase, watermark, plan, chunks,
                       left, emitted, loads, history, passes>>
    BY <1>1, Zenon DEF ListObject
  <2>2. k \in Keys /\ k \in Below .. MaxInt
    BY <2>1, AheadType DEF Unlisted
  <2> HIDE DEF k
  <2>3. item \in {<<>>} \cup VersionsTo(clock)
    BY <2>2, VersionType
  <2> HIDE DEF item
  <2>4. [scan EXCEPT !.pos = k] \in ScanType(clock)
    BY <2>2 DEF Types, ScanType
  <2>5. scan' \in ScanType(clock)
    BY <2>1, <2>3, <2>4 DEF ScanType
  <2> QED
    BY <2>1, <2>5, ReadStepTypes DEF Types, history
<1>2. CASE ReadObject
  <2> DEFINE k == scan.item[1]
             m == SetMax({scan.newest, scan.item[2]})
  <2>1. /\ scan.item # <<>>
        /\ UNCHANGED <<conn, cursorType, server, source, watermark, plan, chunks, left,
                       history, passes>>
        /\ \/ /\ Deliver({Version(k)})
              /\ scan' = [scan EXCEPT !.item = <<>>, !.newest = m]
              /\ UNCHANGED phase
           \/ phase' = "failed" /\ scan' = NoScan /\ UNCHANGED <<emitted, loads>>
    BY <1>2, Zenon DEF ReadObject
  <2>2. k \in Keys /\ scan.item[2] \in 0 .. clock /\ scan.newest \in 0 .. clock
    BY <2>1 DEF Types, ScanType, VersionsTo
  <2>3. m \in 0 .. clock
    <3>1. {scan.newest, scan.item[2]} \subseteq 0 .. clock
      BY <2>2
    <3> QED
      BY <3>1, ClockIsNat, NewestOf
  <2> HIDE DEF k, m
  <2>4. ASSUME Deliver({Version(k)}), scan' = [scan EXCEPT !.item = <<>>, !.newest = m],
               UNCHANGED phase
        PROVE  Types'
    <3>1. emitted' \subseteq VersionsTo(clock) /\ loads' \in [Keys -> 0 .. 2]
      BY <2>2, <2>4, DeliverTypes, VersionType
    <3>2. [scan EXCEPT !.item = <<>>] \in ScanType(clock)
      BY DEF Types, ScanType
    <3>3. scan' \in ScanType(clock)
      BY <2>3, <2>4, <3>2 DEF ScanType
    <3> QED
      BY <2>1, <2>4, <3>1, <3>3, ReadStepTypes DEF Types, history
  <2>5. ASSUME phase' = "failed", scan' = NoScan, UNCHANGED <<emitted, loads>> PROVE Types'
    BY <2>1, <2>5, ClockIsNat, NoScanType, ReadStepTypes DEF Types, history
  <2> QED
    BY <2>1, <2>4, <2>5
<1> QED
  BY <1>1, <1>2

LEMMA OpenScanTypes ==
  ASSUME Types, NEW c \in left, OpenScan(c)
  PROVE  Types'
<1>1. scan' \in ScanType(clock)
  BY ClockIsNat, OpenScanType DEF OpenScan, Types, VersionsTo
<1> QED
  BY <1>1, ReadStepTypes DEF OpenScan, Types, history

LEMMA EndScanTypes ==
  ASSUME Types, phase = "load", NEW c, EndOfChunk(c),
         UNCHANGED <<conn, cursorType, server, source, watermark, plan, chunks,
                     emitted, loads, history, passes>>
  PROVE  Types'
<1>1. left' \subseteq chunks /\ scan' \in ScanType(clock) /\ phase' \in {"loaded", "load"}
  BY EndOfChunkTypes
<1> QED
  BY <1>1, ReadStepTypes DEF Types, history

LEMMA ObjectstoreTypes ==
  ASSUME Types, ObjectstoreReadChunk
  PROVE  Types'
<1>1. phase = "load"
  BY DEF ObjectstoreReadChunk
<1> QED
  BY <1>1, OpenScanTypes, ObjectTypes, EndScanTypes, Zenon DEF ObjectstoreReadChunk

LEMMA RedisTypes ==
  ASSUME Types, RedisReadChunk
  PROVE  Types'
<1>1. phase = "load"
  BY DEF RedisReadChunk
<1>2. CASE ScanAndType
  <2> DEFINE item(k) == IF k \in Present THEN Version(k) ELSE <<>>
             seen(k) == scan.view \cup {<<k, 0>>}
  <2>1. PICK k \in Keys : scan' = [scan EXCEPT !.view = seen(k), !.item = item(k)]
    BY <1>2 DEF ScanAndType
  <2>2. UNCHANGED <<conn, cursorType, server, source, phase, watermark, plan, chunks,
                    left, emitted, loads, history, passes>>
    BY <1>2 DEF ScanAndType
  <2>3. seen(k) \in SUBSET VersionsTo(clock)
    BY ClockIsNat DEF Types, ScanType, VersionsTo
  <2>4. item(k) \in {<<>>} \cup VersionsTo(clock)
    BY VersionType
  <2> HIDE DEF item, seen
  <2>5. [scan EXCEPT !.view = seen(k)] \in ScanType(clock)
    BY <2>3 DEF Types, ScanType
  <2>6. scan' \in ScanType(clock)
    BY <2>1, <2>4, <2>5 DEF ScanType
  <2> QED
    BY <1>1, <2>2, <2>6, ReadStepTypes DEF Types, history
<1>3. CASE ReadValue
  <2> DEFINE k == scan.item[1]
  <2>1. scan.item # <<>> /\ Deliver({Version(k)}) /\ scan' = [scan EXCEPT !.item = <<>>]
    BY <1>3 DEF ReadValue
  <2>2. k \in Keys
    BY <2>1 DEF Types, ScanType, VersionsTo
  <2> HIDE DEF k
  <2>3. emitted' \subseteq VersionsTo(clock) /\ loads' \in [Keys -> 0 .. 2]
    BY <2>1, <2>2, DeliverTypes, VersionType
  <2>4. scan' \in ScanType(clock)
    BY <2>1 DEF Types, ScanType
  <2> QED
    BY <1>1, <1>3, <2>3, <2>4, ReadStepTypes DEF ReadValue, Types, history
<1> QED
  BY <1>1, <1>2, <1>3, OpenScanTypes, EndScanTypes, Zenon DEF RedisReadChunk

LEMMA BeginPassTypes ==
  ASSUME Types, BeginPass
  PROVE  phase = "idle" /\ passes' \in 0 .. MaxPasses /\ quiet' \in BOOLEAN
BY SourcesAssumption DEF SourcesAssumption, Types, BeginPass

LEMMA NewestVersion ==
  ASSUME Types, NEW V, V \subseteq VersionsTo(clock)
  PROVE  LET w == SetMax({v[2] : v \in V} \cup {watermark})
         IN /\ w \in 0 .. clock /\ watermark <= w
            /\ \A v \in V : v[2] <= w
            /\ w = watermark \/ \E v \in V : w = v[2]
<1> DEFINE S == {v[2] : v \in V} \cup {watermark}
<1>1. S \subseteq 0 .. clock /\ watermark \in S
  BY DEF Types, VersionsTo
<1>2. SetMax(S) \in S /\ SetMax(S) \in 0 .. clock /\ \A x \in S : x <= SetMax(S)
  BY <1>1, ClockIsNat, NewestOf
<1>3. \A v \in V : v[2] \in S
  OBVIOUS
<1>4. \A x \in S : x = watermark \/ \E v \in V : x = v[2]
  OBVIOUS
<1> HIDE DEF S
<1>5. /\ SetMax(S) \in 0 .. clock /\ watermark <= SetMax(S)
      /\ \A v \in V : v[2] <= SetMax(S)
      /\ SetMax(S) = watermark \/ \E v \in V : SetMax(S) = v[2]
  BY <1>1, <1>2, <1>3, <1>4
<1> QED
  BY <1>5 DEF S

LEMMA SelectIncrementTypes == ASSUME Types, SelectIncrementStep PROVE Types'
<1> DEFINE V == {Version(k) : k \in {j \in Present : Newer(j)}}
<1>1. /\ BeginPass /\ Deliver(V)
      /\ watermark' = SetMax({v[2] : v \in V} \cup {watermark})
      /\ UNCHANGED <<conn, cursorType, server, source, phase, plan, chunks, left, scan,
                     touched, overlapped>>
  BY DEF SelectIncrementStep, SelectIncrement
<1>2. V \subseteq VersionsTo(clock)
  BY VersionsOf
<1> HIDE DEF V
<1>3. emitted' \subseteq VersionsTo(clock) /\ loads' \in [Keys -> 0 .. 2]
  BY <1>1, <1>2, DeliverTypes
<1>4. watermark' \in 0 .. clock
  BY <1>1, <1>2, NewestVersion
<1> QED
  BY <1>1, <1>3, <1>4, BeginPassTypes, ReadStepTypes DEF Types

LEMMA StartWalkTypes == ASSUME Types, StartWalk PROVE Types'
<1>1. scan' \in ScanType(clock)
  BY ClockIsNat, OpenScanType, BoundFacts DEF StartWalk, Types, VersionsTo
<1> QED
  BY <1>1, BeginPassTypes, ReadStepTypes DEF StartWalk, OpenPass, Types

LEMMA EndPassTypes ==
  ASSUME Types, phase = "increment", NEW w \in 0 .. clock, EndPass(w),
         emitted' \subseteq VersionsTo(clock), loads' \in [Keys -> 0 .. 2]
  PROVE  Types'
BY ClockIsNat, NoScanType, ReadStepTypes DEF EndPass, Types, history

LEMMA SortTypes == ASSUME Types, SortStep PROVE Types'
<1>1. CASE WalkAndSort /\ Unlisted # {}
  <2> DEFINE k == SetMin(Unlisted)
             found == IF Newer(k) THEN scan.view \cup {Version(k)} ELSE scan.view
  <2>1. /\ phase = "increment"
        /\ scan' = [scan EXCEPT !.pos = k, !.view = found]
        /\ UNCHANGED <<conn, cursorType, server, source, phase, watermark, plan,
                       chunks, left, emitted, loads, history, passes>>
    BY <1>1 DEF WalkAndSort
  <2>2. k \in Keys /\ k \in Below .. MaxInt
    BY <1>1, AheadType DEF Unlisted
  <2> HIDE DEF k
  <2>3. found \in SUBSET VersionsTo(clock)
    BY <2>2, VersionType DEF Types, ScanType
  <2> HIDE DEF found
  <2>4. [scan EXCEPT !.pos = k] \in ScanType(clock)
    BY <2>2 DEF Types, ScanType
  <2>5. scan' \in ScanType(clock)
    BY <2>1, <2>3, <2>4 DEF ScanType
  <2> QED
    BY <2>1, <2>5, ReadStepTypes DEF Types, history
<1>2. CASE WalkAndSort /\ Unlisted = {}
  <2> DEFINE w == SetMax({v[2] : v \in scan.view} \cup {watermark})
  <2>1. phase = "increment" /\ Deliver(scan.view) /\ EndPass(w)
    BY <1>2 DEF WalkAndSort
  <2>2. scan.view \subseteq VersionsTo(clock)
    BY DEF Types, ScanType
  <2>3. w \in 0 .. clock
    BY <2>2, NewestVersion
  <2> HIDE DEF w
  <2> QED
    BY <2>1, <2>2, <2>3, DeliverTypes, EndPassTypes
<1> QED
  BY <1>1, <1>2, StartWalkTypes DEF SortStep

LEMMA CassandraTypes == ASSUME Types, CassandraReadIncrement PROVE Types'
<1>1. CASE CassandraWalk /\ Unlisted # {}
  <2> DEFINE k == SetMin(Unlisted)
             newest == IF Newer(k) THEN cur[k] ELSE scan.newest
             V == IF Newer(k) THEN {Version(k)} ELSE {}
  <2>1. /\ phase = "increment" /\ Deliver(V)
        /\ scan' = [scan EXCEPT !.pos = k, !.newest = newest]
        /\ UNCHANGED <<conn, cursorType, server, source, phase, watermark, plan,
                       chunks, left, history, passes>>
    BY <1>1 DEF CassandraWalk
  <2>2. k \in Keys /\ k \in Below .. MaxInt
    BY <1>1, AheadType DEF Unlisted
  <2> HIDE DEF k
  <2>3. newest \in 0 .. clock /\ V \subseteq VersionsTo(clock)
    BY <2>2, VersionType DEF Types, ScanType
  <2> HIDE DEF newest, V
  <2>4. [scan EXCEPT !.pos = k] \in ScanType(clock)
    BY <2>2 DEF Types, ScanType
  <2>5. scan' \in ScanType(clock)
    BY <2>1, <2>3, <2>4 DEF ScanType
  <2> QED
    BY <2>1, <2>3, <2>5, DeliverTypes, ReadStepTypes DEF Types, history
<1>2. CASE CassandraWalk /\ Unlisted = {}
  <2>1. phase = "increment" /\ EndPass(scan.newest) /\ UNCHANGED <<emitted, loads>>
    BY <1>2 DEF CassandraWalk
  <2>2. scan.newest \in 0 .. clock
    BY DEF Types, ScanType
  <2> QED
    BY <2>1, <2>2, EndPassTypes DEF Types
<1> QED
  BY <1>1, <1>2, StartWalkTypes DEF CassandraReadIncrement

LEMMA ObjectstoreIncrementTypes ==
  ASSUME Types, ObjectstoreReadIncrement
  PROVE  Types'
<1>1. ASSUME phase = "increment", EndPass(scan.newest), UNCHANGED <<emitted, loads>>
      PROVE  Types'
  <2>1. scan.newest \in 0 .. clock
    BY DEF Types, ScanType
  <2> QED
    BY <1>1, <2>1, EndPassTypes DEF Types
<1> QED
  BY <1>1, StartWalkTypes, ObjectTypes, Zenon DEF ObjectstoreReadIncrement

\* A read that fails.
LEMMA FailTypes == ASSUME Types, FailLoadStep \/ FailPassStep PROVE Types'
<1>1. passes < MaxPasses => passes + 1 \in 0 .. MaxPasses
  BY SourcesAssumption DEF SourcesAssumption, Types
<1> QED
  BY <1>1 DEF FailLoadStep, FailPassStep, FailLoad, FailPass, Types, source, history

LEMMA NextTypes == Types /\ [Next]_vars => Types'
<1>1. ASSUME Types, Next PROVE Types'
  BY <1>1, NextCases, WriteTypes, PlanTypes, SelectTypes, FailTypes, WalkTypes,
     ElasticsearchTypes, ObjectstoreTypes, RedisTypes, SelectIncrementTypes, SortTypes,
     CassandraTypes, ObjectstoreIncrementTypes, Zenon
<1>2. ASSUME Types, UNCHANGED vars PROVE Types'
  BY <1>2 DEF Types, vars, source, history
<1> QED
  BY <1>1, <1>2

-----------------------------------------------------------------------------
(* The plan: every key lies in exactly one chunk.                          *)

Holds(c, k) == c.min <= k /\ k < c.max
OnceIn(C, k) == \E c \in C : Holds(c, k) /\ \A d \in C : Holds(d, k) => d = c

\* What the chunks are about: keys, or pages.
Domain == IF conn \in PageAddressed THEN Pages ELSE MinInt .. MaxInt

\* The loop has planned, once each, the integers below lo, and will not overflow.
LoopOK(p, C) ==
    /\ p.step >= 1 /\ p.first <= p.hi /\ p.first <= p.lo
    /\ p.first + ((p.hi - p.first) \div p.step + 1) * p.step <= MaxInt
    /\ \E i \in 0 .. (p.hi - p.first) \div p.step + 1 : p.lo = p.first + i * p.step
    /\ \A c \in C : c.max <= p.lo
    /\ \A k \in MinInt .. p.lo - 1 : OnceIn(C, k)
    /\ p.lo > p.first => p.last \in C /\ p.last.max = p.lo /\ p.last.min < p.lo

PlanInv ==
    /\ phase = "split" => plan = NoPlan
    /\ phase = "plan" => conn \in Ranged /\ (Fits(plan) => LoopOK(plan, chunks))
    /\ phase \in {"load", "loaded"} /\ Fits(plan) =>
          \A k \in Domain : OnceIn(chunks, k)

LEMMA WholeTablePartitions ==
  ASSUME conn \notin PageAddressed
  PROVE  \A k \in Domain : OnceIn({WholeTable}, k)
BY IntegerFacts DEF Domain, OnceIn, Holds, WholeTable

\* From the loop's bounds to the chunk it plans next.
LEMMA LoopBounds ==
  ASSUME NEW p \in PlanType, NEW C, LoopOK(p, C), p.lo <= p.hi
  PROVE  /\ p.lo + p.step \in MinInt .. MaxInt
         /\ Wrap(p.lo + p.step) = p.lo + p.step
         /\ \E i \in 0 .. (p.hi - p.first) \div p.step + 1 :
               p.lo + p.step = p.first + i * p.step
<1> DEFINE a == p.first
           s == p.step
           d == p.hi - p.first
<1>1. a \in Int /\ s \in Nat \ {0} /\ d \in Nat /\ p.lo \in MinInt .. MaxInt /\ p.hi = a + d
      /\ MinInt \in Int /\ MaxInt \in Int
  <2>1. MinInt \in Int /\ MaxInt \in Int
    BY BoundFacts
  <2>2. p.first \in Int /\ p.hi \in Int /\ p.step \in Int /\ p.lo \in MinInt .. MaxInt
    BY <2>1 DEF PlanType
  <2>3. p.step >= 1 /\ p.first <= p.hi
    BY DEF LoopOK
  <2> QED
    BY <2>1, <2>2, <2>3
<1>2. PICK i \in 0 .. d \div s + 1 : p.lo = a + i * s
  BY DEF LoopOK
<1>3. a + (d \div s + 1) * s <= MaxInt
  BY DEF LoopOK
<1> HIDE DEF a, s, d
<1> DEFINE q == d \div s
<1>4. q \in Nat /\ d < (q + 1) * s
  BY <1>1
<1>5. i \in Nat /\ i * s <= d
  BY <1>1, <1>2, <1>4
<1>6. i <= q
  <2>1. SUFFICES ASSUME i >= q + 1 PROVE FALSE
    BY <1>4, <1>5
  <2>2. i * s >= (q + 1) * s
    <3> HIDE DEF q
    <3> QED
      BY <1>1, <1>4, <1>5, <2>1
  <2> QED
    BY <1>1, <1>4, <1>5, <2>2
<1>7. (i + 1) * s <= (q + 1) * s /\ (i + 1) * s = i * s + s
  <2> HIDE DEF q
  <2> QED
    BY <1>1, <1>4, <1>5, <1>6
<1>8. p.lo + s = a + (i + 1) * s /\ i + 1 \in 0 .. q + 1
  BY <1>1, <1>2, <1>4, <1>5, <1>6, <1>7
<1>9. p.lo + s \in MinInt .. MaxInt
  <2>1. p.lo + s <= MaxInt
    BY <1>1, <1>3, <1>4, <1>5, <1>7, <1>8
  <2> QED
    BY <1>1, <2>1
<1>10. Wrap(p.lo + s) = p.lo + s
  BY <1>1, <1>9, WrapFits
<1> QED
  BY <1>8, <1>9, <1>10 DEF a, s, d

LEMMA LoopStarts ==
  ASSUME LoopStep, Fits(plan)'
  PROVE  LoopOK(plan', chunks')
<1> DEFINE lo == SetMin(Present)
           hi == SetMax(Present)
           c == [min |-> Below, max |-> lo]
<1>1. lo \in MinInt .. MaxInt /\ hi \in MinInt .. MaxInt /\ lo <= hi
  BY PresentFacts DEF LoopStep
<1> HIDE DEF lo, hi
<1>2. PICK step : StepOf(lo, hi, step) /\ StartLoop(lo, hi, step, {c})
  BY Zenon DEF LoopStep, lo, hi
<1>3. /\ plan'.lo = lo /\ plan'.first = lo /\ plan'.hi = hi /\ plan'.step = step
      /\ chunks' = {c} /\ conn' = conn
  BY <1>2 DEF StartLoop
<1>4. /\ conn \in KeysetPostgres => hi - lo < MaxInt
      /\ step >= 1 => lo + ((hi - lo) \div step + 1) * step <= MaxInt
  BY <1>3 DEF Fits, KeysetPostgres, Postgres
<1>5. step \in Int /\ step >= 1
  <2>1. step \in MinInt .. MaxInt /\ step >= 1
    BY <1>1, <1>2, <1>4, StepFacts
  <2> QED
    BY <2>1, BoundFacts
<1>6. 0 \in 0 .. (hi - lo) \div step + 1 /\ lo = lo + 0 * step
  <2>1. (hi - lo) \div step \in Nat
    BY <1>1, <1>5, BoundFacts
  <2>2. lo \in Int
    BY <1>1, BoundFacts
  <2> QED
    BY <1>5, <2>1, <2>2
<1>7. c.min = Below /\ c.max = lo
  OBVIOUS
<1>8. \A k \in MinInt .. lo - 1 : Below <= k /\ k < lo
  BY <1>1, IntegerFacts
<1> HIDE DEF c
<1>9. \A k \in MinInt .. lo - 1 : OnceIn({c}, k)
  BY <1>7, <1>8 DEF OnceIn, Holds
<1>10. lo <= lo /\ ~ (lo > lo)
  BY <1>1, BoundFacts
<1> QED
  BY <1>1, <1>3, <1>4, <1>5, <1>6, <1>7, <1>9, <1>10 DEF LoopOK

LEMMA LoopGoesOn ==
  ASSUME Types, PlanStep, LoopOK(plan, chunks)
  PROVE  LoopOK(plan', chunks')
<1> DEFINE lo == plan.lo
           hi == plan.lo + plan.step
           c == [min |-> lo, max |-> hi]
           most == (plan.hi - plan.first) \div plan.step + 1
<1>1. plan \in PlanType /\ plan.lo <= plan.hi
  BY DEF Types, PlanStep
<1>2. /\ hi \in MinInt .. MaxInt /\ Wrap(hi) = hi
      /\ \E i \in 0 .. most : hi = plan.first + i * plan.step
  BY <1>1, LoopBounds
<1>3. chunks' = chunks \cup {c} /\ plan' = [plan EXCEPT !.lo = hi, !.last = c]
  BY <1>2 DEF PlanStep
<1>4. /\ plan'.lo = hi /\ plan'.first = plan.first /\ plan'.hi = plan.hi
      /\ plan'.step = plan.step /\ plan'.last = c
  BY <1>1, <1>3 DEF PlanType
<1>5. /\ plan.step >= 1 /\ plan.first <= plan.hi /\ plan.first <= lo
      /\ plan.first + most * plan.step <= MaxInt
      /\ \A d \in chunks : d.max <= lo
      /\ \A k \in MinInt .. lo - 1 : OnceIn(chunks, k)
  BY DEF LoopOK
<1>6. lo \in Int /\ hi \in Int /\ plan.first \in Int /\ lo < hi /\ MinInt \in Int
      /\ lo \in MinInt .. MaxInt
  <2>1. MinInt \in Int /\ MaxInt \in Int
    BY BoundFacts
  <2>2. lo \in MinInt .. MaxInt /\ plan.first \in Int /\ plan.step \in Int
    BY <1>1, <2>1 DEF PlanType
  <2>3. lo \in Int /\ hi = lo + plan.step
    BY <2>1, <2>2
  <2>4. plan.step >= 1
    BY <1>5
  <2> HIDE DEF lo, hi
  <2> QED
    BY <2>1, <2>2, <2>3, <2>4
<1>7. \A d \in chunks : d.max \in Int /\ d.min \in Int
  BY BoundFacts DEF Types, Chunk
<1>8. c.min = lo /\ c.max = hi
  OBVIOUS
<1> HIDE DEF lo, hi, c, most
<1>9. \A d \in chunks \cup {c} : d.max <= hi
  BY <1>5, <1>6, <1>7, <1>8
<1>10. ASSUME NEW k \in MinInt .. hi - 1 PROVE OnceIn(chunks \cup {c}, k)
  <2>1. k \in Int
    BY <1>6
  <2>2. CASE k < lo
    <3>1. PICK d \in chunks : Holds(d, k) /\ \A e \in chunks : Holds(e, k) => e = d
      BY <1>5, <1>6, <2>2 DEF OnceIn
    <3>2. ~ Holds(c, k)
      BY <1>6, <1>8, <2>1, <2>2 DEF Holds
    <3> QED
      BY <3>1, <3>2 DEF OnceIn
  <2>3. CASE lo <= k
    <3>1. Holds(c, k)
      BY <1>6, <1>8, <2>1, <2>3 DEF Holds
    <3>2. \A d \in chunks : ~ Holds(d, k)
      BY <1>5, <1>6, <1>7, <2>1, <2>3 DEF Holds
    <3> QED
      BY <3>1, <3>2 DEF OnceIn
  <2> QED
    BY <1>6, <2>1, <2>2, <2>3
<1>11. plan.first <= hi
  BY <1>5, <1>6
<1>12. \E i \in 0 .. (plan.hi - plan.first) \div plan.step + 1 :
          hi = plan.first + i * plan.step
  BY <1>2 DEF most
<1>13. plan.first + ((plan.hi - plan.first) \div plan.step + 1) * plan.step <= MaxInt
  BY <1>5 DEF most
<1> DEFINE p == plan'
           C == chunks'
<1>14. /\ p.step >= 1 /\ p.first <= p.hi /\ p.first <= p.lo
       /\ p.first + ((p.hi - p.first) \div p.step + 1) * p.step <= MaxInt
  BY <1>4, <1>5, <1>11, <1>13
<1>15. \E i \in 0 .. (p.hi - p.first) \div p.step + 1 : p.lo = p.first + i * p.step
  BY <1>4, <1>12
<1>16. /\ \A d \in C : d.max <= p.lo
       /\ \A k \in MinInt .. p.lo - 1 : OnceIn(C, k)
  BY <1>3, <1>4, <1>9, <1>10
<1>17. p.last \in C /\ p.last.max = p.lo /\ p.last.min < p.lo
  BY <1>3, <1>4, <1>6, <1>8
<1> HIDE DEF p, C
<1>18. LoopOK(p, C)
  BY <1>14, <1>15, <1>16, <1>17 DEF LoopOK
<1> QED
  BY <1>18 DEF p, C

LEMMA LoopEnds ==
  ASSUME Types, FinishPlan, conn \in Ranged, LoopOK(plan, chunks)
  PROVE  \A k \in Domain' : OnceIn(chunks', k)
<1> DEFINE last == plan.last
           c == [last EXCEPT !.max = Above]
<1>1. chunks' = (chunks \ {last}) \cup {c} /\ Domain' = MinInt .. MaxInt
  BY DEF FinishPlan, Planned, Domain, Ranged, KeysetPostgres, IntegerKeyed, PageAddressed
<1>2. plan \in PlanType /\ plan.lo > plan.hi
  BY DEF Types, FinishPlan
<1>3. plan.lo \in Int /\ plan.hi \in Int /\ plan.first \in Int /\ last \in Chunk
      /\ MinInt \in Int /\ MaxInt \in Int /\ Above = MaxInt + 1 /\ plan.lo <= MaxInt
  BY <1>2, BoundFacts, IntegerFacts DEF PlanType
<1>4. /\ last \in chunks /\ last.max = plan.lo /\ last.min < plan.lo
      /\ \A d \in chunks : d.max <= plan.lo
      /\ \A k \in MinInt .. plan.lo - 1 : OnceIn(chunks, k)
  BY <1>2, <1>3 DEF LoopOK
<1>5. \A d \in chunks : d.max \in Int /\ d.min \in Int
  BY BoundFacts DEF Types, Chunk
<1>6. c.min = last.min /\ c.max = Above
  BY <1>3 DEF Chunk
<1> HIDE DEF c
<1>7. ASSUME NEW k \in MinInt .. MaxInt PROVE OnceIn((chunks \ {last}) \cup {c}, k)
  <2>1. k \in Int /\ k < Above
    BY <1>3
  <2>2. Holds(c, k) <=> last.min <= k
    BY <1>6, <2>1 DEF Holds
  <2>3. CASE k < plan.lo
    <3>1. PICK d \in chunks : Holds(d, k) /\ \A e \in chunks : Holds(e, k) => e = d
      BY <1>3, <1>4, <2>3 DEF OnceIn
    <3>2. Holds(last, k) <=> last.min <= k
      BY <1>4, <2>3 DEF Holds
    <3>3. CASE d = last
      BY <2>2, <3>1, <3>2, <3>3 DEF OnceIn
    <3>4. CASE d # last
      BY <1>4, <2>2, <3>1, <3>2, <3>4 DEF OnceIn
    <3> QED
      BY <3>3, <3>4
  <2>4. CASE plan.lo <= k
    <3>1. Holds(c, k)
      BY <1>3, <1>4, <1>5, <2>1, <2>2, <2>4
    <3>2. \A d \in chunks : ~ Holds(d, k)
      BY <1>3, <1>4, <1>5, <2>1, <2>4 DEF Holds
    <3> QED
      BY <3>1, <3>2 DEF OnceIn
  <2> QED
    BY <1>3, <2>1, <2>3, <2>4
<1> QED
  BY <1>1, <1>7

LEMMA PageRangesPartition ==
  ASSUME PageRanges
  PROVE  \A k \in Domain' : OnceIn(chunks', k)
<1> DEFINE range(n, p) == [min |-> p, max |-> IF p = n THEN Above ELSE p + 1]
<1>1. PICK relpages \in {0} \cup {p + 1 : p \in Pages} :
        Planned(IF relpages = 0
                THEN {[min |-> 0, max |-> Above]}
                ELSE {range(relpages - 1, p) : p \in 0 .. relpages - 1})
  BY DEF PageRanges
<1>2. Domain' = Pages
  BY DEF PageRanges, Domain, PageAddressed
<1>3. ASSUME NEW k \in Pages PROVE OnceIn({[min |-> 0, max |-> Above]}, k)
  BY <1>3, IntegerFacts DEF OnceIn, Holds
<1>4. ASSUME NEW n \in Pages, NEW k \in Pages
      PROVE  OnceIn({range(n, p) : p \in 0 .. n}, k)
  <2>1. n \in Nat /\ k \in Nat /\ k < Above /\ Above \in Int
    BY IntegerFacts
  <2>2. \A p \in 0 .. n : /\ range(n, p).min = p
                          /\ range(n, p).max = IF p = n THEN Above ELSE p + 1
    OBVIOUS
  <2> HIDE DEF range
  <2>3. CASE k >= n
    <3>1. n \in 0 .. n /\ Holds(range(n, n), k)
      BY <2>1, <2>2, <2>3 DEF Holds
    <3>2. \A p \in 0 .. n : Holds(range(n, p), k) => p = n
      BY <2>1, <2>2, <2>3 DEF Holds
    <3> QED
      BY <3>1, <3>2 DEF OnceIn
  <2>4. CASE k < n
    <3>1. k \in 0 .. n /\ Holds(range(n, k), k)
      BY <2>1, <2>2, <2>4 DEF Holds
    <3>2. \A p \in 0 .. n : Holds(range(n, p), k) => p = k
      BY <2>1, <2>2, <2>4 DEF Holds
    <3> QED
      BY <3>1, <3>2 DEF OnceIn
  <2> QED
    BY <2>1, <2>3, <2>4
<1>5. relpages # 0 => relpages - 1 \in Pages
  BY IntegerFacts
<1> HIDE DEF range
<1>6. CASE relpages = 0
  BY <1>1, <1>2, <1>3, <1>6 DEF Planned
<1>7. CASE relpages # 0
  BY <1>1, <1>2, <1>4, <1>5, <1>7 DEF Planned
<1> QED
  BY <1>6, <1>7

LEMMA InitPlanInv == Init => PlanInv
BY DEF Init, PlanInv

\* The phases that a read may leave behind.
After == IF phase = "load" THEN {"load", "loaded", "failed"} ELSE {"idle", "increment", "failed"}

\* Steps that read leave the plan alone.
LEMMA ReadsKeepPlan ==
  ASSUME PlanInv, UNCHANGED <<conn, plan, chunks>>,
         phase \in {"load", "idle", "increment"},
         phase' \in After
  PROVE  PlanInv'
BY DEF PlanInv, Fits, Domain, After

\* What the steps of a load or an increment leave alone.
LEMMA ReadsLeave ==
  ASSUME Types,
         \/ SelectStep \/ WalkStep \/ ElasticsearchReadChunk \/ ObjectstoreReadChunk
         \/ RedisReadChunk \/ FailLoadStep \/ FailPassStep \/ SelectIncrementStep \/ SortStep \/ CassandraReadIncrement
         \/ ElasticsearchReadIncrement \/ ObjectstoreReadIncrement
  PROVE  /\ UNCHANGED <<conn, cursorType, server, source, plan, chunks, touched, overlapped>>
         /\ phase \in {"load", "idle", "increment"}
         /\ phase' \in After
<1> USE DEF After
<1> DEFINE Leaves == /\ UNCHANGED <<conn, cursorType, server, source, plan, chunks, touched, overlapped>>
                     /\ phase \in {"load", "idle", "increment"}
                     /\ phase' \in After
<1>1. SelectStep => Leaves
  BY DEF SelectStep, SelectChunk, EndOfChunk, history
<1>2. ASSUME NEW c, OpenScan(c) PROVE Leaves
  BY <1>2 DEF OpenScan, history
<1>3. WalkChunk => Leaves
  BY DEF WalkChunk, EndOfChunk, history
<1>4. WalkStep => Leaves
  BY <1>2, <1>3 DEF WalkStep, ScanChunk
<1>5. ASSUME phase \in {"load", "increment"}, NEW done, NEW end, ScanSearchAfter(done, end),
             done = IF phase = "load" THEN "loaded" ELSE "idle"
      PROVE  Leaves
  BY <1>5 DEF ScanSearchAfter, history
<1>6. OpenPass => Leaves
  BY DEF OpenPass, BeginPass
<1>7. ElasticsearchReadChunk => Leaves
  BY <1>5 DEF ElasticsearchReadChunk, history
<1>8. ElasticsearchReadIncrement => Leaves
  BY <1>5, <1>6 DEF ElasticsearchReadIncrement
<1>9. ASSUME phase \in {"load", "increment"}, ListObject \/ ReadObject PROVE Leaves
  BY <1>9 DEF ListObject, ReadObject, history
<1>10. ASSUME phase = "load", NEW c, EndOfChunk(c),
              UNCHANGED <<conn, cursorType, server, source, watermark, plan, chunks,
                          emitted, loads, history, passes>>
       PROVE  Leaves
  BY <1>10 DEF EndOfChunk, history
<1>11. ObjectstoreReadChunk => Leaves
  BY <1>2, <1>9, <1>10, Zenon DEF ObjectstoreReadChunk
<1>12. ASSUME phase = "load", ScanAndType \/ ReadValue PROVE Leaves
  BY <1>12 DEF ScanAndType, ReadValue, history
<1>13. RedisReadChunk => Leaves
  BY <1>2, <1>10, <1>12, Zenon DEF RedisReadChunk
<1>14. SelectIncrementStep => Leaves
  BY DEF SelectIncrementStep, SelectIncrement, BeginPass
<1>15. ASSUME phase = "increment", NEW w, EndPass(w) PROVE Leaves
  BY <1>15 DEF EndPass, history
<1>16. StartWalk => Leaves
  BY <1>6 DEF StartWalk
<1>17. SortStep => Leaves
  BY <1>15, <1>16 DEF SortStep, WalkAndSort, history
<1>18. CassandraReadIncrement => Leaves
  BY <1>15, <1>16 DEF CassandraReadIncrement, CassandraWalk, history
<1>19. ObjectstoreReadIncrement => Leaves
  BY <1>9, <1>15, <1>16, Zenon DEF ObjectstoreReadIncrement
<1>20. FailLoadStep \/ FailPassStep => Leaves
  BY DEF FailLoadStep, FailPassStep, FailLoad, FailPass, history
<1> HIDE DEF Leaves
<1>21. Leaves
  BY <1>20, <1>1, <1>4, <1>7, <1>8, <1>11, <1>13, <1>14, <1>17, <1>18, <1>19, Zenon
<1> QED
  BY <1>21 DEF Leaves

LEMMA NextPlanInv == Types /\ PlanInv /\ [Next]_vars => PlanInv'
<1>1. ASSUME Types, PlanInv, Next PROVE PlanInv'
  <2> USE <1>1
  <2>1. ASSUME NEW k \in Keys, Write(k) \/ Delete(k) PROVE PlanInv'
    BY <2>1 DEF Write, Delete, RecordWrite, PlanInv, Fits, Domain
  <2>4. CASE LoopStep
    <3>1. phase' = "plan" /\ conn' = conn /\ conn \in Ranged
      BY <2>4 DEF LoopStep, StartLoop
    <3> QED
      BY <2>4, <3>1, LoopStarts DEF PlanInv
  <2>5. CASE OneChunkStep
    <3>1. /\ phase' = "load" /\ chunks' = {WholeTable} /\ conn' = conn
          /\ conn \notin PageAddressed
      BY <2>5 DEF OneChunkStep, OneChunk, Planned, PageAddressed
    <3>2. Domain' = Domain
      BY <3>1 DEF Domain
    <3> QED
      BY <3>1, <3>2, WholeTablePartitions DEF PlanInv
  <2>6. CASE PageRanges
    <3>1. phase' = "load"
      BY <2>6 DEF PageRanges, Planned
    <3> QED
      BY <2>6, <3>1, PageRangesPartition DEF PlanInv
  <2>7. CASE PlanStep
    <3>1. phase = "plan" /\ phase' = "plan" /\ conn' = conn
      BY <2>7 DEF PlanStep
    <3>2. plan'.hi = plan.hi /\ plan'.first = plan.first /\ plan'.step = plan.step
      <4>1. plan \in PlanType
        BY DEF Types
      <4> QED
        BY <2>7, <4>1 DEF PlanStep, PlanType
    <3>3. Fits(plan)' = Fits(plan)
      BY <3>1, <3>2 DEF Fits
    <3> QED
      BY <2>7, <3>1, <3>3, LoopGoesOn DEF PlanInv
  <2>8. CASE FinishPlan
    <3>1. phase = "plan" /\ phase' = "load" /\ conn' = conn /\ plan' = plan
      BY <2>8 DEF FinishPlan, Planned
    <3>2. Fits(plan)' = Fits(plan)
      BY <3>1 DEF Fits
    <3> QED
      BY <2>8, <3>1, <3>2, LoopEnds DEF PlanInv
  <2>9. CASE \/ SelectStep \/ WalkStep \/ ElasticsearchReadChunk \/ ObjectstoreReadChunk
             \/ RedisReadChunk \/ FailLoadStep \/ FailPassStep \/ SelectIncrementStep \/ SortStep \/ CassandraReadIncrement
             \/ ElasticsearchReadIncrement \/ ObjectstoreReadIncrement
    BY <2>9, ReadsLeave, ReadsKeepPlan
  <2> QED
    BY NextCases, <2>1, <2>4, <2>5, <2>6, <2>7, <2>8, <2>9, Zenon
<1>2. ASSUME PlanInv, UNCHANGED vars PROVE PlanInv'
  BY <1>2 DEF PlanInv, Fits, Domain, vars
<1> QED
  BY <1>1, <1>2

LEMMA PlanInvImplies == PlanInv => PlanPartitions
<1> SUFFICES ASSUME \A k \in Domain : OnceIn(chunks, k), NEW k \in Domain
             PROVE  Cardinality({c \in chunks : c.min <= k /\ k < c.max}) = 1
  BY DEF PlanInv, PlanPartitions, Domain
<1>1. PICK c \in chunks : Holds(c, k) /\ \A d \in chunks : Holds(d, k) => d = c
  BY DEF OnceIn
<1>2. {d \in chunks : d.min <= k /\ k < d.max} = {c}
  BY <1>1 DEF Holds
<1> QED
  BY <1>2, FS_Singleton

-----------------------------------------------------------------------------
(* The full load: rows nobody writes are delivered once.                   *)

Stable == Present \ touched

\* The read of the chunk in progress has delivered row k, or never will.
Passed(k) ==
    /\ scan.open
    /\ IF conn = "elasticsearch" THEN Version(k) \notin scan.view
       ELSE k <= scan.pos /\ (conn = "objectstore" => scan.item = <<>> \/ scan.item[1] # k)

\* A stable row is still to be read, in some chunk, or was delivered and will not
\* be read again.
ToRead(k) == \E c \in left : InChunk(k, c) /\ ~ (c = scan.chunk /\ Passed(k))
WasRead(k) == Version(k) \in emitted /\ loads[k] = 1
ReadOnce(k) == (loads[k] = 0 /\ ToRead(k)) \/ (WasRead(k) /\ ~ ToRead(k))

\* redis: what SCAN has returned is delivered or about to be.
ReadSome(k) ==
    scan.open /\ k \in Returned =>
        Version(k) \in emitted \/ (scan.item # <<>> /\ scan.item[1] = k)

\* The chunk being read is one of those left; the point in time and the listing show
\* stable rows as they are.
ScanInv ==
    /\ phase \notin {"load", "increment"} \/ conn \in Selecting => ~ scan.open
    /\ phase = "load" => left # {}
    /\ phase = "load" /\ scan.open => scan.chunk \in left
    /\ phase = "load" /\ scan.open /\ conn = "elasticsearch" =>
          \A v \in scan.view : v[1] \in Stable => v = Version(v[1])
    /\ phase \in {"load", "increment"} /\ scan.open /\ conn = "objectstore" =>
          scan.item = <<>> \/ scan.item[1] = scan.pos
    /\ phase \in {"load", "loaded"} /\ conn \notin Ranged \cup PageAddressed =>
          chunks = {WholeTable}

LoadInv ==
    /\ phase \in {"split", "plan"} => \A k \in Keys : loads[k] = 0
    /\ phase = "load" /\ Fits(plan) =>
          \A k \in Stable : IF conn = "redis" THEN ReadSome(k) ELSE ReadOnce(k)
    /\ phase = "loaded" /\ Fits(plan) =>
          \A k \in Stable : Version(k) \in emitted /\ (conn # "redis" => loads[k] = 1)

-----------------------------------------------------------------------------
(* The increments: no watermark passes a row that was not delivered.       *)

\* Row k as it is was delivered, or the watermark has not reached it.
Ready(k) == Version(k) \in emitted \/ cur[k] > watermark

\* The rows that the read of an increment has behind it.
Behind(k) ==
    k <= scan.pos /\ (conn = "objectstore" => scan.item = <<>> \/ scan.item[1] # k)

\* elasticsearch: row k is delivered, will be, or is newer than all that will be.
InTime(k) ==
    \/ Version(k) \in emitted \cup scan.view
    \/ /\ ~ quiet /\ cur[k] > watermark /\ cur[k] > scan.newest
       /\ \A v \in scan.view : cur[k] > v[2]

Undisturbed == Ordered /\ (conn \in LiveReaders => ~ overlapped)

\* Between two increments, and during one.
CaughtUp ==
    /\ \A k \in Present : Ready(k)
    /\ passes > 0 /\ quiet /\ conn # "mongodb" => \A k \in Present : Version(k) \in emitted

PassInv ==
    /\ conn \in Sorting =>
          /\ \A k \in Present : Ready(k)
          /\ scan.view = {Version(k) : k \in {j \in Present : j <= scan.pos /\ Newer(j)}}
    /\ conn \in {"cassandra", "objectstore"} =>
          \A k \in Present : Ready(k) /\ (Behind(k) => Version(k) \in emitted)
    /\ conn = "objectstore" /\ scan.item # <<>> => scan.item[1] \in Present
    /\ conn = "elasticsearch" => \A k \in Present : InTime(k)

AheadInv ==
    /\ phase \in {"split", "plan", "load", "loaded"} => passes = 0
    /\ phase \in {"idle", "increment"} => conn \in Incrementals
    /\ phase = "increment" =>
          scan.open /\ passes > 0
            /\ conn \in Sorting \cup {"cassandra", "objectstore", "elasticsearch"}
    /\ phase = "idle" /\ Undisturbed => CaughtUp
    /\ phase = "increment" /\ Undisturbed => PassInv
    /\ phase = "failed" /\ passes > 0 => ~ Undisturbed

-----------------------------------------------------------------------------
(* The initial states, and the writes of the source.                       *)

LEMMA InitReads == Init => ScanInv /\ LoadInv /\ AheadInv
<1> SUFFICES ASSUME Init PROVE ScanInv /\ LoadInv /\ AheadInv
  OBVIOUS
<1>1. /\ phase \in {"split", "idle"} /\ (phase = "idle" => conn \in Incrementals)
      /\ ~ scan.open /\ passes = 0 /\ watermark = 0 /\ \A k \in Keys : loads[k] = 0
  BY DEF Init, NoScan
<1>2. \A k \in Present : cur[k] > watermark
  <2>1. \A k \in Keys : cur[k] \in {0, 1}
    BY DEF Init
  <2> QED
    BY <1>1, <2>1 DEF Present
<1>3. CaughtUp
  BY <1>1, <1>2 DEF CaughtUp, Ready
<1> QED
  BY <1>1, <1>3 DEF ScanInv, LoadInv, AheadInv

LEMMA ChunkOf ==
  ASSUME NEW k, NEW c
  PROVE  /\ conn \in PageAddressed => (InChunk(k, c) <=> Holds(c, page[k]))
         /\ conn \in Ranged => (InChunk(k, c) <=> Holds(c, k))
         /\ conn \notin Ranged \cup PageAddressed => InChunk(k, c)
<1> USE DEF InChunk, PageAddressed, Ranged, KeysetPostgres, IntegerKeyed, Holds, Postgres
<1>1. CASE conn \in {"mysql", "mssql", "oracle"}
  BY <1>1 DEF MysqlChunkQuery, MssqlChunkQuery, OracleChunkQuery
<1>2. CASE conn \in {"db2", "sqlite"}
  BY <1>2 DEF Db2ChunkQuery, SqliteChunkQuery
<1>3. CASE conn \in Postgres
  BY <1>3 DEF PostgresChunkQuery
<1>4. CASE conn \notin {"mysql", "mssql", "oracle", "db2", "sqlite",
                        "postgres_ctid", "postgres_keyset", "postgres_parent"}
  BY <1>4
<1> QED
  BY <1>1, <1>2, <1>3, <1>4

\* What a write of row k leaves as it was.
LEMMA WriteFacts ==
  ASSUME Types, NEW k \in Keys, Write(k) \/ Delete(k)
  PROVE  /\ Stable' \subseteq Stable \ {k}
         /\ \A j \in Present' : j # k => j \in Present
         /\ \A j \in Keys : j # k => /\ cur'[j] = cur[j] /\ page'[j] = page[j]
                                     /\ Version(j)' = Version(j)
         /\ k \in Present' => cur'[k] = clock + 1
         /\ touched' = touched \cup {k} /\ quiet' = FALSE
         /\ overlapped' = (overlapped \/ phase = "increment")
         /\ UNCHANGED <<conn, cursorType, server, phase, watermark, plan, chunks, left,
                        scan, emitted, loads, passes>>
<1>1. /\ touched' = touched \cup {k} /\ quiet' = FALSE
      /\ overlapped' = (overlapped \/ phase = "increment")
      /\ UNCHANGED <<conn, cursorType, server, phase, watermark, plan, chunks, left,
                     scan, emitted, loads, passes>>
  BY DEF Write, Delete, RecordWrite
<1>2. \A j \in Keys : j # k => cur'[j] = cur[j] /\ page'[j] = page[j]
  BY DEF Types, Write, Delete
<1>3. k \in Present' => cur'[k] = clock + 1
  BY DEF Types, Write, Delete, Present
<1>4. \A j \in Keys : j # k => Version(j)' = Version(j)
  BY <1>2 DEF Version
<1>5. \A j \in Present' : j # k => j \in Present
  BY <1>2 DEF Present
<1>6. Stable' \subseteq Stable \ {k}
  BY <1>1, <1>5 DEF Stable
<1> QED
  BY <1>1, <1>2, <1>3, <1>4, <1>5, <1>6

LEMMA WriteReads ==
  ASSUME Types, ScanInv, LoadInv, NEW k \in Keys, Write(k) \/ Delete(k)
  PROVE  ScanInv' /\ LoadInv'
<1>1. /\ Stable' \subseteq Stable \ {k}
      /\ \A j \in Keys : j # k => /\ cur'[j] = cur[j] /\ page'[j] = page[j]
                                  /\ Version(j)' = Version(j)
      /\ UNCHANGED <<conn, cursorType, server, phase, watermark, plan, chunks, left,
                     scan, emitted, loads, passes>>
  BY WriteFacts
<1>2. ASSUME NEW j \in Stable' PROVE j \in Stable /\ j \in Keys /\ j # k
  BY <1>1, <1>2 DEF Stable, Present
<1>3. ASSUME NEW j \in Stable' PROVE ReadSome(j)' = ReadSome(j)
  BY <1>1, <1>2 DEF ReadSome, Returned
<1>4. ASSUME NEW j \in Stable' PROVE ReadOnce(j)' = ReadOnce(j)
  <2>1. \A c : InChunk(j, c)' = InChunk(j, c)
    <3>1. j \in Keys /\ j # k
      BY <1>2
    <3> QED
      BY <1>1, <3>1
         DEF InChunk, MysqlChunkQuery, MssqlChunkQuery, OracleChunkQuery, Db2ChunkQuery,
             SqliteChunkQuery, PostgresChunkQuery
  <2>2. Passed(j)' = Passed(j)
    BY <1>1, <1>2 DEF Passed
  <2> QED
    BY <1>1, <1>2, <2>1, <2>2 DEF ReadOnce, ToRead, WasRead
<1>5. Fits(plan)' = Fits(plan)
  BY <1>1 DEF Fits
<1>6. ScanInv'
  <2>1. ASSUME scan.open, phase = "load", conn = "elasticsearch", NEW v \in scan.view,
               v[1] \in Stable'
        PROVE  v = Version(v[1])'
    BY <1>1, <1>2, <2>1 DEF ScanInv
  <2> QED
    BY <1>1, <2>1 DEF ScanInv
<1>7. LoadInv'
  BY <1>1, <1>2, <1>3, <1>4, <1>5 DEF LoadInv
<1> QED
  BY <1>6, <1>7

LEMMA WritesKeepAhead ==
  ASSUME Types, AheadInv, NEW k \in Keys, Write(k) \/ Delete(k)
  PROVE  AheadInv'
<1>1. /\ \A j \in Present' : j # k => j \in Present
      /\ \A j \in Keys : j # k => cur'[j] = cur[j] /\ Version(j)' = Version(j)
      /\ k \in Present' => cur'[k] = clock + 1
      /\ touched' = touched \cup {k} /\ quiet' = FALSE
      /\ overlapped' = (overlapped \/ phase = "increment")
      /\ UNCHANGED <<conn, cursorType, server, phase, watermark, plan, scan, emitted, passes>>
  BY WriteFacts
<1>3. /\ clock \in Nat /\ watermark \in 0 .. clock
      /\ clock + 1 > watermark
      /\ clock + 1 > scan.newest /\ \A v \in scan.view : clock + 1 > v[2]
  BY ClockIsNat DEF Types, ScanType, VersionsTo
<1>4. \A j \in Present' : j \in Keys
  BY DEF Present
<1>6. \A j \in Present' : Ready(j)' <=> j = k \/ Ready(j)
  <2> SUFFICES ASSUME NEW j \in Present' PROVE Ready(j)' <=> j = k \/ Ready(j)
    OBVIOUS
  <2>1. CASE j = k
    BY <1>1, <1>3, <2>1 DEF Ready
  <2>2. CASE j # k
    BY <1>1, <1>4, <2>2 DEF Ready
  <2> QED
    BY <2>1, <2>2
<1>7. phase # "increment" => Undisturbed' = Undisturbed
  BY <1>1 DEF Undisturbed, Ordered
<1>8. phase = "increment" /\ Undisturbed' => conn \notin LiveReaders /\ Undisturbed
  BY <1>1 DEF Undisturbed, Ordered
<1>9. ASSUME NEW j \in Present', conn = "elasticsearch", \A i \in Present : InTime(i)
      PROVE  InTime(j)'
  <2>1. CASE j = k
    BY <1>1, <1>3, <2>1 DEF InTime
  <2>2. CASE j # k
    <3>1. InTime(j) /\ cur'[j] = cur[j] /\ Version(j)' = Version(j)
      BY <1>1, <1>4, <1>9, <2>2
    <3> QED
      BY <1>1, <3>1 DEF InTime
  <2> QED
    BY <2>1, <2>2
<1>10. conn \in Sorting \cup {"cassandra", "objectstore"} => conn \in LiveReaders
  BY DEF Sorting, LiveReaders
<1>11. phase = "idle" /\ Undisturbed' =>
          \A j \in Present' : Ready(j)'
  BY <1>1, <1>6, <1>7 DEF AheadInv, CaughtUp
<1>12. phase = "increment" /\ Undisturbed' /\ conn = "elasticsearch" =>
          \A j \in Present' : InTime(j)'
  BY <1>8, <1>9 DEF AheadInv, PassInv
<1>13. phase = "increment" /\ Undisturbed' => conn \notin Sorting \cup {"cassandra", "objectstore"}
  BY <1>8, <1>10
<1>14. phase = "idle" /\ Undisturbed' => CaughtUp'
  BY <1>1, <1>11 DEF CaughtUp
<1>15. phase = "increment" /\ Undisturbed' => PassInv'
  BY <1>1, <1>12, <1>13 DEF PassInv
<1> QED
  BY <1>1, <1>7, <1>14, <1>15 DEF AheadInv

-----------------------------------------------------------------------------
(* The planning of the load.                                               *)

LEMMA InChunkSame ==
  ASSUME UNCHANGED <<conn, page>>
  PROVE  \A k, c : InChunk(k, c)' = InChunk(k, c)
BY DEF InChunk, MysqlChunkQuery, MssqlChunkQuery, OracleChunkQuery, Db2ChunkQuery,
       SqliteChunkQuery, PostgresChunkQuery

\* A row belongs to one chunk of a plan.
LEMMA ChunkIsUnique ==
  ASSUME Types, NEW C, \A j \in Domain : OnceIn(C, j),
         conn \notin Ranged \cup PageAddressed => C = {WholeTable}, NEW k \in Keys
  PROVE  \E c \in C : InChunk(k, c) /\ \A d \in C : InChunk(k, d) => d = c
<1>1. CASE conn \in PageAddressed
  <2>1. page[k] \in Domain
    BY <1>1 DEF Types, Domain
  <2>2. \A c : InChunk(k, c) <=> Holds(c, page[k])
    BY <1>1, ChunkOf
  <2> QED
    BY <2>1, <2>2 DEF OnceIn
<1>2. CASE conn \in Ranged /\ conn \notin PageAddressed
  <2>1. k \in Domain
    BY <1>2, IntegerFacts DEF Domain
  <2>2. \A c : InChunk(k, c) <=> Holds(c, k)
    BY <1>2, ChunkOf
  <2> QED
    BY <2>1, <2>2 DEF OnceIn
<1>3. CASE conn \notin Ranged \cup PageAddressed
  <2>1. \A c : InChunk(k, c)
    BY <1>3, ChunkOf
  <2> QED
    BY <1>3, <2>1
<1> QED
  BY <1>1, <1>2, <1>3

\* Nothing is read while the plan is made.
LEMMA StillPlanning ==
  ASSUME ScanInv, LoadInv, AheadInv, phase \in {"split", "plan"},
         phase' \in {"split", "plan"}, ~ scan'.open, UNCHANGED <<conn, loads, passes>>
  PROVE  ScanInv' /\ LoadInv' /\ AheadInv'
<1>1. ScanInv'
  BY DEF ScanInv
<1>2. LoadInv'
  BY DEF LoadInv
<1>3. AheadInv'
  BY DEF AheadInv
<1> QED
  BY <1>1, <1>2, <1>3

\* A finished plan: all is still to be read.
LEMMA PlanReady ==
  ASSUME Types, PlanInv', ScanInv, LoadInv, AheadInv, phase \in {"split", "plan"},
         phase' = "load", left' = chunks', chunks' # {},
         conn \notin Ranged \cup PageAddressed => chunks' = {WholeTable},
         UNCHANGED <<conn, source, touched, watermark, scan, emitted, loads, passes>>
  PROVE  ScanInv' /\ LoadInv' /\ AheadInv'
<1>1. UNCHANGED <<cur, page>> /\ ~ scan.open
  BY DEF source, ScanInv
<1>2. ScanInv'
  BY <1>1 DEF ScanInv
<1>3. ASSUME Fits(plan)', NEW k \in Stable', conn # "redis" PROVE ReadOnce(k)'
  <2>1. k \in Keys
    BY <1>3 DEF Stable, Present
  <2>2. \A j \in Domain : OnceIn(chunks', j)
    <3>1. Domain' = Domain
      BY DEF Domain
    <3> QED
      BY <1>3, <3>1 DEF PlanInv
  <2>3. PICK c \in chunks' : InChunk(k, c)
    BY <2>1, <2>2, ChunkIsUnique
  <2>4. InChunk(k, c)' /\ ~ Passed(k)'
    BY <1>1, <2>3, InChunkSame DEF Passed
  <2>5. loads'[k] = 0
    BY <2>1 DEF LoadInv
  <2> QED
    BY <2>3, <2>4, <2>5 DEF ReadOnce, ToRead
<1>4. LoadInv'
  <2>1. \A k : ReadSome(k)'
    BY <1>1 DEF ReadSome
  <2> QED
    BY <1>3, <2>1 DEF LoadInv
<1>5. AheadInv'
  BY DEF AheadInv
<1> QED
  BY <1>2, <1>4, <1>5

LEMMA PlanningReads ==
  ASSUME Types, PlanInv, PlanInv', ScanInv, LoadInv, AheadInv,
         \/ LoopStep \/ OneChunkStep
         \/ PageRanges \/ PlanStep \/ FinishPlan
  PROVE  ScanInv' /\ LoadInv' /\ AheadInv'
<1>3. CASE LoopStep \/ PlanStep
  <2>1. /\ phase \in {"split", "plan"} /\ phase' = "plan"
        /\ UNCHANGED <<conn, cur, touched, watermark, loads, passes, scan>>
    BY <1>3 DEF LoopStep, StartLoop, PlanStep, source, history
  <2>2. ~ scan'.open
    BY <2>1 DEF ScanInv
  <2> QED
    BY <2>1, <2>2, StillPlanning
<1>4. CASE OneChunkStep
  <2>1. /\ phase = "split" /\ phase' = "load" /\ left' = chunks' /\ chunks' = {WholeTable}
        /\ UNCHANGED <<conn, source, touched, watermark, scan, emitted, loads, passes>>
    BY <1>4 DEF OneChunkStep, OneChunk, Planned, history
  <2> QED
    BY <2>1, PlanReady
<1>5. CASE PageRanges
  <2>1. /\ phase = "split" /\ phase' = "load" /\ left' = chunks' /\ conn \in PageAddressed
        /\ UNCHANGED <<conn, source, touched, watermark, scan, emitted, loads, passes>>
    BY <1>5 DEF PageRanges, Planned, history, PageAddressed
  <2>2. chunks' # {}
    <3> DEFINE range(n, p) == [min |-> p, max |-> IF p = n THEN Above ELSE p + 1]
    <3>1. PICK relpages \in {0} \cup {p + 1 : p \in Pages} :
            chunks' = IF relpages = 0
                      THEN {[min |-> 0, max |-> Above]}
                      ELSE {range(relpages - 1, p) : p \in 0 .. relpages - 1}
      BY <1>5 DEF PageRanges, Planned
    <3>2. relpages # 0 => 0 \in 0 .. relpages - 1
      BY IntegerFacts
    <3> HIDE DEF range
    <3>3. relpages # 0 => range(relpages - 1, 0) \in {range(relpages - 1, p) : p \in 0 .. relpages - 1}
      BY <3>2
    <3> QED
      BY <3>1, <3>3
  <2> QED
    BY <2>1, <2>2, PlanReady
<1>6. CASE FinishPlan
  <2>1. /\ phase = "plan" /\ phase' = "load" /\ left' = chunks' /\ chunks' # {}
        /\ UNCHANGED <<conn, source, touched, watermark, scan, emitted, loads, passes>>
    BY <1>6 DEF FinishPlan, Planned, history
  <2>2. conn \in Ranged
    BY <2>1 DEF PlanInv
  <2> QED
    BY <2>1, <2>2, PlanReady
<1> QED
  BY <1>3, <1>4, <1>5, <1>6

-----------------------------------------------------------------------------
(* The reads of the load.                                                  *)

LEMMA Delivered ==
  ASSUME Types, NEW V, Deliver(V), NEW k \in Keys
  PROVE  /\ emitted' = emitted \cup V
         /\ k \notin KeysOf(V) => loads'[k] = loads[k]
         /\ phase = "load" /\ k \in KeysOf(V) /\ loads[k] = 0 => loads'[k] = 1
<1>1. /\ emitted' = emitted \cup V
      /\ loads'[k] = IF phase = "load" /\ k \in KeysOf(V) /\ loads[k] < 2
                     THEN loads[k] + 1 ELSE loads[k]
  BY DEF Deliver
<1> QED
  BY <1>1

\* A row is delivered when its turn comes and at no other time.
LEMMA DeliverOnce ==
  ASSUME Types, NEW V, Deliver(V), phase = "load", UNCHANGED cur, NEW k \in Keys, ReadOnce(k),
         \/ Version(k) \in V /\ ToRead(k) /\ ~ ToRead(k)'
         \/ k \notin KeysOf(V) /\ (ToRead(k)' <=> ToRead(k))
  PROVE  ReadOnce(k)'
<1>1. Version(k)' = Version(k) /\ Version(k)[1] = k
  BY DEF Version
<1>2. CASE Version(k) \in V /\ ToRead(k) /\ ~ ToRead(k)'
  <2>1. loads[k] = 0 /\ k \in KeysOf(V)
    BY <1>1, <1>2 DEF ReadOnce, KeysOf
  <2>2. loads'[k] = 1 /\ Version(k)' \in emitted'
    BY <1>1, <1>2, <2>1, Delivered
  <2> QED
    BY <1>2, <2>2 DEF ReadOnce, WasRead
<1>3. CASE k \notin KeysOf(V) /\ (ToRead(k)' <=> ToRead(k))
  <2>1. loads'[k] = loads[k] /\ emitted \subseteq emitted'
    BY <1>3, Delivered
  <2> QED
    BY <1>1, <1>3, <2>1 DEF ReadOnce, WasRead
<1> QED
  BY <1>2, <1>3

LEMMA NothingDelivered ==
  ASSUME UNCHANGED <<cur, emitted, loads>>, NEW k, ReadOnce(k), ToRead(k)' <=> ToRead(k)
  PROVE  ReadOnce(k)'
BY DEF ReadOnce, WasRead, Version

\* The chunks of the load: a row lies in at most one.
LEMMA LoadChunks ==
  ASSUME Types, PlanInv, ScanInv, phase = "load", Fits(plan), NEW k \in Keys,
         NEW c \in left, NEW d \in left, InChunk(k, c), InChunk(k, d)
  PROVE  c = d
<1>1. \A j \in Domain : OnceIn(chunks, j)
  BY DEF PlanInv
<1>2. conn \notin Ranged \cup PageAddressed => chunks = {WholeTable}
  BY DEF ScanInv
<1>3. PICK e \in chunks : InChunk(k, e) /\ \A f \in chunks : InChunk(k, f) => f = e
  BY <1>1, <1>2, ChunkIsUnique
<1>4. c \in chunks /\ d \in chunks
  BY DEF Types
<1> QED
  BY <1>3, <1>4

\* What a read of the load has to keep.
LEMMA LoadGoesOn ==
  ASSUME Types, LoadInv, AheadInv, phase = "load", phase' \in {"load", "loaded", "failed"},
         UNCHANGED <<conn, source, plan, touched, overlapped, watermark, passes>>,
         phase' = "loaded" => left' = {},
         Fits(plan) /\ phase' # "failed" =>
            \A k \in Stable : IF conn = "redis"
                              THEN ReadSome(k)' /\ (phase' = "loaded" => Version(k) \in emitted')
                              ELSE ReadOnce(k)'
  PROVE  LoadInv' /\ AheadInv'
<1>1. /\ Fits(plan)' = Fits(plan) /\ Stable' = Stable /\ Present' = Present
      /\ \A k : Version(k)' = Version(k)
      /\ UNCHANGED <<cur, touched>>
  BY DEF Fits, Stable, Present, Version, source
<1>2. ASSUME phase' = "loaded", Fits(plan), NEW k \in Stable
      PROVE  Version(k)' \in emitted' /\ (conn # "redis" => loads'[k] = 1)
  <2>1. CASE conn = "redis"
    BY <1>1, <1>2, <2>1
  <2>2. CASE conn # "redis"
    <3>1. ReadOnce(k)' /\ ~ ToRead(k)'
      BY <1>2, <2>2 DEF ToRead
    <3> QED
      BY <3>1 DEF ReadOnce, WasRead
  <2> QED
    BY <2>1, <2>2
<1>3. LoadInv'
  BY <1>1, <1>2 DEF LoadInv
<1>4. passes' = 0
  BY DEF AheadInv
<1>5. AheadInv'
  BY <1>4 DEF AheadInv
<1> QED
  BY <1>3, <1>5

\* One chunk less to read.
LEMMA EndOfChunkReads ==
  ASSUME Types, PlanInv, ScanInv, phase = "load", NEW c \in left, EndOfChunk(c),
         scan.open => c = scan.chunk, UNCHANGED <<conn, page, chunks>>
  PROVE  /\ ScanInv' /\ phase' \in {"load", "loaded"} /\ (phase' = "loaded" => left' = {})
         /\ Fits(plan) => \A k \in Keys :
              /\ InChunk(k, c) => ~ ToRead(k)'
              /\ ~ InChunk(k, c) \/ (c = scan.chunk /\ Passed(k)) => (ToRead(k)' <=> ToRead(k))
<1>1. /\ left' = left \ {c} /\ ~ scan'.open /\ phase' \in {"load", "loaded"}
      /\ phase' = "loaded" <=> left' = {}
  BY DEF EndOfChunk, NoScan
<1>2. ScanInv'
  BY <1>1 DEF ScanInv
<1>3. \A k : ToRead(k)' <=> \E d \in left \ {c} : InChunk(k, d)
  BY <1>1, InChunkSame DEF ToRead, Passed
<1>4. ASSUME Fits(plan), NEW k \in Keys, InChunk(k, c) PROVE ~ ToRead(k)'
  BY <1>3, <1>4, LoadChunks
<1>5. ASSUME Fits(plan), NEW k \in Keys, ~ InChunk(k, c) \/ (c = scan.chunk /\ Passed(k))
      PROVE  ToRead(k)' <=> ToRead(k)
  <2>1. CASE InChunk(k, c)
    <3>1. ~ ToRead(k)
      BY <1>5, <2>1, LoadChunks DEF ToRead
    <3> QED
      BY <1>4, <1>5, <2>1, <3>1
  <2>2. CASE ~ InChunk(k, c)
    <3>1. \A d \in left : InChunk(k, d) => d # c /\ ~ (d = scan.chunk /\ Passed(k))
      BY <2>2 DEF Passed
    <3> QED
      BY <1>3, <3>1 DEF ToRead
  <2> QED
    BY <2>1, <2>2
<1> QED
  BY <1>1, <1>2, <1>4, <1>5

LEMMA SelectReads ==
  ASSUME Types, PlanInv, ScanInv, LoadInv, AheadInv, SelectStep
  PROVE  ScanInv' /\ LoadInv' /\ AheadInv'
<1>1. PICK c \in left : SelectChunk(c)
  BY DEF SelectStep
<1> DEFINE V == {Version(k) : k \in {j \in Present : InChunk(j, c)}}
<1>2. /\ phase = "load" /\ Deliver(V) /\ EndOfChunk(c) /\ ~ scan.open
      /\ conn # "redis"
      /\ UNCHANGED <<conn, cursorType, server, source, watermark, plan, chunks, history, passes>>
  BY <1>1 DEF SelectChunk, ScanInv, SelectStep, Selecting, Postgres
<1>3. \A k \in Present : Version(k) \in V <=> InChunk(k, c)
  BY DEF Version
<1>4. \A k : k \in KeysOf(V) => InChunk(k, c)
  BY DEF KeysOf, Version
<1> HIDE DEF V
<1>5. /\ ScanInv' /\ phase' \in {"load", "loaded"} /\ (phase' = "loaded" => left' = {})
      /\ Fits(plan) => \A k \in Keys :
           /\ InChunk(k, c) => ~ ToRead(k)'
           /\ ~ InChunk(k, c) => (ToRead(k)' <=> ToRead(k))
  BY <1>2, EndOfChunkReads DEF source
<1>6. ASSUME Fits(plan), NEW k \in Stable PROVE ReadOnce(k)'
  <2>1. k \in Keys /\ k \in Present /\ ReadOnce(k) /\ UNCHANGED cur
    BY <1>2, <1>6 DEF Stable, Present, LoadInv, source
  <2>2. CASE InChunk(k, c)
    <3>1. ToRead(k)
      BY <1>2, <2>2 DEF ToRead, Passed
    <3> QED
      BY <1>2, <1>3, <1>5, <1>6, <2>1, <2>2, <3>1, DeliverOnce
  <2>3. CASE ~ InChunk(k, c)
    BY <1>2, <1>4, <1>5, <1>6, <2>1, <2>3, DeliverOnce
  <2> QED
    BY <2>2, <2>3
<1>7. UNCHANGED <<conn, source, plan, touched, overlapped, watermark, passes>>
  BY <1>2 DEF history
<1> QED
  BY <1>2, <1>5, <1>6, <1>7, LoadGoesOn

\* A read is opened at the start of its chunk.
LEMMA OpenScanReads ==
  ASSUME Types, PlanInv, ScanInv, LoadInv, AheadInv, NEW c \in left, OpenScan(c),
         conn \notin Selecting \cup {"elasticsearch"}
  PROVE  ScanInv' /\ LoadInv' /\ AheadInv'
<1>1. /\ phase = "load" /\ ~ scan.open /\ UNCHANGED <<phase, left>>
      /\ scan'.chunk = c /\ scan'.open /\ scan'.pos = Below /\ scan'.item = <<>> /\ scan'.view = {}
      /\ UNCHANGED <<conn, source, plan, chunks, emitted, loads, touched, overlapped,
                     watermark, passes>>
  BY OpenScanFields DEF OpenScan, history
<1>2. ScanInv'
  BY <1>1 DEF ScanInv
<1>3. ASSUME Fits(plan), NEW k \in Stable, conn # "redis" PROVE ReadOnce(k)'
  <2>1. k \in Keys /\ ReadOnce(k) /\ UNCHANGED <<cur, page>>
    BY <1>1, <1>3 DEF Stable, Present, LoadInv, source
  <2>2. ~ Passed(k) /\ ~ Passed(k)'
    <3>1. ~ (k <= Below)
      BY <2>1, IntegerFacts
    <3> QED
      BY <1>1, <3>1 DEF Passed
  <2>3. ToRead(k)' <=> ToRead(k)
    BY <1>1, <2>1, <2>2, InChunkSame DEF ToRead
  <2> QED
    BY <1>1, <2>1, <2>3, NothingDelivered
<1>4. \A k : ReadSome(k)'
  BY <1>1 DEF ReadSome, Returned, KeysOf
<1> QED
  BY <1>1, <1>2, <1>3, <1>4, LoadGoesOn

LEMMA WalkReads ==
  ASSUME Types, PlanInv, ScanInv, LoadInv, AheadInv, WalkStep
  PROVE  ScanInv' /\ LoadInv' /\ AheadInv'
<1>1. conn \in Walking /\ conn \notin Selecting \cup {"elasticsearch", "objectstore", "redis"}
  BY DEF WalkStep, Walking, Selecting, Postgres
<1>2. ASSUME NEW c \in left, OpenScan(c) PROVE ScanInv' /\ LoadInv' /\ AheadInv'
  BY <1>1, <1>2, OpenScanReads
<1>3. CASE WalkChunk
  <2>1. /\ phase = "load" /\ scan.open /\ scan.chunk \in left
        /\ UNCHANGED <<conn, source, plan, chunks, touched, overlapped, watermark, passes>>
        /\ UNCHANGED <<cur, page>>
    BY <1>3 DEF WalkChunk, ScanInv, history, source
  <2>2. \A k : Passed(k) <=> k <= scan.pos
    BY <1>1, <2>1 DEF Passed
  <2>3. \A k \in Stable : k \in Keys /\ k \in Present /\ k \in Int
    BY PresentFacts DEF Stable
  <2>4. Fits(plan) => \A k \in Stable : ReadOnce(k)
    BY <1>1, <2>1 DEF LoadInv
  <2>5. scan.pos \in Int
    BY IntegerFacts DEF Types, ScanType
  <2>6. CASE Ahead = {}
    <3>1. EndOfChunk(scan.chunk) /\ UNCHANGED <<emitted, loads>>
      BY <1>3, <2>6 DEF WalkChunk
    <3>2. ASSUME NEW k \in Stable PROVE ~ InChunk(k, scan.chunk) \/ Passed(k)
      BY <2>2, <2>3, <2>5, <2>6 DEF Ahead
    <3>3. /\ ScanInv' /\ phase' \in {"load", "loaded"} /\ (phase' = "loaded" => left' = {})
          /\ Fits(plan) => \A k \in Keys :
                ~ InChunk(k, scan.chunk) \/ Passed(k) => (ToRead(k)' <=> ToRead(k))
      BY <2>1, <3>1, EndOfChunkReads
    <3>4. ASSUME Fits(plan), NEW k \in Stable PROVE ReadOnce(k)'
      BY <2>1, <2>3, <2>4, <3>1, <3>2, <3>3, <3>4, NothingDelivered
    <3> QED
      BY <1>1, <2>1, <3>3, <3>4, LoadGoesOn
  <2>7. CASE Ahead # {}
    <3> DEFINE m == SetMin(Ahead)
    <3>1. /\ Deliver({Version(m)}) /\ scan' = [scan EXCEPT !.pos = m]
          /\ UNCHANGED <<phase, left>>
      BY <1>3, <2>7 DEF WalkChunk
    <3>2. m \in Ahead /\ \A k \in Ahead : m <= k
      BY <2>7, PresentFacts DEF Ahead, Present
    <3> HIDE DEF m
    <3>3. m \in Keys /\ m \in Int /\ m > scan.pos /\ InChunk(m, scan.chunk) /\ m \in Present
      BY <3>2, PresentFacts DEF Ahead
    <3>4. scan'.open /\ scan'.chunk = scan.chunk /\ scan'.pos = m
      BY <2>1, <3>1 DEF Types, ScanType
    <3>5. ScanInv'
      BY <1>1, <2>1, <3>1, <3>4 DEF ScanInv
    <3>6. \A k : Passed(k)' <=> k <= m
      BY <1>1, <2>1, <3>4 DEF Passed
    <3>7. \A k : ToRead(k)' <=> \E c \in left : InChunk(k, c) /\ ~ (c = scan.chunk /\ k <= m)
      BY <2>1, <3>1, <3>4, <3>6, InChunkSame DEF ToRead
    <3>8. KeysOf({Version(m)}) = {m}
      BY DEF KeysOf, Version
    <3>9. ASSUME Fits(plan), NEW k \in Stable PROVE ReadOnce(k)'
      <4>1. k \in Keys /\ k \in Present /\ k \in Int /\ ReadOnce(k)
        BY <2>3, <2>4, <3>9
      <4>2. CASE k = m
        <5>1. ToRead(k)
          BY <2>1, <2>2, <2>5, <3>3, <4>2 DEF ToRead
        <5>2. ~ ToRead(k)'
          BY <2>1, <3>3, <3>7, <3>9, <4>2, LoadChunks
        <5> QED
          BY <2>1, <3>1, <4>1, <4>2, <5>1, <5>2, DeliverOnce
      <4>3. CASE k # m
        <5>1. InChunk(k, scan.chunk) => (k <= m <=> k <= scan.pos)
          BY <2>5, <3>2, <3>3, <4>1, <4>3 DEF Ahead
        <5>2. ToRead(k)' <=> ToRead(k)
          BY <2>2, <3>7, <5>1 DEF ToRead
        <5> QED
          BY <2>1, <3>1, <3>8, <4>1, <4>3, <5>2, DeliverOnce
      <4> QED
        BY <4>2, <4>3
    <3> QED
      BY <1>1, <2>1, <3>1, <3>5, <3>9, LoadGoesOn
  <2> QED
    BY <2>6, <2>7
<1> QED
  BY <1>2, <1>3 DEF WalkStep, ScanChunk

\* A page of elasticsearch that is not full is all there is.
LEMMA ShortPage ==
  ASSUME NEW n \in Nat, NEW V \in SUBSET VersionsTo(n), Cardinality(Page(V)) < PageSize
  PROVE  Page(V) = V
<1>1. IsFiniteSet(VersionsTo(n))
  <2>1. IsFiniteSet(MinInt .. MaxInt)
    BY IntegerFacts, FS_Interval
  <2>2. IsFiniteSet(Keys)
    BY <2>1, IntegerFacts, FS_Subset
  <2>3. IsFiniteSet(0 .. n)
    BY FS_Interval
  <2> QED
    BY <2>2, <2>3, FS_Product DEF VersionsTo
<1>2. IsFiniteSet(Page(V)) /\ Page(V) \subseteq V
  BY <1>1, FS_Subset DEF Page
<1>3. SUFFICES ASSUME V \ Page(V) # {} PROVE FALSE
  BY <1>2
<1> DEFINE rest == V \ Page(V)
<1>4. \A v \in V : v[1] \in Keys /\ v[1] \in Int /\ v[2] \in Nat
  <2>1. \A v \in V : v[1] \in Keys /\ v[2] \in 0 .. n
    BY DEF VersionsTo
  <2>2. \A k \in Keys : k \in Int
    BY IntegerFacts
  <2> QED
    BY <2>1, <2>2
<1>5. PICK x \in rest : \A u \in rest : ~ Before(u, x)
  <2>1. ASSUME NEW S, S \subseteq rest, S # {}
        PROVE  \E x \in S : \A u \in S : x[1] <= u[1]
    <3> DEFINE ids == {v[1] : v \in S}
    <3>1. ids \subseteq Keys /\ ids # {}
      BY <1>4, <2>1
    <3>2. SetMin(ids) \in ids /\ \A k \in ids : SetMin(ids) <= k
      BY <3>1, PresentFacts
    <3>3. PICK x \in S : SetMin(ids) = x[1]
      BY <3>2
    <3>4. \A u \in S : u[1] \in ids
      OBVIOUS
    <3> QED
      BY <3>2, <3>3, <3>4
  <2>2. CASE phase # "increment"
    <3>1. PICK x \in rest : \A u \in rest : x[1] <= u[1]
      BY <1>3, <2>1
    <3>2. \A u \in rest : ~ (u[1] < x[1])
      BY <1>4, <3>1
    <3> QED
      BY <2>2, <3>2 DEF Before
  <2>3. CASE phase = "increment"
    <3> DEFINE stamps == {v[2] : v \in rest}
    <3>1. stamps \in SUBSET Nat /\ stamps # {}
      BY <1>3, <1>4
    <3>2. PICK m \in stamps : \A y \in stamps : m <= y
      BY <3>1, NatHasLeast
    <3> DEFINE S == {v \in rest : v[2] = m}
    <3>3. S \subseteq rest /\ S # {}
      BY <3>2
    <3>4. PICK x \in S : \A u \in S : x[1] <= u[1]
      BY <2>1, <3>3
    <3>5. ASSUME NEW u \in rest PROVE ~ Before(u, x)
      <4>1. u[2] \in stamps /\ x[2] = m /\ m \in Nat /\ u[2] \in Nat
        BY <1>4, <3>1
      <4>2. m <= u[2]
        BY <3>2, <4>1
      <4>3. CASE u[2] = m
        <5>1. x[1] <= u[1] /\ x[1] \in Int /\ u[1] \in Int
          BY <1>4, <3>4, <4>3
        <5> QED
          BY <2>3, <4>1, <4>3, <5>1 DEF Before
      <4>4. CASE u[2] # m
        <5>1. ~ (u[2] < x[2])
          BY <4>1, <4>2
        <5> QED
          BY <2>3, <4>1, <4>4, <5>1 DEF Before
      <4> QED
        BY <4>3, <4>4
    <3> QED
      BY <3>5
  <2> QED
    BY <2>2, <2>3
<1> DEFINE earlier == {u \in V : Before(u, x)}
<1>6. earlier \subseteq Page(V)
  BY <1>5
<1>7. IsFiniteSet(earlier) /\ Cardinality(earlier) <= Cardinality(Page(V))
  BY <1>2, <1>6, FS_Subset
<1>8. Cardinality(earlier) \in Nat /\ Cardinality(Page(V)) \in Nat /\ PageSize \in Nat
  BY <1>2, <1>7, FS_CardinalityType, SourcesAssumption DEF SourcesAssumption
<1>9. Cardinality(earlier) < PageSize
  BY <1>7, <1>8
<1> HIDE DEF earlier
<1>10. x \in Page(V)
  BY <1>5, <1>9 DEF Page, earlier
<1> QED
  BY <1>5, <1>10

\* One page: it is delivered, and it is the last one or the rest remains.
LEMMA PageStep ==
  ASSUME Types, NEW done, NEW end, ScanSearchAfter(done, end)
  PROVE  /\ scan.open /\ Deliver(Page(scan.view)) /\ Page(scan.view) \subseteq scan.view
         /\ UNCHANGED <<conn, cursorType, server, source, plan, chunks, history, passes>>
         /\ \E last \in 0 .. clock :
              /\ last = scan.newest \/ \E v \in scan.view : last = v[2]
              /\ \/ /\ Page(scan.view) = scan.view /\ left' = left \ {WholeTable}
                    /\ phase' = done /\ ~ scan'.open /\ watermark' = end[last]
                 \/ /\ scan'.view = scan.view \ Page(scan.view) /\ scan'.newest = last
                    /\ scan'.open /\ scan'.chunk = scan.chunk
                    /\ UNCHANGED <<left, phase, watermark>>
<1> DEFINE hits == Page(scan.view)
           last == IF hits = {} THEN scan.newest ELSE SetMax({v[2] : v \in hits})
<1>1. scan.view \in SUBSET VersionsTo(clock) /\ scan.newest \in 0 .. clock /\ hits \subseteq scan.view
      /\ clock \in Nat
  BY ClockIsNat DEF Types, ScanType, Page
<1>2. last \in 0 .. clock /\ (last = scan.newest \/ \E v \in scan.view : last = v[2])
  <2>1. CASE hits = {}
    BY <1>1, <2>1
  <2>2. CASE hits # {}
    <3> DEFINE S == {v[2] : v \in hits}
    <3>1. S \subseteq 0 .. clock /\ S # {}
      BY <1>1, <2>2 DEF VersionsTo
    <3>2. SetMax(S) \in S /\ SetMax(S) \in 0 .. clock
      BY <1>1, <3>1, NewestOf
    <3>3. \A x \in S : \E v \in scan.view : x = v[2]
      BY <1>1
    <3>4. last = SetMax(S)
      BY <2>2
    <3> HIDE DEF S, last
    <3> QED
      BY <3>2, <3>3, <3>4
  <2> QED
    BY <2>1, <2>2
<1>3. /\ scan.open /\ Deliver(hits)
      /\ UNCHANGED <<conn, cursorType, server, source, plan, chunks, history, passes>>
      /\ \/ /\ Cardinality(hits) < PageSize
            /\ left' = left \ {WholeTable} /\ phase' = done /\ scan' = NoScan
            /\ watermark' = end[last]
         \/ /\ scan' = [scan EXCEPT !.view = SearchAfter(@), !.newest = last]
            /\ UNCHANGED <<left, phase, watermark>>
  BY Zenon DEF ScanSearchAfter
<1>4. Cardinality(hits) < PageSize => hits = scan.view
  BY <1>1, ShortPage
<1>5. ~ NoScan.open
  BY DEF NoScan
<1> DEFINE rest == SearchAfter(scan.view)
<1>6. rest = scan.view \ hits
  BY DEF SearchAfter
<1> HIDE DEF hits, last, rest
<1>7. LET s == [scan EXCEPT !.view = rest, !.newest = last]
      IN s.view = rest /\ s.newest = last /\ s.open = scan.open /\ s.chunk = scan.chunk
  BY DEF Types, ScanType
<1>8. \/ /\ hits = scan.view /\ left' = left \ {WholeTable}
         /\ phase' = done /\ ~ scan'.open /\ watermark' = end[last]
      \/ /\ scan'.view = scan.view \ hits /\ scan'.newest = last
         /\ scan'.open /\ scan'.chunk = scan.chunk
         /\ UNCHANGED <<left, phase, watermark>>
  <2>1. CASE /\ Cardinality(hits) < PageSize
             /\ left' = left \ {WholeTable} /\ phase' = done /\ scan' = NoScan
             /\ watermark' = end[last]
    BY <1>4, <1>5, <2>1, Zenon
  <2>2. CASE /\ scan' = [scan EXCEPT !.view = SearchAfter(@), !.newest = last]
             /\ UNCHANGED <<left, phase, watermark>>
    <3>1. scan' = [scan EXCEPT !.view = rest, !.newest = last]
      BY <2>2 DEF rest
    <3> QED
      BY <1>3, <1>6, <1>7, <2>2, <3>1, Zenon
  <2> QED
    BY <1>3, <2>1, <2>2
<1> QED
  BY <1>1, <1>2, <1>3, <1>8 DEF hits

LEMMA ElasticsearchReads ==
  ASSUME Types, PlanInv, ScanInv, LoadInv, AheadInv, ElasticsearchReadChunk
  PROVE  ScanInv' /\ LoadInv' /\ AheadInv'
<1>1. /\ conn = "elasticsearch" /\ phase = "load" /\ chunks = {WholeTable} /\ left = {WholeTable}
      /\ conn \notin Selecting /\ conn \notin Ranged \cup PageAddressed
      /\ \A k : InChunk(k, WholeTable)
  <2>1. conn = "elasticsearch" /\ phase = "load" /\ left \subseteq chunks /\ left # {}
    BY DEF ElasticsearchReadChunk, Types, ScanInv
  <2>2. conn \notin Selecting /\ conn \notin Ranged \cup PageAddressed
    BY <2>1 DEF Selecting, Ranged, KeysetPostgres, Postgres, IntegerKeyed, PageAddressed
  <2>3. chunks = {WholeTable}
    BY <2>1, <2>2 DEF ScanInv
  <2> QED
    BY <2>1, <2>2, <2>3, ChunkOf
<1>2. \A k : ToRead(k) <=> ~ (scan.open /\ scan.chunk = WholeTable /\ Version(k) \notin scan.view)
  BY <1>1 DEF ToRead, Passed
<1>3. \A k \in Stable : k \in Keys /\ k \in Present
  BY DEF Stable, Present
<1>4. Fits(plan) => \A k \in Stable : ReadOnce(k)
  BY <1>1 DEF LoadInv
<1>5. CASE /\ ~ scan.open /\ OpenPIT({Version(k) : k \in Present})
           /\ UNCHANGED <<conn, cursorType, server, source, phase, watermark, plan,
                          chunks, left, emitted, loads, history, passes>>
  <2> DEFINE V == {Version(k) : k \in Present}
  <2>1. scan'.view = V /\ scan'.open /\ scan'.chunk = WholeTable
    BY <1>5 DEF OpenPIT, NoScan
  <2>2. \A v \in V : v = Version(v[1])
    BY DEF Version
  <2>3. \A k \in Present : Version(k) \in V
    OBVIOUS
  <2> HIDE DEF V
  <2>4. UNCHANGED <<cur, page>> /\ \A k : Version(k)' = Version(k)
    BY <1>5 DEF source, Version
  <2>5. ScanInv'
    BY <1>1, <1>5, <2>1, <2>2, <2>4 DEF ScanInv
  <2>6. ASSUME Fits(plan), NEW k \in Stable PROVE ReadOnce(k)'
    <3>1. ToRead(k)
      BY <1>2, <1>5
    <3>2. Version(k)' \in scan'.view
      BY <1>3, <2>1, <2>3, <2>4, <2>6
    <3>3. ToRead(k)'
      BY <1>1, <1>5, <2>4, <3>2, InChunkSame DEF ToRead, Passed
    <3> QED
      BY <1>4, <1>5, <2>4, <2>6, <3>1, <3>3, NothingDelivered
  <2>7. UNCHANGED <<conn, source, plan, touched, overlapped, watermark, passes, phase>>
    BY <1>5 DEF history
  <2> QED
    BY <1>1, <2>5, <2>6, <2>7, LoadGoesOn
<1>6. CASE ScanSearchAfter("loaded", [c \in 0 .. clock |-> watermark])
  <2> DEFINE hits == Page(scan.view)
  <2>1. /\ scan.open /\ Deliver(hits) /\ hits \subseteq scan.view
        /\ UNCHANGED <<conn, source, plan, chunks, touched, overlapped, passes>>
    BY <1>6, PageStep DEF history
  <2>2. /\ \/ /\ hits = scan.view /\ left' = {} /\ phase' = "loaded" /\ ~ scan'.open
           \/ /\ scan'.view = scan.view \ hits /\ scan'.open /\ scan'.chunk = scan.chunk
              /\ UNCHANGED <<left, phase>>
        /\ watermark' = watermark
    <3>1. PICK last \in 0 .. clock :
            \/ /\ hits = scan.view /\ left' = left \ {WholeTable}
               /\ phase' = "loaded" /\ ~ scan'.open
               /\ watermark' = [c \in 0 .. clock |-> watermark][last]
            \/ /\ scan'.view = scan.view \ hits
               /\ scan'.open /\ scan'.chunk = scan.chunk
               /\ UNCHANGED <<left, phase, watermark>>
      BY <1>6, PageStep
    <3>2. [c \in 0 .. clock |-> watermark][last] = watermark
      OBVIOUS
    <3> HIDE DEF hits
    <3> QED
      BY <1>1, <3>1, <3>2
  <2> HIDE DEF hits
  <2>3. UNCHANGED <<cur, page, touched>> /\ Stable' = Stable /\ \A k : Version(k)' = Version(k)
    BY <2>1 DEF source, Version, Stable, Present
  <2>4. scan.chunk = WholeTable /\ \A v \in scan.view : v[1] \in Stable => v = Version(v[1])
    BY <1>1, <2>1 DEF ScanInv
  <2>5. ScanInv'
    BY <1>1, <2>1, <2>2, <2>3, <2>4 DEF ScanInv
  <2>6. ASSUME Fits(plan), NEW k \in Stable PROVE ReadOnce(k)'
    <3>1. ToRead(k) <=> Version(k) \in scan.view
      BY <1>2, <2>1, <2>4
    <3>2. ToRead(k)' <=> Version(k) \in scan.view \ hits
      <4>1. CASE left' = {} /\ hits = scan.view
        BY <4>1 DEF ToRead
      <4>2. CASE scan'.view = scan.view \ hits /\ scan'.open /\ scan'.chunk = scan.chunk
                 /\ UNCHANGED left
        BY <1>1, <2>1, <2>3, <2>4, <4>2, InChunkSame DEF ToRead, Passed
      <4> QED
        BY <2>2, <4>1, <4>2
    <3>3. k \in KeysOf(hits) => Version(k) \in hits
      BY <2>1, <2>4, <2>6 DEF KeysOf
    <3>4. k \in Keys /\ ReadOnce(k)
      BY <1>3, <1>4, <2>6
    <3>5. CASE Version(k) \in hits
      BY <1>1, <2>1, <2>3, <3>1, <3>2, <3>4, <3>5, DeliverOnce
    <3>6. CASE Version(k) \notin hits
      BY <1>1, <2>1, <2>3, <3>1, <3>2, <3>3, <3>4, <3>6, DeliverOnce
    <3> QED
      BY <3>5, <3>6
  <2>7. phase' \in {"load", "loaded"} /\ (phase' = "loaded" => left' = {})
    BY <1>1, <2>2
  <2> QED
    BY <1>1, <2>1, <2>2, <2>5, <2>6, <2>7, LoadGoesOn
<1> QED
  BY <1>5, <1>6, Zenon DEF ElasticsearchReadChunk

\* What a listing and the reads of its objects do to the scan, in a load or an increment.
LEMMA ListStep ==
  ASSUME Types, ListObject
  PROVE  /\ scan.open /\ scan.item = <<>> /\ SetMin(Unlisted) \in Present
         /\ SetMin(Unlisted) > scan.pos /\ \A k \in Present : k > scan.pos => SetMin(Unlisted) <= k
         /\ scan'.open /\ scan'.chunk = scan.chunk /\ scan'.pos = SetMin(Unlisted)
         /\ scan'.newest = scan.newest
         /\ scan'.item = IF phase = "load" \/ Newer(SetMin(Unlisted))
                         THEN Version(SetMin(Unlisted)) ELSE <<>>
         /\ UNCHANGED <<conn, cursorType, server, source, phase, watermark, plan, chunks, left,
                        emitted, loads, history, passes>>
<1> DEFINE k == SetMin(Unlisted)
           item == IF phase = "load" \/ Newer(k) THEN Version(k) ELSE <<>>
<1>1. /\ scan.open /\ scan.item = <<>> /\ Unlisted # {}
      /\ scan' = [scan EXCEPT !.pos = k, !.item = item]
      /\ UNCHANGED <<conn, cursorType, server, source, phase, watermark, plan, chunks,
                     left, emitted, loads, history, passes>>
  BY Zenon DEF ListObject
<1>2. k \in Unlisted /\ \A j \in Unlisted : k <= j
  BY <1>1, PresentFacts DEF Unlisted
<1> HIDE DEF k, item
<1>3. LET s == [scan EXCEPT !.pos = k, !.item = item]
      IN s.pos = k /\ s.item = item /\ s.open = scan.open /\ s.chunk = scan.chunk
         /\ s.newest = scan.newest
  BY DEF Types, ScanType
<1>4. k \in Present /\ k > scan.pos /\ \A j \in Present : j > scan.pos => k <= j
  BY <1>2 DEF Unlisted
<1>5. /\ scan'.open /\ scan'.chunk = scan.chunk /\ scan'.pos = k /\ scan'.item = item
      /\ scan'.newest = scan.newest
  BY <1>1, <1>3, Zenon
<1> QED
  BY <1>1, <1>4, <1>5 DEF k, item

LEMMA ReadObjectStep ==
  ASSUME Types, ReadObject
  PROVE  /\ scan.open /\ scan.item # <<>> /\ scan.item[1] \in Keys
         /\ UNCHANGED <<conn, cursorType, server, source, watermark, plan, chunks, left, history, passes>>
         /\ \/ /\ scan.item[1] \in Present /\ Deliver({Version(scan.item[1])})
               /\ scan'.open /\ scan'.chunk = scan.chunk /\ scan'.pos = scan.pos
               /\ scan'.item = <<>> /\ UNCHANGED phase
            \/ scan.item[1] \notin Present /\ phase' = "failed" /\ ~ scan'.open
<1> DEFINE k == scan.item[1]
           m == SetMax({scan.newest, scan.item[2]})
<1>1. /\ scan.open /\ scan.item # <<>>
      /\ UNCHANGED <<conn, cursorType, server, source, watermark, plan, chunks, left,
                     history, passes>>
      /\ \/ /\ k \in Present /\ Deliver({Version(k)})
            /\ scan' = [scan EXCEPT !.item = <<>>, !.newest = m]
            /\ UNCHANGED phase
         \/ k \notin Present /\ phase' = "failed" /\ scan' = NoScan
  BY Zenon DEF ReadObject
<1>2. k \in Keys
  BY <1>1 DEF Types, ScanType, VersionsTo
<1>3. ~ NoScan.open
  BY DEF NoScan
<1> HIDE DEF k, m
<1>4. LET s == [scan EXCEPT !.item = <<>>, !.newest = m]
      IN s.pos = scan.pos /\ s.item = <<>> /\ s.open = scan.open /\ s.chunk = scan.chunk
  BY DEF Types, ScanType
<1>5. scan' = [scan EXCEPT !.item = <<>>, !.newest = m] =>
         scan'.open /\ scan'.chunk = scan.chunk /\ scan'.pos = scan.pos /\ scan'.item = <<>>
  BY <1>1, <1>4, Zenon
<1>6. \/ /\ k \in Present /\ Deliver({Version(k)})
         /\ scan'.open /\ scan'.chunk = scan.chunk /\ scan'.pos = scan.pos
         /\ scan'.item = <<>> /\ UNCHANGED phase
      \/ k \notin Present /\ phase' = "failed" /\ ~ scan'.open
  BY <1>1, <1>3, <1>5, Zenon
<1> QED
  BY <1>1, <1>2, <1>6 DEF k

LEMMA ObjectstoreReads ==
  ASSUME Types, PlanInv, ScanInv, LoadInv, AheadInv, ObjectstoreReadChunk
  PROVE  ScanInv' /\ LoadInv' /\ AheadInv'
<1>1. conn = "objectstore" /\ phase = "load" /\ conn \notin Selecting \cup {"elasticsearch", "redis"}
      /\ conn \notin Ranged \cup PageAddressed
  BY DEF ObjectstoreReadChunk, Selecting, Ranged, KeysetPostgres, Postgres, IntegerKeyed, PageAddressed
<1>2. \A k, c : InChunk(k, c)
  BY <1>1, ChunkOf
<1>3. \A k \in Stable : k \in Keys /\ k \in Present /\ k \in Int
  BY PresentFacts DEF Stable
<1>4. Fits(plan) => \A k \in Stable : ReadOnce(k)
  BY <1>1 DEF LoadInv
<1>5. scan.pos \in Int
  BY IntegerFacts DEF Types, ScanType
<1>6. \A k : Passed(k) <=> scan.open /\ k <= scan.pos /\ (scan.item = <<>> \/ scan.item[1] # k)
  BY <1>1 DEF Passed
<1>7. chunks = {WholeTable} /\ left = {WholeTable} /\ (scan.open => scan.chunk = WholeTable)
  BY <1>1 DEF Types, ScanInv
<1>8. CASE \E c \in left : OpenScan(c)
  BY <1>1, <1>8, OpenScanReads
<1>9. CASE ListObject
  <2> DEFINE m == SetMin(Unlisted)
  <2>1. /\ scan.open /\ scan.item = <<>> /\ m \in Present /\ m > scan.pos
        /\ \A k \in Present : k > scan.pos => m <= k
        /\ scan'.open /\ scan'.chunk = scan.chunk /\ scan'.pos = m /\ scan'.item = Version(m)
        /\ UNCHANGED <<conn, source, phase, watermark, plan, chunks, left,
                       emitted, loads, touched, overlapped, passes>>
    BY <1>1, <1>9, ListStep DEF history
  <2> HIDE DEF m
  <2>2. m \in Int /\ Version(m) # <<>> /\ Version(m)[1] = m /\ UNCHANGED <<cur, page>>
    BY <2>1, PresentFacts DEF Version, source
  <2>3. ScanInv'
    BY <1>1, <1>7, <2>1, <2>2 DEF ScanInv
  <2>4. ASSUME Fits(plan), NEW k \in Stable PROVE ReadOnce(k)'
    <3>1. Passed(k)' <=> k <= m /\ k # m
      BY <1>1, <2>1, <2>2 DEF Passed
    <3>2. Passed(k)' <=> Passed(k)
      BY <1>3, <1>5, <1>6, <2>1, <2>2, <2>4, <3>1
    <3>3. ToRead(k)' <=> ToRead(k)
      BY <2>1, <2>2, <3>2, InChunkSame DEF ToRead
    <3> QED
      BY <1>4, <2>1, <2>2, <2>4, <3>3, NothingDelivered
  <2> QED
    BY <1>1, <2>1, <2>3, <2>4, LoadGoesOn
<1>10. CASE ReadObject
  <2> DEFINE m == scan.item[1]
  <2>1. /\ scan.open /\ scan.item # <<>> /\ m \in Keys /\ m = scan.pos
        /\ UNCHANGED <<conn, source, watermark, plan, chunks, left, touched, overlapped, passes>>
        /\ \/ /\ m \in Present /\ Deliver({Version(m)})
              /\ scan'.open /\ scan'.chunk = scan.chunk /\ scan'.pos = scan.pos
              /\ scan'.item = <<>> /\ UNCHANGED phase
           \/ phase' = "failed" /\ ~ scan'.open
    BY <1>1, <1>10, ReadObjectStep DEF history, ScanInv
  <2>2. UNCHANGED <<cur, page>>
    BY <2>1 DEF source
  <2>3. CASE phase' = "failed" /\ ~ scan'.open
    <3>1. ScanInv'
      BY <1>1, <2>3 DEF ScanInv
    <3> QED
      BY <1>1, <2>1, <2>3, <3>1, LoadGoesOn
  <2>4. CASE /\ m \in Present /\ Deliver({Version(m)})
             /\ scan'.open /\ scan'.chunk = scan.chunk /\ scan'.pos = scan.pos
             /\ scan'.item = <<>> /\ UNCHANGED phase
    <3>1. ScanInv'
      BY <1>1, <1>7, <2>1, <2>4 DEF ScanInv
    <3>2. ASSUME Fits(plan), NEW k \in Stable PROVE ReadOnce(k)'
      <4>1. Passed(k)' <=> k <= m
        BY <1>1, <2>1, <2>4 DEF Passed
      <4>2. KeysOf({Version(m)}) = {m}
        BY DEF KeysOf, Version
      <4>3. k \in Keys /\ ReadOnce(k) /\ k \in Int /\ m \in Int
        BY <1>3, <1>4, <1>5, <2>1, <3>2
      <4>4. CASE k = m
        <5>1. ToRead(k)
          BY <1>2, <1>6, <1>7, <2>1, <4>4 DEF ToRead
        <5>2. ~ ToRead(k)'
          BY <1>7, <2>1, <2>4, <4>1, <4>3, <4>4 DEF ToRead
        <5> QED
          BY <1>1, <2>2, <2>4, <4>3, <4>4, <5>1, <5>2, DeliverOnce
      <4>5. CASE k # m
        <5>1. Passed(k)' <=> Passed(k)
          BY <1>6, <2>1, <4>1, <4>5
        <5>2. ToRead(k)' <=> ToRead(k)
          BY <2>1, <2>2, <2>4, <5>1, InChunkSame DEF ToRead
        <5> QED
          BY <1>1, <2>2, <2>4, <4>2, <4>3, <4>5, <5>2, DeliverOnce
      <4> QED
        BY <4>4, <4>5
    <3> QED
      BY <1>1, <2>1, <2>4, <3>1, <3>2, LoadGoesOn
  <2> QED
    BY <2>1, <2>3, <2>4
<1>11. CASE /\ Listed
            /\ EndOfChunk(scan.chunk)
            /\ UNCHANGED <<conn, cursorType, server, source, watermark, plan, chunks,
                           emitted, loads, history, passes>>
  <2>1. /\ scan.open /\ scan.item = <<>> /\ Unlisted = {} /\ scan.chunk \in left
        /\ UNCHANGED <<conn, source, cur, page, watermark, plan, chunks, emitted, loads,
                       touched, overlapped, passes>>
    BY <1>7, <1>11 DEF Listed, history, source
  <2>2. /\ ScanInv' /\ phase' \in {"load", "loaded"} /\ (phase' = "loaded" => left' = {})
        /\ Fits(plan) => \A k \in Keys : Passed(k) => (ToRead(k)' <=> ToRead(k))
    BY <1>1, <1>11, <2>1, EndOfChunkReads
  <2>3. ASSUME Fits(plan), NEW k \in Stable PROVE ReadOnce(k)'
    <3>1. Passed(k)
      BY <1>3, <1>5, <1>6, <2>1, <2>3 DEF Unlisted
    <3> QED
      BY <1>3, <1>4, <2>1, <2>2, <2>3, <3>1, NothingDelivered
  <2> QED
    BY <1>1, <2>1, <2>2, <2>3, LoadGoesOn
<1> QED
  BY <1>8, <1>9, <1>10, <1>11, Zenon DEF ObjectstoreReadChunk

LEMMA RedisReads ==
  ASSUME Types, PlanInv, ScanInv, LoadInv, AheadInv, RedisReadChunk
  PROVE  ScanInv' /\ LoadInv' /\ AheadInv'
<1>1. conn = "redis" /\ phase = "load" /\ conn \notin Selecting \cup {"elasticsearch", "objectstore"}
  BY DEF RedisReadChunk, Selecting, Postgres
<1>2. Fits(plan) => \A k \in Stable : ReadSome(k)
  BY <1>1 DEF LoadInv
<1>3. \A k \in Stable : k \in Keys /\ k \in Present
  BY DEF Stable, Present
<1>4. CASE \E c \in left : OpenScan(c)
  BY <1>1, <1>4, OpenScanReads
<1>5. CASE ScanAndType
  <2> DEFINE item(k) == IF k \in Present THEN Version(k) ELSE <<>>
             seen(k) == scan.view \cup {<<k, 0>>}
  <2>1. PICK m \in Keys : scan' = [scan EXCEPT !.view = seen(m), !.item = item(m)]
    BY <1>5, Zenon DEF ScanAndType
  <2>2. /\ scan.open /\ scan.item = <<>>
        /\ UNCHANGED <<conn, source, cur, phase, watermark, plan, chunks, left,
                       emitted, loads, touched, overlapped, passes>>
    BY <1>5 DEF ScanAndType, history, source
  <2>3. KeysOf(seen(m)) = Returned \cup {m}
    <3>1. <<m, 0>>[1] = m
      OBVIOUS
    <3> QED
      BY <3>1, Zenon DEF KeysOf, Returned
  <2>4. m \in Present => item(m) # <<>> /\ item(m)[1] = m
    BY DEF Version
  <2> HIDE DEF item, seen
  <2>5. LET s == [scan EXCEPT !.view = seen(m), !.item = item(m)]
        IN s.view = seen(m) /\ s.item = item(m) /\ s.open = scan.open /\ s.chunk = scan.chunk
    BY DEF Types, ScanType
  <2>6. scan'.view = seen(m) /\ scan'.item = item(m) /\ scan'.open /\ scan'.chunk = scan.chunk
    BY <2>1, <2>2, <2>5, Zenon
  <2>7. ScanInv'
    BY <1>1, <2>2, <2>6 DEF ScanInv
  <2>8. ASSUME Fits(plan), NEW k \in Stable PROVE ReadSome(k)'
    <3>1. Returned' = Returned \cup {m} /\ Version(k)' = Version(k)
      BY <2>2, <2>3, <2>6 DEF Returned, Version
    <3>2. k \in Returned => Version(k) \in emitted
      BY <1>2, <2>2, <2>8 DEF ReadSome
    <3>3. k = m => scan'.item # <<>> /\ scan'.item[1] = k
      BY <1>3, <2>4, <2>6, <2>8
    <3> QED
      BY <2>2, <3>1, <3>2, <3>3 DEF ReadSome
  <2> QED
    BY <1>1, <2>2, <2>7, <2>8, LoadGoesOn
<1>6. CASE ReadValue
  <2> DEFINE m == scan.item[1]
  <2>1. /\ scan.open /\ scan.item # <<>> /\ Deliver({Version(m)})
        /\ scan' = [scan EXCEPT !.item = <<>>]
        /\ UNCHANGED <<conn, source, cur, phase, watermark, plan, chunks, left,
                       touched, overlapped, passes>>
    BY <1>6 DEF ReadValue, history, source
  <2>2. scan'.view = scan.view /\ scan'.item = <<>> /\ scan'.open /\ scan'.chunk = scan.chunk
    BY <2>1 DEF Types, ScanType
  <2>3. ScanInv'
    BY <1>1, <2>1, <2>2 DEF ScanInv
  <2>4. emitted' = emitted \cup {Version(m)}
    BY <2>1 DEF Deliver
  <2>5. ASSUME Fits(plan), NEW k \in Stable PROVE ReadSome(k)'
    <3>1. Returned' = Returned /\ Version(k)' = Version(k)
      BY <2>1, <2>2 DEF Returned, Version
    <3>2. k \in Returned => Version(k) \in emitted \/ m = k
      BY <1>2, <2>1, <2>5 DEF ReadSome
    <3> QED
      BY <2>1, <2>4, <3>1, <3>2 DEF ReadSome
  <2> QED
    BY <1>1, <2>1, <2>3, <2>5, LoadGoesOn
<1>7. CASE /\ scan.open /\ scan.item = <<>>
           /\ (Present \ touched) \subseteq Returned
           /\ EndOfChunk(scan.chunk)
           /\ UNCHANGED <<conn, cursorType, server, source, watermark, plan, chunks,
                          emitted, loads, history, passes>>
  <2>1. /\ UNCHANGED <<conn, source, page, watermark, plan, chunks, emitted, touched,
                       overlapped, passes>>
        /\ scan.chunk \in left
    BY <1>1, <1>7 DEF ScanInv, history, source
  <2>2. ScanInv' /\ phase' \in {"load", "loaded"} /\ (phase' = "loaded" => left' = {})
    BY <1>1, <1>7, <2>1, EndOfChunkReads
  <2>3. ~ scan'.open
    BY <1>7 DEF EndOfChunk, NoScan
  <2>4. ASSUME Fits(plan), NEW k \in Stable PROVE ReadSome(k)' /\ Version(k) \in emitted'
    BY <1>2, <1>7, <2>1, <2>3, <2>4 DEF ReadSome, Stable
  <2> QED
    BY <1>1, <2>1, <2>2, <2>4, LoadGoesOn
<1> QED
  BY <1>4, <1>5, <1>6, <1>7, Zenon DEF RedisReadChunk

-----------------------------------------------------------------------------
(* The increments.                                                         *)

\* Where the source orders times as the watermark does, no query is refused, and one
\* finds the rows above the watermark; MongoDB's finds none once there is a watermark.
LEMMA NewerFacts ==
  ASSUME Types, Ordered, conn \in Incrementals
  PROVE  /\ ~ Refused
         /\ \A k \in Present : Newer(k) => watermark = 0 \/ cur[k] > watermark
         /\ \A k \in Present :
               ~ Newer(k) => watermark # 0 /\ (conn # "mongodb" => cur[k] <= watermark)
         /\ conn = "mongodb" /\ watermark # 0 => \A k \in Present : ~ Newer(k)
<1>1. ~ TimeAsText \/ server = "converts"
  <2>1. CASE conn \in TextBinders
    BY <2>1 DEF Ordered, TimeAsText
  <2>2. CASE conn \notin TextBinders
    <3>1. conn \in {"oracle", "db2", "mongodb", "elasticsearch", "cassandra", "objectstore"}
             \cup Postgres
      BY <2>2 DEF Incrementals, AllConnectors, IntegerKeyed, TextBinders
    <3> QED
      BY <3>1 DEF TimeAsText, Bound, PostgresBind, OracleBind, Db2Bind, CassandraBind,
                  ObjectstoreBind, Postgres
  <2> QED
    BY <2>1, <2>2
<1>2. \A k \in Present : cur[k] # 0 /\ cur[k] \in Int
  BY DEF Present, Types
<1>3. watermark \in Int
  BY DEF Types
<1> QED
  BY <1>1, <1>2, <1>3 DEF Newer, Refused

\* After the rows newer than the watermark are delivered and it moves to the newest
\* of them, every row is delivered or ahead of it.
LEMMA AfterIncrement ==
  ASSUME Types, Ordered, conn \in Incrementals,
         NEW V, V = {Version(k) : k \in {j \in Present : Newer(j)}}, UNCHANGED cur, emitted' = emitted \cup V,
         watermark' = SetMax({v[2] : v \in V} \cup {watermark}),
         \A k \in Present : Ready(k)
  PROVE  \A k \in Present : /\ Ready(k)'
                            /\ conn # "mongodb" => Version(k)' \in emitted'
<1> SUFFICES ASSUME NEW k \in Present
             PROVE  Ready(k)' /\ (conn # "mongodb" => Version(k)' \in emitted')
  OBVIOUS
<1>1. Version(k)' = Version(k)
  BY DEF Version
<1>2. CASE Newer(k)
  BY <1>1, <1>2 DEF Ready
<1>3. CASE ~ Newer(k) /\ conn # "mongodb"
  <2>1. cur[k] <= watermark /\ cur[k] \in Int /\ watermark \in Int
    BY <1>3, NewerFacts DEF Types, Present
  <2>2. Version(k) \in emitted
    BY <2>1 DEF Ready
  <2> QED
    BY <1>1, <2>2 DEF Ready
<1>4. CASE ~ Newer(k) /\ conn = "mongodb"
  <2>1. V = {}
    BY <1>4, NewerFacts
  <2>2. V \subseteq VersionsTo(clock)
    BY <2>1
  <2>3. watermark' = watermark
    <3>1. watermark' = watermark \/ \E v \in V : watermark' = v[2]
      BY <2>2, NewestVersion
    <3> QED
      BY <2>1, <3>1
  <2> QED
    BY <1>1, <1>4, <2>3 DEF Ready
<1> QED
  BY <1>2, <1>3, <1>4

\* What a step of an increment has to keep.
LEMMA IncrementGoesOn ==
  ASSUME Types, LoadInv, phase \in {"idle", "increment"},
         phase' \in {"idle", "increment", "failed"}, conn \in Incrementals, passes' > 0,
         UNCHANGED <<conn, cursorType, server, plan, overlapped>>,
         phase' = "increment" =>
            scan'.open /\ conn \in Sorting \cup {"cassandra", "objectstore", "elasticsearch"},
         phase' = "idle" /\ Undisturbed => CaughtUp',
         phase' = "increment" /\ Undisturbed => PassInv',
         phase' = "failed" => ~ Undisturbed
  PROVE  LoadInv' /\ AheadInv'
<1>1. Undisturbed' = Undisturbed
  BY DEF Undisturbed, Ordered
<1>2. passes' # 0 /\ phase' \notin {"split", "plan", "load", "loaded"}
  OBVIOUS
<1>3. LoadInv'
  BY <1>2, Zenon DEF LoadInv
<1> QED
  BY <1>1, <1>2, <1>3 DEF AheadInv

LEMMA IncrementalConns ==
  /\ Selecting \subseteq Incrementals /\ Sorting \subseteq Incrementals
  /\ {"cassandra", "objectstore", "elasticsearch"} \subseteq Incrementals
  /\ Selecting \cap (Sorting \cup {"cassandra", "objectstore", "elasticsearch"}) = {}
BY DEF Selecting, Sorting, Incrementals, AllConnectors, IntegerKeyed, Postgres

LEMMA BeginPassFacts ==
  ASSUME Types, BeginPass
  PROVE  phase = "idle" /\ passes' > 0
BY SourcesAssumption DEF SourcesAssumption, Types, BeginPass

\* Neither the rows nor the versions change while an increment is read.
LEMMA SourceFacts ==
  ASSUME UNCHANGED source
  PROVE  UNCHANGED <<cur, page, clock>> /\ Present' = Present /\ \A k : Version(k)' = Version(k)
BY DEF source, Present, Version

LEMMA SelectIncrementReads ==
  ASSUME Types, ScanInv, LoadInv, AheadInv, SelectIncrementStep
  PROVE  ScanInv' /\ LoadInv' /\ AheadInv'
<1> DEFINE V == {Version(k) : k \in {j \in Present : Newer(j)}}
<1>1. /\ conn \in Selecting /\ BeginPass /\ Deliver(V)
      /\ watermark' = SetMax({v[2] : v \in V} \cup {watermark})
      /\ UNCHANGED <<conn, cursorType, server, source, phase, plan, chunks, left, scan,
                     touched, overlapped>>
  BY DEF SelectIncrementStep, SelectIncrement
<1>2. phase = "idle" /\ passes' > 0 /\ conn \in Incrementals
  BY <1>1, BeginPassFacts, IncrementalConns
<1>3. /\ emitted' = emitted \cup V /\ UNCHANGED cur /\ Present' = Present
  BY <1>1, SourceFacts DEF Deliver
<1>4. ScanInv'
  BY <1>1, <1>2 DEF ScanInv
<1>5. ASSUME Undisturbed PROVE CaughtUp'
  <2>1. \A k \in Present : Ready(k)
    BY <1>2, <1>5 DEF AheadInv, CaughtUp
  <2>2. \A k \in Present : Ready(k)' /\ (conn # "mongodb" => Version(k)' \in emitted')
    BY <1>1, <1>2, <1>3, <1>5, <2>1, AfterIncrement DEF Undisturbed
  <2> QED
    BY <1>1, <1>3, <2>2 DEF CaughtUp
<1> QED
  BY <1>1, <1>2, <1>4, <1>5, IncrementGoesOn

LEMMA StartWalkReads ==
  ASSUME Types, ScanInv, LoadInv, AheadInv, StartWalk, conn \in Sorting \cup {"cassandra", "objectstore"}
  PROVE  ScanInv' /\ LoadInv' /\ AheadInv'
<1>1. /\ BeginPass /\ phase' = "increment"
      /\ UNCHANGED <<conn, cursorType, server, source, watermark, plan, chunks, left, emitted, loads,
                     touched, overlapped>>
      /\ scan'.open /\ scan'.pos = Below /\ scan'.item = <<>> /\ scan'.view = {}
  BY OpenScanFields DEF StartWalk, OpenPass
<1>2. phase = "idle" /\ passes' > 0 /\ conn \in Incrementals /\ conn \notin Selecting
      /\ conn # "elasticsearch"
  BY <1>1, BeginPassFacts, IncrementalConns DEF Sorting
<1>3. UNCHANGED cur /\ Present' = Present /\ \A k : Version(k)' = Version(k)
  BY <1>1, SourceFacts
<1>4. ScanInv'
  BY <1>1, <1>2 DEF ScanInv
<1>5. ASSUME Undisturbed PROVE PassInv'
  <2>1. \A k \in Present : Ready(k)'
    BY <1>1, <1>2, <1>3, <1>5 DEF AheadInv, CaughtUp, Ready
  <2>2. \A k \in Present : ~ (k <= scan'.pos)
    BY <1>1, IntegerFacts, PresentFacts
  <2> QED
    BY <1>1, <1>2, <1>3, <2>1, <2>2 DEF PassInv, Behind
<1> QED
  BY <1>1, <1>2, <1>4, <1>5, IncrementGoesOn

\* The end of a pass.
LEMMA EndPassReads ==
  ASSUME Types, ScanInv, LoadInv, AheadInv, phase = "increment", NEW w, EndPass(w),
         Undisturbed =>
            \A k \in Present : /\ Ready(k)'
                               /\ conn # "mongodb" => Version(k)' \in emitted'
  PROVE  ScanInv' /\ LoadInv' /\ AheadInv'
<1>1. /\ phase' = "idle" /\ scan' = NoScan
      /\ UNCHANGED <<conn, cursorType, server, source, plan, chunks, left, touched, overlapped, passes>>
  BY DEF EndPass, history
<1>2. /\ passes' > 0 /\ conn \in Incrementals
  BY <1>1, IncrementalConns DEF AheadInv
<1>3. Present' = Present
  BY <1>1, SourceFacts
<1>4. ~ NoScan.open
  BY DEF NoScan
<1>5. ScanInv'
  BY <1>1, <1>4 DEF ScanInv
<1>6. ASSUME Undisturbed PROVE CaughtUp'
  BY <1>1, <1>3, <1>6 DEF CaughtUp
<1> QED
  BY <1>1, <1>2, <1>5, <1>6, IncrementGoesOn

LEMMA SortReads ==
  ASSUME Types, ScanInv, LoadInv, AheadInv, SortStep
  PROVE  ScanInv' /\ LoadInv' /\ AheadInv'
<1>1. conn \in Sorting /\ conn \notin Selecting \cup {"cassandra", "objectstore", "elasticsearch"}
  BY IncrementalConns DEF SortStep, Sorting
<1>2. \A k \in Present : k \in Int
  BY PresentFacts
<1>3. scan.pos \in Int
  BY IntegerFacts DEF Types, ScanType
<1>4. CASE WalkAndSort /\ Unlisted # {}
  <2> DEFINE m == SetMin(Unlisted)
             found == IF Newer(m) THEN scan.view \cup {Version(m)} ELSE scan.view
  <2>1. /\ phase = "increment" /\ scan.open
        /\ scan' = [scan EXCEPT !.pos = m, !.view = found]
        /\ UNCHANGED <<conn, cursorType, server, source, phase, watermark, plan, chunks, left, emitted, loads,
                       touched, quiet, overlapped, passes>>
    BY <1>4 DEF WalkAndSort, history
  <2>2. m \in Present /\ m > scan.pos /\ \A k \in Present : k > scan.pos => m <= k
    BY <1>4, PresentFacts DEF Unlisted, Present
  <2> HIDE DEF m
  <2>3. ASSUME scan.view = {Version(k) : k \in {j \in Present : j <= scan.pos /\ Newer(j)}}
        PROVE  found = {Version(k) : k \in {j \in Present : j <= m /\ Newer(j)}}
    <3>1. \A j \in Present : j <= m <=> j <= scan.pos \/ j = m
      BY <1>2, <1>3, <2>2
    <3> QED
      BY <2>2, <2>3, <3>1
  <2> HIDE DEF found
  <2>4. LET s == [scan EXCEPT !.pos = m, !.view = found]
        IN s.pos = m /\ s.view = found /\ s.open = scan.open
    BY DEF Types, ScanType
  <2>5. scan'.pos = m /\ scan'.view = found /\ scan'.open
    BY <2>1, <2>4, Zenon
  <2>6. UNCHANGED cur /\ Present' = Present /\ \A k : Version(k)' = Version(k)
    BY <2>1, SourceFacts
  <2>7. ScanInv'
    BY <1>1, <2>1, <2>5 DEF ScanInv
  <2>8. \A k : Newer(k)' = Newer(k)
    BY <2>1, <2>6 DEF Newer, TimeAsText, Bound, OracleBind, Db2Bind
  <2>9. ASSUME Undisturbed PROVE PassInv'
    <3>1. /\ \A k \in Present : Ready(k)
          /\ scan.view = {Version(k) : k \in {j \in Present : j <= scan.pos /\ Newer(j)}}
      BY <1>1, <2>1, <2>9 DEF AheadInv, PassInv
    <3>2. \A k \in Present' : Ready(k)'
      BY <2>1, <2>6, <3>1 DEF Ready
    <3>3. scan'.view = {Version(k)' : k \in {j \in Present' : j <= scan'.pos /\ Newer(j)'}}
      BY <2>3, <2>5, <2>6, <2>8, <3>1
    <3> QED
      BY <1>1, <2>1, <3>2, <3>3 DEF PassInv
  <2>10. passes' > 0
    BY <2>1 DEF AheadInv
  <2> QED
    BY <1>1, <2>1, <2>5, <2>7, <2>9, <2>10, IncrementalConns, IncrementGoesOn
<1>5. CASE WalkAndSort /\ Unlisted = {}
  <2> DEFINE w == SetMax({v[2] : v \in scan.view} \cup {watermark})
  <2>1. phase = "increment" /\ Deliver(scan.view) /\ EndPass(w)
    BY <1>5 DEF WalkAndSort
  <2>2. UNCHANGED cur /\ watermark' = w /\ emitted' = emitted \cup scan.view
    BY <2>1 DEF EndPass, source, Deliver
  <2>3. ASSUME Undisturbed
        PROVE  \A k \in Present : Ready(k)' /\ (conn # "mongodb" => Version(k)' \in emitted')
    <3>1. /\ \A k \in Present : Ready(k)
          /\ scan.view = {Version(k) : k \in {j \in Present : j <= scan.pos /\ Newer(j)}}
      BY <1>1, <2>1, <2>3 DEF AheadInv, PassInv
    <3>2. \A j \in Present : j <= scan.pos
      BY <1>2, <1>3, <1>5 DEF Unlisted
    <3>3. scan.view = {Version(k) : k \in {j \in Present : Newer(j)}}
      BY <3>1, <3>2
    <3> QED
      BY <1>1, <2>2, <2>3, <3>1, <3>3, AfterIncrement, IncrementalConns DEF Undisturbed
  <2> HIDE DEF w
  <2> QED
    BY <2>1, <2>3, EndPassReads
<1> QED
  BY <1>1, <1>4, <1>5, StartWalkReads DEF SortStep

\* A row that the watermark covers was delivered.
LEMMA NotNewer ==
  ASSUME Types, Ordered, conn \in Incrementals, NEW k \in Present,
         Ready(k), ~ Newer(k), conn # "mongodb"
  PROVE  Version(k) \in emitted
<1>1. cur[k] <= watermark /\ cur[k] \in Int /\ watermark \in Int
  BY NewerFacts DEF Types, Present
<1> QED
  BY <1>1 DEF Ready

LEMMA CassandraReads ==
  ASSUME Types, ScanInv, LoadInv, AheadInv, CassandraReadIncrement
  PROVE  ScanInv' /\ LoadInv' /\ AheadInv'
<1>1. conn = "cassandra" /\ conn \notin Selecting \cup Sorting \cup {"objectstore", "elasticsearch"}
      /\ conn \in Incrementals
  BY IncrementalConns DEF CassandraReadIncrement, Sorting
<1>2. \A k \in Present : k \in Int
  BY PresentFacts
<1>3. scan.pos \in Int
  BY IntegerFacts DEF Types, ScanType
<1>4. CASE CassandraWalk /\ Unlisted # {}
  <2> DEFINE m == SetMin(Unlisted)
             newest == IF Newer(m) THEN cur[m] ELSE scan.newest
             V == IF Newer(m) THEN {Version(m)} ELSE {}
  <2>1. /\ phase = "increment" /\ scan.open /\ Deliver(V)
        /\ scan' = [scan EXCEPT !.pos = m, !.newest = newest]
        /\ UNCHANGED <<conn, cursorType, server, source, phase, watermark, plan, chunks, left,
                       touched, quiet, overlapped, passes>>
    BY <1>4 DEF CassandraWalk, history
  <2>2. m \in Present /\ m > scan.pos /\ \A k \in Present : k > scan.pos => m <= k
    BY <1>4, PresentFacts DEF Unlisted, Present
  <2> HIDE DEF m
  <2>3. emitted \subseteq emitted' /\ (Newer(m) => Version(m) \in emitted')
    BY <2>1 DEF Deliver
  <2> HIDE DEF newest, V
  <2>4. LET s == [scan EXCEPT !.pos = m, !.newest = newest] IN s.pos = m /\ s.open = scan.open
    BY DEF Types, ScanType
  <2>5. scan'.pos = m /\ scan'.open
    BY <2>1, <2>4, Zenon
  <2>6. UNCHANGED cur /\ Present' = Present /\ \A k : Version(k)' = Version(k)
    BY <2>1, SourceFacts
  <2>7. ScanInv'
    BY <1>1, <2>1, <2>5 DEF ScanInv
  <2>8. ASSUME Undisturbed PROVE PassInv'
    <3>1. \A k \in Present : Ready(k) /\ (k <= scan.pos => Version(k) \in emitted)
      BY <1>1, <2>1, <2>8 DEF AheadInv, PassInv, Behind
    <3>2. \A k \in Present : Ready(k)'
      BY <2>1, <2>3, <2>6, <3>1 DEF Ready
    <3>3. Version(m) \in emitted'
      BY <1>1, <2>2, <2>3, <2>8, <3>1, NotNewer DEF Undisturbed
    <3>4. ASSUME NEW k \in Present, k <= m PROVE Version(k) \in emitted'
      <4>1. k = m \/ k <= scan.pos
        BY <1>2, <1>3, <2>2, <3>4
      <4> QED
        BY <2>3, <3>1, <3>3, <4>1
    <3> QED
      BY <1>1, <2>1, <2>5, <2>6, <3>2, <3>4 DEF PassInv, Behind
  <2>9. passes' > 0
    BY <2>1 DEF AheadInv
  <2> QED
    BY <1>1, <2>1, <2>5, <2>7, <2>8, <2>9, IncrementGoesOn
<1>5. CASE CassandraWalk /\ Unlisted = {}
  <2>1. phase = "increment" /\ EndPass(scan.newest) /\ UNCHANGED <<emitted, loads>>
    BY <1>5 DEF CassandraWalk
  <2>2. \A k : Version(k)' = Version(k)
    BY <2>1, SourceFacts DEF EndPass
  <2>3. ASSUME Undisturbed, NEW k \in Present
        PROVE  Ready(k)' /\ Version(k)' \in emitted'
    <3>1. k <= scan.pos
      BY <1>2, <1>3, <1>5 DEF Unlisted
    <3>2. Version(k) \in emitted
      BY <1>1, <2>1, <2>3, <3>1 DEF AheadInv, PassInv, Behind
    <3> QED
      BY <2>1, <2>2, <3>2 DEF Ready
  <2> QED
    BY <2>1, <2>3, EndPassReads
<1> QED
  BY <1>1, <1>4, <1>5, StartWalkReads DEF CassandraReadIncrement

LEMMA ObjectstoreIncrementReads ==
  ASSUME Types, ScanInv, LoadInv, AheadInv, ObjectstoreReadIncrement
  PROVE  ScanInv' /\ LoadInv' /\ AheadInv'
<1>1. conn = "objectstore" /\ conn \notin Selecting \cup Sorting \cup {"cassandra", "elasticsearch"}
      /\ conn \in Incrementals
  BY IncrementalConns DEF ObjectstoreReadIncrement, Sorting
<1>2. \A k \in Present : k \in Int
  BY PresentFacts
<1>3. scan.pos \in Int
  BY IntegerFacts DEF Types, ScanType
<1>4. ASSUME phase = "increment", Undisturbed
      PROVE  \A k \in Present : /\ Ready(k)
                                /\ k <= scan.pos /\ (scan.item = <<>> \/ scan.item[1] # k) =>
                                      Version(k) \in emitted
  BY <1>1, <1>4 DEF AheadInv, PassInv, Behind
<1>5. phase = "increment" => passes > 0
  BY DEF AheadInv
<1>6. CASE phase = "increment" /\ ListObject
  <2> DEFINE m == SetMin(Unlisted)
  <2>1. /\ scan.open /\ scan.item = <<>> /\ m \in Present /\ m > scan.pos
        /\ \A k \in Present : k > scan.pos => m <= k
        /\ scan'.open /\ scan'.pos = m /\ scan'.item = IF Newer(m) THEN Version(m) ELSE <<>>
        /\ UNCHANGED <<conn, cursorType, server, source, phase, watermark, plan, chunks, left,
                       emitted, loads, touched, quiet, overlapped, passes>>
    BY <1>6, ListStep DEF history
  <2> HIDE DEF m
  <2>2. Version(m) # <<>> /\ Version(m)[1] = m
    BY DEF Version
  <2>3. UNCHANGED cur /\ Present' = Present /\ \A k : Version(k)' = Version(k)
    BY <2>1, SourceFacts
  <2>4. ScanInv'
    BY <1>1, <1>6, <2>1, <2>2 DEF ScanInv
  <2>5. ASSUME Undisturbed PROVE PassInv'
    <3>1. \A k \in Present : Ready(k)'
      BY <1>4, <1>6, <2>1, <2>3, <2>5 DEF Ready
    <3>2. ASSUME NEW k \in Present, Behind(k)' PROVE Version(k)' \in emitted'
      <4>1. k <= m /\ (scan'.item = <<>> \/ scan'.item[1] # k)
        BY <1>1, <2>1, <3>2 DEF Behind
      <4>2. CASE k = m
        <5>1. ~ Newer(k)
          BY <2>1, <2>2, <4>1, <4>2
        <5>2. Version(k) \in emitted
          BY <1>1, <1>4, <1>6, <2>5, <5>1, NotNewer DEF Undisturbed
        <5> QED
          BY <2>1, <2>3, <5>2
      <4>3. CASE k # m
        <5>1. k <= scan.pos
          BY <1>2, <1>3, <2>1, <4>1, <4>3
        <5> QED
          BY <1>4, <1>6, <2>1, <2>3, <2>5, <5>1
      <4> QED
        BY <4>2, <4>3
    <3> QED
      BY <1>1, <2>1, <2>2, <2>3, <3>1, <3>2 DEF PassInv
  <2> QED
    BY <1>1, <1>5, <1>6, <2>1, <2>4, <2>5, IncrementGoesOn
<1>7. CASE phase = "increment" /\ ReadObject
  <2> DEFINE m == scan.item[1]
  <2>1. /\ scan.open /\ scan.item # <<>> /\ m \in Keys /\ m = scan.pos
        /\ UNCHANGED <<conn, cursorType, server, source, watermark, plan, chunks, left, touched, quiet,
                       overlapped, passes>>
        /\ \/ /\ m \in Present /\ Deliver({Version(m)})
              /\ scan'.open /\ scan'.pos = scan.pos
              /\ scan'.item = <<>> /\ UNCHANGED phase
           \/ m \notin Present /\ phase' = "failed" /\ ~ scan'.open
    BY <1>1, <1>7, ReadObjectStep DEF history, ScanInv
  <2>2. UNCHANGED cur /\ Present' = Present /\ \A k : Version(k)' = Version(k)
    BY <2>1, SourceFacts
  <2>3. CASE m \notin Present /\ phase' = "failed" /\ ~ scan'.open
    <3>1. ScanInv'
      BY <1>1, <2>3 DEF ScanInv
    <3>2. ~ Undisturbed
      BY <1>1, <1>7, <2>1, <2>3 DEF AheadInv, PassInv
    <3> QED
      BY <1>1, <1>5, <1>7, <2>1, <2>3, <3>1, <3>2, IncrementGoesOn
  <2>4. CASE /\ m \in Present /\ Deliver({Version(m)})
             /\ scan'.open /\ scan'.pos = scan.pos
             /\ scan'.item = <<>> /\ UNCHANGED phase
    <3>1. ScanInv'
      BY <1>1, <1>7, <2>1, <2>4 DEF ScanInv
    <3>2. emitted' = emitted \cup {Version(m)}
      BY <2>4 DEF Deliver
    <3>3. ASSUME Undisturbed PROVE PassInv'
      <4>1. \A k \in Present : Ready(k)'
        BY <1>4, <1>7, <2>1, <2>2, <3>2, <3>3 DEF Ready
      <4>2. ASSUME NEW k \in Present, Behind(k)' PROVE Version(k)' \in emitted'
        <5>1. k <= scan.pos
          BY <2>4, <4>2 DEF Behind
        <5> QED
          BY <1>4, <1>7, <2>1, <2>2, <3>2, <3>3, <5>1
      <4> QED
        BY <1>1, <2>1, <2>2, <2>4, <4>1, <4>2 DEF PassInv
    <3> QED
      BY <1>1, <1>5, <1>7, <2>1, <2>4, <3>1, <3>3, IncrementGoesOn
  <2> QED
    BY <2>1, <2>3, <2>4
<1>8. CASE phase = "increment" /\ Listed /\ EndPass(scan.newest) /\ UNCHANGED <<emitted, loads>>
  <2>1. scan.item = <<>> /\ Unlisted = {} /\ \A k : Version(k)' = Version(k)
    BY <1>8, SourceFacts DEF Listed, EndPass
  <2>2. ASSUME Undisturbed, NEW k \in Present
        PROVE  Ready(k)' /\ Version(k)' \in emitted'
    <3>1. k <= scan.pos
      BY <1>2, <1>3, <2>1, <2>2 DEF Unlisted
    <3>2. Version(k) \in emitted
      BY <1>4, <1>8, <2>1, <2>2, <3>1
    <3> QED
      BY <1>8, <2>1, <3>2 DEF Ready
  <2> QED
    BY <1>8, <2>2, EndPassReads
<1> QED
  BY <1>1, <1>6, <1>7, <1>8, StartWalkReads, Zenon DEF ObjectstoreReadIncrement

LEMMA ElasticsearchIncrementReads ==
  ASSUME Types, ScanInv, LoadInv, AheadInv, ElasticsearchReadIncrement
  PROVE  ScanInv' /\ LoadInv' /\ AheadInv'
<1>1. conn = "elasticsearch" /\ conn \notin Selecting \cup Sorting \cup {"cassandra", "objectstore"}
      /\ conn \in Incrementals
  BY IncrementalConns DEF ElasticsearchReadIncrement, Sorting
<1>2. CASE OpenPass /\ OpenPIT({Version(k) : k \in {j \in Present : Newer(j)}})
  <2> DEFINE V == {Version(k) : k \in {j \in Present : Newer(j)}}
  <2>1. /\ BeginPass /\ phase' = "increment"
        /\ UNCHANGED <<conn, cursorType, server, source, watermark, plan, chunks, left, emitted, loads,
                       touched, overlapped>>
        /\ scan'.open /\ scan'.view = V
    BY <1>2 DEF OpenPass, OpenPIT, NoScan
  <2>2. \A k \in Present : Newer(k) => Version(k) \in V
    OBVIOUS
  <2> HIDE DEF V
  <2>3. phase = "idle" /\ passes' > 0
    BY <2>1, BeginPassFacts
  <2>4. Present' = Present /\ \A k : Version(k)' = Version(k)
    BY <2>1, SourceFacts
  <2>5. ScanInv'
    BY <1>1, <2>1, <2>3 DEF ScanInv
  <2>6. ASSUME Undisturbed PROVE PassInv'
    <3>1. \A k \in Present : Ready(k)
      BY <1>1, <2>3, <2>6 DEF AheadInv, CaughtUp
    <3>2. ASSUME NEW k \in Present PROVE InTime(k)'
      <4>1. Version(k) \in emitted \cup V
        BY <1>1, <2>2, <2>6, <3>1, NotNewer DEF Undisturbed
      <4> QED
        BY <2>1, <2>4, <4>1 DEF InTime
    <3> QED
      BY <1>1, <2>1, <2>4, <3>2 DEF PassInv
  <2> QED
    BY <1>1, <2>1, <2>3, <2>5, <2>6, IncrementGoesOn
<1>3. CASE phase = "increment" /\ ScanSearchAfter("idle", [c \in 0 .. clock |-> c])
  <2> DEFINE hits == Page(scan.view)
  <2>1. /\ scan.open /\ Deliver(hits) /\ hits \subseteq scan.view
        /\ UNCHANGED <<conn, cursorType, server, source, plan, chunks, touched, quiet, overlapped, passes>>
    BY <1>3, PageStep DEF history
  <2>2. PICK last \in 0 .. clock :
          /\ last = scan.newest \/ \E v \in scan.view : last = v[2]
          /\ \/ /\ hits = scan.view /\ left' = left \ {WholeTable}
                /\ phase' = "idle" /\ ~ scan'.open /\ watermark' = [c \in 0 .. clock |-> c][last]
             \/ /\ scan'.view = scan.view \ hits /\ scan'.newest = last
                /\ scan'.open /\ scan'.chunk = scan.chunk
                /\ UNCHANGED <<left, phase, watermark>>
    <3> DEFINE end == [c \in 0 .. clock |-> c]
    <3>1. ScanSearchAfter("idle", end)
      BY <1>3
    <3> HIDE DEF end
    <3>2. \E last \in 0 .. clock :
             /\ last = scan.newest \/ \E v \in scan.view : last = v[2]
             /\ \/ /\ hits = scan.view /\ left' = left \ {WholeTable}
                   /\ phase' = "idle" /\ ~ scan'.open /\ watermark' = end[last]
                \/ /\ scan'.view = scan.view \ hits /\ scan'.newest = last
                   /\ scan'.open /\ scan'.chunk = scan.chunk
                   /\ UNCHANGED <<left, phase, watermark>>
      BY <3>1, PageStep, Zenon
    <3> QED
      BY <3>2 DEF end
  <2>3. [c \in 0 .. clock |-> c][last] = last
    OBVIOUS
  <2> HIDE DEF hits
  <2>4. UNCHANGED cur /\ Present' = Present /\ \A k : Version(k)' = Version(k)
    BY <2>1, SourceFacts
  <2>5. emitted' = emitted \cup hits
    BY <2>1 DEF Deliver
  <2>6. passes' > 0
    BY <1>3, <2>1 DEF AheadInv
  <2>7. ScanInv'
    BY <1>1, <1>3, <2>1, <2>2 DEF ScanInv
  <2>8. Undisturbed => \A k \in Present : InTime(k)
    BY <1>1, <1>3 DEF AheadInv, PassInv
  <2>9. CASE hits = scan.view /\ phase' = "idle" /\ watermark' = last
    <3>1. ASSUME Undisturbed, NEW k \in Present
          PROVE  Ready(k)' /\ (quiet => Version(k)' \in emitted')
      <4>1. CASE Version(k) \in emitted \cup scan.view
        BY <2>4, <2>5, <2>9, <4>1 DEF Ready
      <4>2. CASE ~ quiet /\ cur[k] > scan.newest /\ \A v \in scan.view : cur[k] > v[2]
        <5>1. cur[k] > last
          BY <2>2, <4>2
        <5> QED
          BY <2>4, <2>9, <4>2, <5>1 DEF Ready
      <4> QED
        BY <2>8, <3>1, <4>1, <4>2 DEF InTime
    <3>2. ASSUME Undisturbed PROVE CaughtUp'
      BY <2>1, <2>4, <3>1, <3>2 DEF CaughtUp
    <3> QED
      BY <1>1, <1>3, <2>1, <2>6, <2>7, <2>9, <3>2, IncrementGoesOn
  <2>10. CASE /\ scan'.view = scan.view \ hits /\ scan'.newest = last /\ scan'.open
              /\ UNCHANGED <<phase, watermark>>
    <3>1. ASSUME Undisturbed, NEW k \in Present PROVE InTime(k)'
      <4>1. CASE Version(k) \in emitted \cup scan.view
        BY <2>4, <2>5, <2>10, <4>1 DEF InTime
      <4>2. CASE /\ ~ quiet /\ cur[k] > watermark /\ cur[k] > scan.newest
                 /\ \A v \in scan.view : cur[k] > v[2]
        <5>1. cur[k] > last
          BY <2>2, <4>2
        <5> QED
          BY <2>1, <2>4, <2>10, <4>2, <5>1 DEF InTime
      <4> QED
        BY <2>8, <3>1, <4>1, <4>2 DEF InTime
    <3>2. ASSUME Undisturbed PROVE PassInv'
      BY <1>1, <2>1, <2>4, <3>1, <3>2 DEF PassInv
    <3> QED
      BY <1>1, <1>3, <2>1, <2>6, <2>7, <2>10, <3>2, IncrementGoesOn
  <2> QED
    BY <2>2, <2>3, <2>9, <2>10
<1> QED
  BY <1>2, <1>3 DEF ElasticsearchReadIncrement

\* A load or an increment that cannot be read.
LEMMA FailReads ==
  ASSUME Types, ScanInv, LoadInv, AheadInv, FailLoadStep \/ FailPassStep
  PROVE  ScanInv' /\ LoadInv' /\ AheadInv'
<1>1. CASE FailLoadStep
  <2>1. /\ phase = "load" /\ phase' = "failed" /\ conn = "postgres_parent"
        /\ UNCHANGED <<conn, scan, passes>>
    BY <1>1 DEF FailLoadStep, FailLoad
  <2>2. passes' = 0 /\ ~ scan'.open
    BY <2>1 DEF AheadInv, ScanInv, Selecting, Postgres
  <2> QED
    BY <2>1, <2>2 DEF ScanInv, LoadInv, AheadInv
<1>2. CASE FailPassStep
  <2>1. /\ phase = "idle" /\ phase' = "failed" /\ Refused
        /\ UNCHANGED <<conn, cursorType, server, scan, overlapped>>
    BY <1>2 DEF FailPassStep, FailPass
  <2>2. conn \in Incrementals /\ ~ scan.open
    BY <2>1 DEF AheadInv, ScanInv
  <2>3. ~ Undisturbed'
    BY <2>1, <2>2, NewerFacts DEF Undisturbed, Ordered
  <2> QED
    BY <2>1, <2>2, <2>3 DEF ScanInv, LoadInv, AheadInv
<1> QED
  BY <1>1, <1>2

-----------------------------------------------------------------------------
(* The whole: an invariant, and what it implies.                           *)

Inv == Types /\ PlanInv /\ ScanInv /\ LoadInv /\ AheadInv

LEMMA InitInv == Init => Inv
BY InitTypes, InitPlanInv, InitReads DEF Inv

LEMMA NextInv == Inv /\ [Next]_vars => Inv'
<1>1. ASSUME Inv, Next PROVE Inv'
  <2>1. Types /\ PlanInv /\ ScanInv /\ LoadInv /\ AheadInv /\ Types' /\ PlanInv'
    BY <1>1, NextTypes, NextPlanInv DEF Inv
  <2>2. ASSUME NEW k \in Keys, Write(k) \/ Delete(k) PROVE ScanInv' /\ LoadInv' /\ AheadInv'
    BY <2>1, <2>2, WriteReads, WritesKeepAhead
  <2>3. ScanInv' /\ LoadInv' /\ AheadInv'
    BY <1>1, <2>1, <2>2, NextCases, PlanningReads, SelectReads, WalkReads, ElasticsearchReads,
       ObjectstoreReads, RedisReads, SelectIncrementReads, SortReads, CassandraReads,
       ElasticsearchIncrementReads, ObjectstoreIncrementReads, FailReads, Zenon
  <2> QED
    BY <2>1, <2>3 DEF Inv
<1>2. ASSUME Inv, UNCHANGED vars PROVE Inv'
  <2>1. Types' /\ PlanInv'
    BY <1>2, NextTypes, NextPlanInv DEF Inv
  <2>2. /\ UNCHANGED <<conn, cursorType, server, source, cur, page, clock, phase, watermark, plan, chunks, left,
                       scan, emitted, loads, touched, quiet, overlapped, passes>>
    BY <1>2 DEF vars, source, history
  <2>3. Present' = Present /\ \A k : Version(k)' = Version(k)
    BY <2>2, SourceFacts
  <2>4. Stable' = Stable /\ Fits(plan)' = Fits(plan) /\ Undisturbed' = Undisturbed
    BY <2>2, <2>3 DEF Stable, Fits, Undisturbed, Ordered
  <2>5. /\ \A k : /\ ReadSome(k)' = ReadSome(k) /\ Ready(k)' = Ready(k) /\ InTime(k)' = InTime(k)
                  /\ Behind(k)' = Behind(k) /\ Passed(k)' = Passed(k) /\ Newer(k)' = Newer(k)
    BY <2>2, <2>3 DEF ReadSome, Returned, Ready, InTime, Behind, Passed, Newer, TimeAsText,
                      Bound, OracleBind, Db2Bind
  <2>6. \A k : ReadOnce(k)' = ReadOnce(k)
    BY <2>2, <2>3, <2>5, InChunkSame DEF ReadOnce, ToRead, WasRead
  <2>7. ScanInv'
    BY <1>2, <2>2, <2>3, <2>4 DEF Inv, ScanInv
  <2>8. LoadInv'
    BY <1>2, <2>2, <2>3, <2>4, <2>5, <2>6 DEF Inv, LoadInv
  <2>9. CaughtUp' = CaughtUp /\ PassInv' = PassInv
    BY <2>2, <2>3, <2>5 DEF CaughtUp, PassInv
  <2>10. AheadInv'
    BY <1>2, <2>2, <2>3, <2>4, <2>9 DEF Inv, AheadInv
  <2> QED
    BY <2>1, <2>7, <2>8, <2>10 DEF Inv
<1> QED
  BY <1>1, <1>2

LEMMA InvImplies ==
  ASSUME Inv
  PROVE  /\ TypeOK /\ PlanPartitions /\ StableRowsReadOnce
         /\ NothingSkipped /\ QuietPassCatchesUp
<1>1. TypeOK /\ PlanPartitions
  BY TypesImply, PlanInvImplies DEF Inv
<1>2. StableRowsReadOnce
  BY DEF Inv, LoadInv, StableRowsReadOnce, Stable
<1>3. NothingSkipped
  BY DEF Inv, AheadInv, CaughtUp, NothingSkipped, Ready, Undisturbed
<1>4. QuietPassCatchesUp
  BY DEF Inv, AheadInv, CaughtUp, QuietPassCatchesUp, Undisturbed
<1> QED
  BY <1>1, <1>2, <1>3, <1>4

-----------------------------------------------------------------------------
(* Kafka: no offset passes a message that was not delivered.               *)

Records == {"message", "marker"}

\* Of log l, retained from first offset f on, the messages of partition p below offset
\* n are all in d.
ReadTo(f, l, d, p, n) == \A o \in f[p] .. n - 1 : l[p][o + 1] = "message" => <<p, o>> \in d
Done(p, n) == ReadTo(first, log, delivered, p, n)
Covered(p) == p \in DOMAIN offsets => Done(p, offsets[p])

\* The reading of one partition.
AtInv ==
    /\ at.part \in topic /\ at = [part |-> at.part, off |-> at.off, end |-> at.end]
    /\ at.off \in 0 .. Len(log[at.part]) /\ at.end \in 0 .. Len(log[at.part])
    /\ Done(at.part, at.off)

KafkaTypes ==
    /\ topic \subseteq Partitions
    /\ log \in [Partitions -> Seq(Records)] /\ first \in [Partitions -> Nat]
    /\ \A p \in Partitions : first[p] <= Len(log[p]) /\ Len(log[p]) <= MaxAppends
    /\ DOMAIN offsets \subseteq topic /\ \A p \in DOMAIN offsets : offsets[p] \in 0 .. Len(log[p])
    /\ DOMAIN next \subseteq topic /\ \A p \in DOMAIN next : next[p] \in 0 .. Len(log[p])
    /\ kphase \in {"ready", "load", "loaded", "idle", "increment"}
    /\ todo \subseteq topic /\ (kphase \notin {"load", "increment"} => todo = {} /\ at = <<>>)
    /\ reads \in 0 .. MaxReads /\ faults \in 0 .. MaxFaults

KafkaInv ==
    /\ KafkaTypes
    /\ at # <<>> => AtInv
    /\ \A p \in topic : Covered(p)
    /\ \A p \in DOMAIN next : Done(p, next[p])

LEMMA InitKafka == Kafka!Init => KafkaInv
<1> SUFFICES ASSUME Kafka!Init PROVE KafkaInv
  OBVIOUS
<1>1. log \in [Partitions -> Seq(Records)] /\ \A p \in Partitions : Len(log[p]) = 0
  BY DEF Kafka!Init
<1>2. DOMAIN offsets = {} /\ DOMAIN next = {} /\ at = <<>>
  BY DEF Kafka!Init, Kafka!Nowhere, Kafka!NoPartition
<1> QED
  BY <1>1, <1>2, KafkaAssumption DEF Kafka!Init, KafkaInv, KafkaTypes, KafkaAssumption,
                                     Covered, Kafka!NoPartition

\* What was delivered stays so while the log grows and its start expires.
LEMMA BrokerKeeps ==
  ASSUME KafkaInv, UNCHANGED Kafka!engine, topic \subseteq topic', topic' \subseteq Partitions,
         log' \in [Partitions -> Seq(Records)], first' \in [Partitions -> Nat],
         faults' \in 0 .. MaxFaults,
         \A p \in Partitions :
            /\ first[p] <= first'[p] /\ first'[p] <= Len(log'[p])
            /\ Len(log[p]) <= Len(log'[p]) /\ Len(log'[p]) <= MaxAppends
            /\ \A i \in 1 .. Len(log[p]) : log'[p][i] = log[p][i]
  PROVE  KafkaInv'
<1>1. UNCHANGED <<offsets, kphase, todo, at, next, delivered, reads>>
  BY DEF Kafka!engine
<1>2. \A p \in Partitions : Len(log[p]) \in Nat /\ Len(log'[p]) \in Nat
                            /\ first[p] \in Nat /\ first'[p] \in Nat
  BY DEF KafkaInv, KafkaTypes
<1>3. ASSUME NEW p \in Partitions, NEW n \in 0 .. Len(log[p]), Done(p, n)
      PROVE  ReadTo(first', log', delivered', p, n)
  <2> SUFFICES ASSUME NEW o \in first'[p] .. n - 1, log'[p][o + 1] = "message"
               PROVE  <<p, o>> \in delivered'
    BY DEF ReadTo
  <2>1. o \in first[p] .. n - 1 /\ o + 1 \in 1 .. Len(log[p])
    BY <1>2
  <2> QED
    BY <1>1, <1>3, <2>1 DEF Done, ReadTo
<1>4. KafkaTypes'
  <2>1. ASSUME NEW p \in topic, NEW n \in 0 .. Len(log[p]) PROVE n \in 0 .. Len(log'[p])
    BY <1>2 DEF KafkaInv, KafkaTypes
  <2> QED
    BY <1>1, <2>1 DEF KafkaInv, KafkaTypes
<1>5. \A p \in DOMAIN offsets : p \in Partitions /\ offsets[p] \in 0 .. Len(log[p])
  BY DEF KafkaInv, KafkaTypes
<1>6. ASSUME NEW p, Covered(p) PROVE Covered(p)'
  BY <1>1, <1>3, <1>5, <1>6 DEF Covered, Done
<1>7. ASSUME at # <<>> PROVE AtInv'
  <2>1. AtInv /\ at.part \in Partitions /\ at.part \in topic'
    BY <1>7 DEF KafkaInv, KafkaTypes, AtInv
  <2>2. at.off \in 0 .. Len(log'[at.part]) /\ at.end \in 0 .. Len(log'[at.part])
    BY <1>2, <2>1 DEF AtInv
  <2>3. Done(at.part, at.off) => ReadTo(first', log', delivered', at.part, at.off)
    BY <1>3, <2>1 DEF AtInv
  <2> QED
    BY <1>1, <2>1, <2>2, <2>3 DEF AtInv, Done
<1>8. ASSUME NEW p \in topic' \ topic PROVE Covered(p)'
  BY <1>1, <1>8 DEF Covered, KafkaInv, KafkaTypes
<1>9. ASSUME NEW p \in DOMAIN next PROVE Done(p, next[p])'
  <2>1. p \in Partitions /\ next[p] \in 0 .. Len(log[p]) /\ Done(p, next[p])
    BY <1>9 DEF KafkaInv, KafkaTypes
  <2> QED
    BY <1>1, <1>3, <2>1 DEF Done
<1> QED
  BY <1>1, <1>4, <1>6, <1>7, <1>8, <1>9 DEF KafkaInv

LEMMA BrokerSteps ==
  ASSUME KafkaInv, NEW p \in Partitions,
         (\E r \in Records : Kafka!Produce(p, r)) \/ Kafka!Expire(p) \/ Kafka!AddPartition(p)
  PROVE  KafkaInv'
<1>1. /\ topic \subseteq Partitions /\ faults \in 0 .. MaxFaults /\ MaxFaults \in Nat
      /\ log \in [Partitions -> Seq(Records)] /\ first \in [Partitions -> Nat]
      /\ \A q \in Partitions : first[q] <= Len(log[q]) /\ Len(log[q]) <= MaxAppends
      /\ \A q \in Partitions : log[q] \in Seq(Records) /\ Len(log[q]) \in Nat
      /\ MaxAppends \in Nat
  BY KafkaAssumption DEF KafkaInv, KafkaTypes, KafkaAssumption
<1>2. ASSUME NEW r \in Records, Kafka!Produce(p, r) PROVE KafkaInv'
  <2>1. /\ Len(log[p]) < MaxAppends /\ log' = [log EXCEPT ![p] = Append(@, r)]
        /\ UNCHANGED <<topic, first, Kafka!engine, faults>>
    <3>1. log[p] \o <<r>> = Append(log[p], r)
      BY <1>1
    <3> QED
      BY <1>2, <3>1 DEF Kafka!Produce, Kafka!End
  <2>2. log' \in [Partitions -> Seq(Records)]
    BY <1>1, <2>1
  <2>3. \A q \in Partitions : log'[q] = IF q = p THEN Append(log[p], r) ELSE log[q]
    BY <1>1, <2>1
  <2>4. /\ Len(Append(log[p], r)) = Len(log[p]) + 1
        /\ \A i \in 1 .. Len(log[p]) : Append(log[p], r)[i] = log[p][i]
    BY <1>1
  <2>5. ASSUME NEW q \in Partitions
        PROVE  /\ first[q] <= first'[q] /\ first'[q] <= Len(log'[q])
               /\ Len(log[q]) <= Len(log'[q]) /\ Len(log'[q]) <= MaxAppends
               /\ \A i \in 1 .. Len(log[q]) : log'[q][i] = log[q][i]
    <3>1. first'[q] = first[q] /\ first[q] \in Nat
      BY <1>1, <2>1
    <3>2. CASE q = p
      BY <1>1, <2>1, <2>3, <2>4, <3>1, <3>2
    <3>3. CASE q # p
      BY <1>1, <2>3, <3>1, <3>3
    <3> QED
      BY <3>2, <3>3
  <2> QED
    BY <1>1, <2>1, <2>2, <2>5, BrokerKeeps
<1>3. CASE Kafka!Expire(p)
  <2>1. /\ faults < MaxFaults /\ first[p] < Len(log[p]) /\ first' = [first EXCEPT ![p] = @ + 1]
        /\ faults' = faults + 1 /\ UNCHANGED <<topic, log, Kafka!engine>>
    BY <1>3 DEF Kafka!Expire, Kafka!End
  <2>2. first' \in [Partitions -> Nat]
        /\ \A q \in Partitions : first'[q] = IF q = p THEN first[p] + 1 ELSE first[q]
    BY <1>1, <2>1
  <2>3. faults' \in 0 .. MaxFaults
    BY <1>1, <2>1
  <2>4. \A q \in Partitions : first[q] \in Nat /\ first[q] <= first'[q] /\ first'[q] <= Len(log[q])
    BY <1>1, <2>1, <2>2
  <2> QED
    BY <1>1, <2>1, <2>2, <2>3, <2>4, BrokerKeeps
<1>4. CASE Kafka!AddPartition(p)
  <2>1. topic' = topic \cup {p} /\ UNCHANGED <<log, first, Kafka!engine, faults>>
    BY <1>4 DEF Kafka!AddPartition
  <2>2. \A q \in Partitions : first[q] \in Nat
    BY <1>1
  <2> QED
    BY <1>1, <2>1, <2>2, BrokerKeeps
<1> QED
  BY <1>2, <1>3, <1>4

\* What the steps of the connector leave to the broker.
LEMMA SameBroker ==
  ASSUME KafkaTypes, UNCHANGED <<topic, log, first>>, delivered \subseteq delivered'
  PROVE  /\ \A p, n : Done(p, n) => ReadTo(first', log', delivered', p, n)
         /\ UNCHANGED offsets => \A p : Covered(p) => Covered(p)'
BY DEF Done, ReadTo, Covered

LEMMA StartReadKafka ==
  ASSUME KafkaInv, NEW from, NEW to, Kafka!StartRead(from, to),
         (from = "ready" /\ to = "load") \/ (from = "idle" /\ to = "increment")
  PROVE  KafkaInv'
<1>1. PICK S \in SUBSET Partitions : Kafka!Listed(S) /\ todo' = S
  BY DEF Kafka!StartRead
<1>2. /\ kphase = from /\ kphase' = to /\ reads < MaxReads /\ reads' = reads + 1
      /\ DOMAIN next' = {} /\ at = <<>>
      /\ UNCHANGED <<topic, log, first, offsets, at, delivered>>
  BY DEF Kafka!StartRead, Kafka!broker, Kafka!Nowhere, KafkaInv, KafkaTypes
<1>3. S \subseteq topic /\ faults' \in 0 .. MaxFaults /\ reads' \in 0 .. MaxReads
  BY <1>1, <1>2, KafkaAssumption DEF Kafka!Listed, KafkaInv, KafkaTypes, KafkaAssumption
<1>4. KafkaTypes'
  BY <1>1, <1>2, <1>3 DEF KafkaInv, KafkaTypes
<1>5. \A p : Covered(p) => Covered(p)'
  BY <1>2, SameBroker DEF KafkaInv
<1> QED
  BY <1>2, <1>4, <1>5 DEF KafkaInv

\* The least of some partitions or offsets.
LEMMA LeastOfNat ==
  ASSUME NEW S \in SUBSET Nat, S # {}
  PROVE  Kafka!Least(S) \in S /\ \A x \in S : Kafka!Least(S) <= x
BY NatHasLeast DEF Kafka!Least

LEMMA BoundsKafka == ASSUME KafkaInv, Kafka!Bounds PROVE KafkaInv'
<1> DEFINE p == Kafka!Least(todo)
           start == Kafka!StartOffset(p)
<1>1. /\ at = <<>> /\ todo # {} /\ todo' = todo \ {p}
      /\ at' = [part |-> p, off |-> start, end |-> Len(log[p])]
      /\ UNCHANGED <<topic, log, first, offsets, kphase, next, delivered, reads, faults>>
  BY DEF Kafka!Bounds, Kafka!NoPartition, Kafka!broker, Kafka!End
<1>2. p \in todo
  <2>1. todo \in SUBSET Nat
    BY KafkaAssumption DEF KafkaInv, KafkaTypes, KafkaAssumption
  <2> QED
    BY <1>1, <2>1, LeastOfNat
<1>3. start = IF kphase = "load" THEN first[p]
              ELSE IF p \notin DOMAIN offsets \/ offsets[p] < first[p] THEN first[p]
              ELSE IF offsets[p] > Len(log[p]) THEN Len(log[p]) ELSE offsets[p]
  BY DEF Kafka!StartOffset, Kafka!End
<1> HIDE DEF p, start
<1>4. /\ p \in topic /\ p \in Partitions /\ first[p] \in Nat /\ Len(log[p]) \in Nat
      /\ first[p] <= Len(log[p]) /\ kphase \in {"load", "increment"}
      /\ p \in DOMAIN offsets => offsets[p] \in 0 .. Len(log[p])
  BY <1>1, <1>2 DEF KafkaInv, KafkaTypes
<1>5. start \in 0 .. Len(log[p]) /\ (start = first[p] \/ (p \in DOMAIN offsets /\ start = offsets[p]
                                                          /\ kphase = "increment"))
  BY <1>3, <1>4
<1>6. Done(p, start)
  <2>1. CASE start = first[p]
    BY <1>4, <2>1 DEF Done, ReadTo
  <2>2. CASE p \in DOMAIN offsets /\ start = offsets[p] /\ kphase = "increment"
    BY <1>4, <2>2 DEF KafkaInv, Covered
  <2> QED
    BY <1>5, <2>1, <2>2
<1>7. at'.part = p /\ at'.off = start /\ at'.end = Len(log[p]) /\ at' # <<>>
  <2>1. [part |-> p, off |-> start, end |-> Len(log[p])] # <<>>
    OBVIOUS
  <2> QED
    BY <1>1, <2>1
<1>8. KafkaTypes'
  BY <1>1, <1>2, <1>4 DEF KafkaInv, KafkaTypes
<1>9. \A q : Covered(q) => Covered(q)'
  BY <1>1 DEF Covered, Done
<1>10. AtInv'
  BY <1>1, <1>4, <1>5, <1>6, <1>7 DEF AtInv, Done
<1>11. \A q \in DOMAIN next' : Done(q, next[q])'
  BY <1>1 DEF KafkaInv, Done
<1> QED
  BY <1>1, <1>8, <1>9, <1>10, <1>11 DEF KafkaInv

\* A read that fails keeps the stored offsets and what was delivered.
LEMMA FailKafka ==
  ASSUME KafkaInv, at # <<>>, Kafka!Fail, UNCHANGED <<topic, log, first, offsets, reads, faults>>
  PROVE  KafkaInv'
<1>1. /\ kphase \in {"load", "increment"}
      /\ kphase' = IF kphase = "load" THEN "ready" ELSE "idle"
      /\ at' = <<>> /\ todo' = {} /\ UNCHANGED <<next, delivered>>
  BY DEF Kafka!Fail, Kafka!NoPartition, KafkaInv, KafkaTypes
<1>2. KafkaTypes'
  BY <1>1 DEF KafkaInv, KafkaTypes
<1>3. \A p : Covered(p) => Covered(p)'
  BY <1>1, SameBroker DEF KafkaInv
<1>4. \A p \in DOMAIN next' : Done(p, next[p])'
  BY <1>1 DEF KafkaInv, Done
<1> QED
  BY <1>1, <1>2, <1>3, <1>4 DEF KafkaInv

LEMMA MessageKafka == ASSUME KafkaInv, Kafka!ReadMessage PROVE KafkaInv'
<1> DEFINE p == at.part
           found == {o \in at.off .. Len(log[p]) - 1 : log[p][o + 1] = "message"}
           m == Kafka!Least(found)
<1>1. /\ at # <<>> /\ at.off < at.end
      /\ UNCHANGED <<topic, log, first, offsets, reads, faults>>
      /\ \/ Kafka!Fail
         \/ /\ found # {} /\ delivered' = delivered \cup {<<p, m>>}
            /\ at' = [at EXCEPT !.off = m + 1]
            /\ UNCHANGED <<kphase, todo, next>>
  BY DEF Kafka!ReadMessage, Kafka!NoPartition, Kafka!Message, Kafka!End, Kafka!broker
<1>2. CASE Kafka!Fail
  BY <1>1, <1>2, FailKafka
<1>3. CASE /\ found # {} /\ delivered' = delivered \cup {<<p, m>>}
           /\ at' = [at EXCEPT !.off = m + 1]
           /\ UNCHANGED <<kphase, todo, next>>
  <2>1. /\ AtInv /\ p \in topic /\ p \in Partitions /\ at.off \in Nat /\ Len(log[p]) \in Nat
        /\ kphase \in {"load", "increment"} /\ first[p] \in Nat
    BY <1>1 DEF KafkaInv, KafkaTypes, AtInv
  <2>2. m \in found /\ \A o \in found : m <= o
    <3>1. found \in SUBSET Nat
      BY <2>1
    <3> QED
      BY <1>3, <3>1, LeastOfNat
  <2> HIDE DEF m
  <2>3. m \in Nat /\ m >= at.off /\ m + 1 \in 0 .. Len(log[p])
    BY <2>1, <2>2
  <2>4. ASSUME Done(p, at.off) PROVE ReadTo(first, log, delivered', p, m + 1)
    <3> SUFFICES ASSUME NEW o \in first[p] .. (m + 1) - 1, log[p][o + 1] = "message"
                 PROVE  <<p, o>> \in delivered'
      BY DEF ReadTo
    <3>1. o \in Int /\ o <= m /\ o >= first[p]
      BY <2>1, <2>3
    <3>2. CASE o < at.off
      <4>1. o \in first[p] .. at.off - 1
        BY <2>1, <3>1, <3>2
      <4>2. <<p, o>> \in delivered
        BY <2>4, <4>1 DEF Done, ReadTo
      <4> QED
        BY <1>3, <4>2
    <3>3. CASE o >= at.off
      <4>1. o \in found
        BY <2>1, <2>3, <3>1, <3>3
      <4>2. o = m
        BY <2>1, <2>2, <2>3, <3>1, <4>1
      <4> QED
        BY <1>3, <4>2
    <3> QED
      BY <2>1, <3>1, <3>2, <3>3
  <2>5. at' # <<>> /\ at'.part = p /\ at'.off = m + 1 /\ at'.end = at.end
        /\ at' = [part |-> p, off |-> m + 1, end |-> at.end]
    <3>1. at = [part |-> at.part, off |-> at.off, end |-> at.end]
      BY <2>1 DEF AtInv
    <3>2. at' = [part |-> p, off |-> m + 1, end |-> at.end]
      BY <1>3, <3>1
    <3>3. [part |-> p, off |-> m + 1, end |-> at.end] # <<>>
      OBVIOUS
    <3> HIDE DEF p
    <3> QED
      BY <3>2, <3>3
  <2> HIDE DEF p, found
  <2>6. delivered \subseteq delivered' /\ UNCHANGED <<topic, log, first, offsets>>
    BY <1>1, <1>3
  <2>7. /\ \A q : Covered(q) => Covered(q)'
        /\ \A q, n : Done(q, n) => ReadTo(first', log', delivered', q, n)
    BY <2>6, SameBroker DEF KafkaInv
  <2>8. KafkaTypes'
    BY <1>1, <1>3, <2>1 DEF KafkaInv, KafkaTypes
  <2>9. AtInv'
    <3>1. Done(p, at.off)
      BY <2>1 DEF AtInv, p
    <3>2. Done(at.part, at.off)'
      BY <1>1, <1>3, <2>4, <2>5, <3>1 DEF Done
    <3>3. at'.end \in 0 .. Len(log[p])
      BY <2>1, <2>5 DEF AtInv, p
    <3> QED
      BY <1>1, <1>3, <2>1, <2>3, <2>5, <3>2, <3>3 DEF AtInv
  <2>10. \A q \in DOMAIN next' : Done(q, next[q])'
    BY <1>3, <2>7 DEF KafkaInv, Done
  <2> QED
    BY <1>1, <2>7, <2>8, <2>9, <2>10 DEF KafkaInv
<1> QED
  BY <1>1, <1>2, <1>3

LEMMA EndPartitionKafka == ASSUME KafkaInv, Kafka!EndPartition PROVE KafkaInv'
<1> DEFINE p == at.part
<1>1. /\ at # <<>> /\ at.off >= at.end /\ at' = <<>>
      /\ next' = [q \in DOMAIN next \cup {p} |-> IF q = p THEN at.end ELSE next[q]]
      /\ UNCHANGED <<topic, log, first, offsets, kphase, todo, delivered, reads, faults>>
  BY DEF Kafka!EndPartition, Kafka!NoPartition, Kafka!broker
<1>2. /\ AtInv /\ p \in topic /\ p \in Partitions /\ at.off \in Nat /\ Len(log[p]) \in Nat
      /\ kphase \in {"load", "increment"} /\ first[p] \in Nat /\ at.end \in 0 .. Len(log[p])
  BY <1>1 DEF KafkaInv, KafkaTypes, AtInv
<1>3. \A q : Covered(q) => Covered(q)'
  BY <1>1, SameBroker DEF KafkaInv
<1>4. Done(p, at.end)
  <2>1. Done(p, at.off)
    BY <1>2 DEF AtInv
  <2>2. \A o \in first[p] .. at.end - 1 : o \in first[p] .. at.off - 1
    BY <1>1, <1>2
  <2> HIDE DEF p
  <2> QED
    BY <2>1, <2>2 DEF Done, ReadTo
<1>5. DOMAIN next' = DOMAIN next \cup {p} /\ next'[p] = at.end
      /\ \A q \in DOMAIN next : q # p => next'[q] = next[q]
  BY <1>1
<1>6. KafkaTypes'
  <2>1. \A q \in DOMAIN next' : next'[q] \in 0 .. Len(log[q])
    BY <1>2, <1>5 DEF KafkaInv, KafkaTypes
  <2> QED
    BY <1>1, <1>2, <1>5, <2>1 DEF KafkaInv, KafkaTypes
<1>7. ASSUME NEW q \in DOMAIN next' PROVE Done(q, next[q])'
  <2>1. CASE q = p
    BY <1>1, <1>4, <1>5, <2>1 DEF Done
  <2>2. CASE q # p
    BY <1>1, <1>5, <2>2 DEF KafkaInv, Done
  <2> QED
    BY <2>1, <2>2
<1> QED
  BY <1>1, <1>3, <1>6, <1>7 DEF KafkaInv

LEMMA EndReadKafka == ASSUME KafkaInv, Kafka!EndLoad \/ Kafka!EndIncrement PROVE KafkaInv'
<1>1. CASE Kafka!EndLoad
  <2>1. /\ kphase = "load" /\ todo = {} /\ at = <<>> /\ kphase' = "loaded"
        /\ UNCHANGED <<topic, log, first, offsets, todo, at, next, delivered, reads, faults>>
    BY <1>1 DEF Kafka!EndLoad, Kafka!NoPartition, Kafka!broker
  <2>2. \A q : Covered(q) => Covered(q)'
    BY <2>1, SameBroker DEF KafkaInv
  <2>3. KafkaTypes'
    BY <2>1 DEF KafkaInv, KafkaTypes
  <2>4. \A q \in DOMAIN next' : Done(q, next[q])'
    BY <2>1 DEF KafkaInv, Done
  <2> QED
    BY <2>1, <2>2, <2>3, <2>4 DEF KafkaInv
<1>2. CASE Kafka!EndIncrement
  <2>1. /\ kphase = "increment" /\ todo = {} /\ at = <<>> /\ kphase' = "idle"
        /\ offsets' = [p \in DOMAIN next \cup DOMAIN offsets |->
                          IF p \in DOMAIN next THEN next[p] ELSE offsets[p]]
        /\ UNCHANGED <<topic, log, first, todo, at, next, delivered, reads, faults>>
    BY <1>2 DEF Kafka!EndIncrement, Kafka!NoPartition, Kafka!broker
  <2>2. /\ DOMAIN offsets' = DOMAIN next \cup DOMAIN offsets
        /\ \A p \in DOMAIN next : offsets'[p] = next[p]
        /\ \A p \in DOMAIN offsets : p \notin DOMAIN next => offsets'[p] = offsets[p]
    BY <2>1
  <2>3. KafkaTypes'
    <3>1. \A p \in DOMAIN offsets' : offsets'[p] \in 0 .. Len(log[p])
      BY <2>2 DEF KafkaInv, KafkaTypes
    <3> QED
      BY <2>1, <2>2, <3>1 DEF KafkaInv, KafkaTypes
  <2>4. ASSUME NEW p \in topic, p \in DOMAIN offsets'
        PROVE  ReadTo(first, log, delivered, p, offsets'[p])
    <3>1. CASE p \in DOMAIN next
      BY <2>1, <2>2, <2>4, <3>1 DEF KafkaInv, Done
    <3>2. CASE p \notin DOMAIN next
      BY <2>1, <2>2, <2>4, <3>2 DEF KafkaInv, Covered, Done
    <3> QED
      BY <3>1, <3>2
  <2>5. \A p \in topic' : Covered(p)'
    BY <2>1, <2>4 DEF Covered, Done
  <2>6. \A p \in DOMAIN next' : Done(p, next[p])'
    BY <2>1 DEF KafkaInv, Done
  <2> QED
    BY <2>1, <2>3, <2>5, <2>6 DEF KafkaInv
<1> QED
  BY <1>1, <1>2

LEMMA NextKafka == KafkaInv /\ [Kafka!Next]_kafka => KafkaInv'
<1>1. ASSUME KafkaInv, Kafka!Next PROVE KafkaInv'
  <2>1. Kafka!ReadChunk \/ Kafka!ReadIncrement => KafkaInv'
    BY <1>1, StartReadKafka, EndReadKafka DEF Kafka!ReadChunk, Kafka!ReadIncrement
  <2>2. ASSUME NEW p \in Partitions,
               \/ \E r \in {"message", "marker"} : Kafka!Produce(p, r)
               \/ Kafka!Expire(p) \/ Kafka!AddPartition(p)
        PROVE  KafkaInv'
    BY <1>1, <2>2, BrokerSteps DEF Records
  <2> QED
    BY <1>1, <2>1, <2>2, BoundsKafka, MessageKafka, EndPartitionKafka, Zenon
       DEF Kafka!Next
<1>2. ASSUME KafkaInv, UNCHANGED kafka PROVE KafkaInv'
  BY <1>2 DEF kafka, KafkaInv, KafkaTypes, AtInv, Covered, Done
<1> QED
  BY <1>1, <1>2

LEMMA KafkaInvImplies == KafkaInv => Kafka!NoMessageSkipped /\ Kafka!TypeOK
<1> SUFFICES ASSUME KafkaInv PROVE Kafka!NoMessageSkipped /\ Kafka!TypeOK
  OBVIOUS
<1>1. \A p \in Partitions : Len(log[p]) \in Nat /\ first[p] \in Nat /\ first[p] <= Len(log[p])
                            /\ Len(log[p]) <= MaxAppends
  BY DEF KafkaInv, KafkaTypes
<1>2. ASSUME NEW p \in topic, kphase \in {"loaded", "idle"},
             NEW o \in first[p] .. Len(log[p]) - 1, log[p][o + 1] = "message",
             p \in DOMAIN Kafka!Vouched
      PROVE  <<p, o>> \in delivered \/ o >= Kafka!Vouched[p]
  <2> DEFINE v == Kafka!Vouched[p]
  <2>1. p \in Partitions /\ v \in Nat /\ Done(p, v)
    BY <1>2 DEF KafkaInv, KafkaTypes, Covered, Kafka!Vouched
  <2> HIDE DEF v
  <2>2. CASE o < v
    <3>1. o \in first[p] .. v - 1
      BY <1>1, <1>2, <2>1, <2>2
    <3> QED
      BY <1>2, <2>1, <3>1 DEF Done, ReadTo
  <2>3. CASE o >= v
    BY <2>3 DEF v
  <2> QED
    BY <1>1, <2>1, <2>2, <2>3
<1>3. Kafka!NoMessageSkipped
  BY <1>2, Zenon DEF Kafka!NoMessageSkipped, Kafka!End, Kafka!Message
<1>4. Kafka!TypeOK
  <2>1. \A p \in Partitions : first[p] \in 0 .. MaxAppends
    BY <1>1, KafkaAssumption DEF KafkaAssumption
  <2>2. ASSUME NEW p \in Partitions
        PROVE  log[p] \in UNION {[1 .. n -> {"message", "marker"}] : n \in 0 .. MaxAppends}
    <3>1. log[p] \in Seq(Records) /\ Len(log[p]) \in 0 .. MaxAppends
      BY <1>1, KafkaAssumption DEF KafkaInv, KafkaTypes, KafkaAssumption
    <3>2. log[p] \in [1 .. Len(log[p]) -> {"message", "marker"}]
      BY <3>1 DEF Records
    <3> QED
      BY <3>1, <3>2
  <2>3. first \in [Partitions -> 0 .. MaxAppends]
    BY <2>1 DEF KafkaInv, KafkaTypes
  <2>4. log \in [Partitions -> UNION {[1 .. n -> {"message", "marker"}] : n \in 0 .. MaxAppends}]
    BY <2>2 DEF KafkaInv, KafkaTypes
  <2>5. ASSUME NEW p \in DOMAIN offsets PROVE offsets[p] \in 0 .. MaxAppends
    <3>1. p \in Partitions /\ offsets[p] \in 0 .. Len(log[p])
      BY DEF KafkaInv, KafkaTypes
    <3> QED
      BY <1>1, <3>1, KafkaAssumption DEF KafkaAssumption
  <2> QED
    BY <2>3, <2>4, <2>5 DEF KafkaInv, KafkaTypes, Kafka!TypeOK
<1> QED
  BY <1>3, <1>4

-----------------------------------------------------------------------------
(* The cells of RowValues.  A value comes back from a file when what the   *)
(* reader gets has the JSON of what was sent; the kinds of values are      *)
(* looked at one by one, then the columns, each a pair of values, then the *)
(* records of a stream.                                                    *)

Back(f, t, v) == Values!Json(Values!Stored(f, v, t)) = Values!Json(v)
\* Both pair of a column of lake type t, and whether they can be told apart.
Comes(f, t, pair) == Back(f, t, pair[1]) /\ Back(f, t, pair[2])
Distinct(pair) == Values!Json(pair[1]) # Values!Json(pair[2])

Fate(t, pair, parquet, ndjson, distinct) ==
  /\ Comes("parquet", t, pair) <=> parquet
  /\ Comes("ndjson", t, pair) <=> ndjson
  /\ Distinct(pair) <=> distinct

Textual == {"string", "json", "timestamp", "decimal", "binary"}

LEMMA ValIs ==
  ASSUME NEW k, NEW x
  PROVE  Values!Val(k, x).go = k /\ Values!Val(k, x).is = x
BY DEF Values!Val

LEMMA JsonOf ==
  ASSUME NEW v
  PROVE  /\ v.go = "string" => Values!Json(v) =
                <<"str", IF v.is[1] = "raw" THEN <<"mangled", 0>> ELSE v.is>>
         /\ v.go = "time" => Values!Json(v) = <<"str", v.is>>
         /\ v.go = "bytes" => Values!Json(v) = <<"str", <<"base64", v.is>>>>
         /\ v.go \notin {"nil", "string", "time", "bytes"} => Values!Json(v) = v.is
BY DEF Values!Json

LEMMA ParquetOf ==
  ASSUME NEW v, v.go # "nil", NEW t
  PROVE  /\ t \in Textual => Values!Stored("parquet", v, t) =
                IF v.go \in {"string", "bytes"} THEN Values!Val("string", v.is)
                ELSE Values!Val("string", <<"json", Values!Json(v)>>)
         /\ t = "bool" => Values!Stored("parquet", v, t) =
                IF v.go = "bool" THEN v ELSE Values!Val("bool", <<"bool", FALSE>>)
         /\ t \in {"int32", "int64"} => Values!Stored("parquet", v, t) =
                Values!Val("int64", Values!Num(Values!ToInt(v)))
         /\ t = "float32" => Values!Stored("parquet", v, t) =
                Values!Val("float64", Values!Num(Values!Widen(Values!ToFloat(v))))
         /\ t = "float64" => Values!Stored("parquet", v, t) =
                Values!Val("float64", Values!Num(Values!ToFloat(v)))
<1>1. Values!Stored("parquet", v, t) = Values!ParquetCell(v, t)
  BY DEF Values!Stored
<1>2. t \in Textual => Values!ParquetCell(v, t) = Values!ToText(v)
  <2>1. t \in Textual => t \notin {"bool", "int32", "int64", "float32", "float64"}
    BY DEF Textual
  <2> QED
    BY <2>1 DEF Values!ParquetCell, Values!Integer
<1>3. t = "bool" => Values!ParquetCell(v, t) =
                IF v.go = "bool" THEN v ELSE Values!Val("bool", <<"bool", FALSE>>)
  BY DEF Values!ParquetCell, Values!Integer
<1>4. t \in {"int32", "int64"} => Values!ParquetCell(v, t) =
                Values!Val("int64", Values!Num(Values!ToInt(v)))
  BY DEF Values!ParquetCell, Values!Integer
<1>5. t = "float32" => Values!ParquetCell(v, t) =
                Values!Val("float64", Values!Num(Values!Widen(Values!ToFloat(v))))
  BY DEF Values!ParquetCell, Values!Integer
<1>6. t = "float64" => Values!ParquetCell(v, t) =
                Values!Val("float64", Values!Num(Values!ToFloat(v)))
  BY DEF Values!ParquetCell, Values!Integer
<1>7. Values!ToText(v) = IF v.go \in {"string", "bytes"} THEN Values!Val("string", v.is)
                ELSE Values!Val("string", <<"json", Values!Json(v)>>)
  BY DEF Values!ToText, Values!As
<1> QED
  BY <1>1, <1>2, <1>3, <1>4, <1>5, <1>6, <1>7

LEMMA NdjsonOf ==
  ASSUME NEW v, NEW t
  PROVE  /\ Values!Json(v)[1] = "str" =>
               Values!Stored("ndjson", v, t) = Values!Val("string", Values!Json(v)[2])
         /\ Values!Json(v)[1] = "num" => Values!Stored("ndjson", v, t) =
               Values!Val("float64", Values!Num(Values!AsDouble(Values!Json(v)[2])))
         /\ Values!Json(v)[1] \notin {"str", "num", "null"} =>
               Values!Stored("ndjson", v, t) = v
BY DEF Values!Stored, Values!NdjsonCell

\* A text comes back from both formats, whatever it holds.
LEMMA StringsBack ==
  ASSUME NEW x, NEW t
  PROVE  /\ t \in Textual => Back("parquet", t, Values!Val("string", x))
         /\ Back("ndjson", t, Values!Val("string", x))
<1> DEFINE v == Values!Val("string", x)
           y == IF x[1] = "raw" THEN <<"mangled", 0>> ELSE x
<1>1. v.go = "string" /\ v.is = x
  BY ValIs
<1>2. Values!Json(v) = <<"str", y>>
  BY <1>1, JsonOf
<1>3. t \in Textual => Values!Stored("parquet", v, t) = v
  BY <1>1, ParquetOf
<1>4. Values!Stored("ndjson", v, t) = Values!Val("string", y)
  <2> HIDE DEF v, y
  <2> QED
    BY <1>2, NdjsonOf
<1>5. Values!Json(Values!Val("string", y)) = <<"str", y>>
  <2>1. y[1] # "raw"
    OBVIOUS
  <2> HIDE DEF y
  <2> QED
    BY <2>1, JsonOf, ValIs
<1> QED
  BY <1>2, <1>3, <1>4, <1>5 DEF Back

\* Raw bytes survive NDJSON, as base64; from Parquet they come back as text.
LEMMA BlobsBack ==
  ASSUME NEW i, NEW t
  PROVE  /\ t \in Textual => ~Back("parquet", t, Values!Val("bytes", <<"raw", i>>))
         /\ Back("ndjson", t, Values!Val("bytes", <<"raw", i>>))
<1> DEFINE x == <<"raw", i>>
           v == Values!Val("bytes", x)
<1>1. v.go = "bytes" /\ v.is = x
  BY ValIs
<1>2. Values!Json(v) = <<"str", <<"base64", x>>>>
  BY <1>1, JsonOf
<1>3. t \in Textual => Values!Stored("parquet", v, t) = Values!Val("string", x)
  BY <1>1, ParquetOf
<1>4. Values!Stored("ndjson", v, t) = Values!Val("string", <<"base64", x>>)
  BY <1>2, NdjsonOf
<1>5. Values!Json(Values!Val("string", x)) = <<"str", <<"mangled", 0>>>>
  BY JsonOf, ValIs
<1>6. Values!Json(Values!Val("string", <<"base64", x>>)) = <<"str", <<"base64", x>>>>
  BY JsonOf, ValIs
<1> QED
  BY <1>2, <1>3, <1>4, <1>5, <1>6 DEF Back
\* A number comes back from a column of whole numbers if toInt64 lists its
\* kind, from a double if toFloat64 does, from a single unless a cast changed
\* it, from a text column never, and from NDJSON if a double holds it.
LEMMA NumbersBack ==
  ASSUME NEW k \in {"int8", "int", "int32", "int64", "uint8", "uint64", "float32",
                    "float64", "number"},
         NEW m \in Int, NEW t
  PROVE  LET v == Values!Val(k, Values!Num(m))
         IN  /\ t \in {"int32", "int64"} /\ k \in {"int", "int32", "int64", "number"}
                  => Back("parquet", t, v)
             /\ t \in {"int32", "int64"} /\ k \in {"int8", "uint8", "uint64"} /\ m # 0
                  => ~Back("parquet", t, v)
             /\ t = "float64" /\ k \in {"float64", "number"} => Back("parquet", t, v)
             /\ t = "float32" /\ k \in {"float32", "float64", "number"}
                  => (Back("parquet", t, v) <=> m # Values!Fraction)
             /\ t \in Textual \cup {"bool"} => ~Back("parquet", t, v)
             /\ Back("ndjson", t, v) <=> m # Values!Huge
<1> DEFINE v == Values!Val(k, Values!Num(m))
<1>1. v.go = k /\ v.is = Values!Num(m) /\ v.go \notin {"nil", "string", "bytes"}
  BY ValIs
<1>2. /\ \A a : Values!Num(a)[1] = "num" /\ Values!Num(a)[2] = a
      /\ \A a, b : Values!Num(a) = Values!Num(b) => a = b
  BY DEF Values!Num
<1>3. Values!Json(v) = Values!Num(m)
  BY <1>1, JsonOf
<1>4. \A a : /\ Values!Json(Values!Val("int64", a)) = a
             /\ Values!Json(Values!Val("float64", a)) = a
             /\ Values!Json(Values!Val("bool", a)) = a
  BY ValIs, JsonOf
<1>5. \A a : Values!Json(Values!Val("string", a))[1] = "str"
  BY ValIs, JsonOf
<1> HIDE DEF v
<1>6. ASSUME t \in {"int32", "int64"} PROVE Back("parquet", t, v) <=> Values!ToInt(v) = m
  <2>1. Values!Stored("parquet", v, t) = Values!Val("int64", Values!Num(Values!ToInt(v)))
    BY <1>1, <1>6, ParquetOf
  <2> QED
    BY <1>2, <1>3, <1>4, <2>1 DEF Back
<1>7. /\ k \in {"int", "int32", "int64", "number"} => Values!ToInt(v) = m
      /\ k \in {"int8", "uint8", "uint64"} => Values!ToInt(v) = 0
  BY <1>1, <1>2 DEF Values!ToInt, Values!Zero
<1>8. ASSUME t = "float64" PROVE Back("parquet", t, v) <=> Values!ToFloat(v) = m
  <2>1. Values!Stored("parquet", v, t) = Values!Val("float64", Values!Num(Values!ToFloat(v)))
    BY <1>1, <1>8, ParquetOf
  <2> QED
    BY <1>2, <1>3, <1>4, <2>1 DEF Back
<1>9. ASSUME t = "float32"
      PROVE  Back("parquet", t, v) <=> Values!Widen(Values!ToFloat(v)) = m
  <2>1. Values!Stored("parquet", v, t)
          = Values!Val("float64", Values!Num(Values!Widen(Values!ToFloat(v))))
    BY <1>1, <1>9, ParquetOf
  <2> QED
    BY <1>2, <1>3, <1>4, <2>1 DEF Back
<1>10. /\ k \in {"float64", "number"} => Values!ToFloat(v) = m
       /\ k = "float32" => Values!ToFloat(v) = Values!Widen(m)
  BY <1>1, <1>2 DEF Values!ToFloat
<1>11. /\ Values!Widen(m) = m <=> m # Values!Fraction
       /\ Values!Widen(Values!Widen(m)) = m <=> m # Values!Fraction
       /\ Values!AsDouble(m) = m <=> m # Values!Huge
  BY DEF Values!Widen, Values!AsDouble, Values!Fraction, Values!Widened, Values!Huge,
     Values!Rounded
<1>12. ASSUME t \in Textual PROVE ~Back("parquet", t, v)
  <2>1. Values!Stored("parquet", v, t) = Values!Val("string", <<"json", Values!Json(v)>>)
    BY <1>1, <1>12, ParquetOf
  <2>2. Values!Json(Values!Stored("parquet", v, t))[1] = "str"
    BY <1>5, <2>1
  <2> QED
    BY <1>2, <1>3, <2>2 DEF Back
<1>13. ASSUME t = "bool" PROVE ~Back("parquet", t, v)
  <2>1. Values!Stored("parquet", v, t) = Values!Val("bool", <<"bool", FALSE>>)
    BY <1>1, <1>13, ParquetOf
  <2>2. Values!Json(Values!Stored("parquet", v, t))[1] = "bool"
    BY <1>4, <2>1
  <2> QED
    BY <1>2, <1>3, <2>2 DEF Back
<1>14. Back("ndjson", t, v) <=> Values!AsDouble(m) = m
  BY <1>2, <1>3, <1>4, NdjsonOf DEF Back
<1> QED
  BY <1>6, <1>7, <1>8, <1>9, <1>10, <1>11, <1>12, <1>13, <1>14 DEF v

\* Flags, documents and times are neither text nor bytes: a text column of a
\* Parquet file gets their JSON, which reads back as a text.
LEMMA OthersBack ==
  ASSUME NEW k, NEW x, NEW t
  PROVE  LET v == Values!Val(k, x)
         IN  /\ k = "bool" /\ t = "bool" => Back("parquet", t, v)
             /\ k \in {"bool", "map"} /\ x[1] \in {"bool", "obj"} =>
                  /\ t \in Textual => ~Back("parquet", t, v)
                  /\ Back("ndjson", t, v)
             /\ k = "time" /\ x[1] = "rfc" =>
                  /\ t \in Textual => ~Back("parquet", t, v)
                  /\ Back("ndjson", t, v)
             /\ k = "string" /\ t \in {"bool", "int32", "int64"} => ~Back("parquet", t, v)
<1> DEFINE v == Values!Val(k, x)
<1>1. v.go = k /\ v.is = x
  BY ValIs
<1>2. \A a : a[1] # "raw" => Values!Json(Values!Val("string", a)) = <<"str", a>>
  BY ValIs, JsonOf
<1> HIDE DEF v
<1>3. ASSUME k = "bool", t = "bool" PROVE Back("parquet", t, v)
  BY <1>1, <1>3, ParquetOf DEF Back
<1>4. ASSUME k \in {"bool", "map"}, x[1] \in {"bool", "obj"}
      PROVE  /\ t \in Textual => ~Back("parquet", t, v)
             /\ Back("ndjson", t, v)
  <2>1. Values!Json(v) = x
    BY <1>1, <1>4, JsonOf
  <2>2. t \in Textual => Values!Stored("parquet", v, t) = Values!Val("string", <<"json", x>>)
    BY <1>1, <1>4, <2>1, ParquetOf
  <2>3. Values!Json(Values!Val("string", <<"json", x>>)) = <<"str", <<"json", x>>>>
    BY <1>2
  <2>4. Values!Stored("ndjson", v, t) = v
    BY <1>4, <2>1, NdjsonOf
  <2> QED
    BY <1>4, <2>1, <2>2, <2>3, <2>4 DEF Back
<1>5. ASSUME k = "time", x[1] = "rfc"
      PROVE  /\ t \in Textual => ~Back("parquet", t, v)
             /\ Back("ndjson", t, v)
  <2>1. Values!Json(v) = <<"str", x>>
    BY <1>1, <1>5, JsonOf
  <2>2. t \in Textual => Values!Stored("parquet", v, t)
                           = Values!Val("string", <<"json", <<"str", x>>>>)
    BY <1>1, <1>5, <2>1, ParquetOf
  <2>3. Values!Json(Values!Val("string", <<"json", <<"str", x>>>>))
          = <<"str", <<"json", <<"str", x>>>>>>
    BY <1>2
  <2>4. Values!Stored("ndjson", v, t) = Values!Val("string", x)
    BY <2>1, NdjsonOf
  <2>5. Values!Json(Values!Val("string", x)) = <<"str", x>>
    BY <1>2, <1>5
  <2> QED
    BY <1>5, <2>1, <2>2, <2>3, <2>4, <2>5 DEF Back
<1>6. ASSUME k = "string", t \in {"bool", "int32", "int64"} PROVE ~Back("parquet", t, v)
  <2>1. Values!Json(v)[1] = "str"
    BY <1>1, <1>6, JsonOf
  <2>2. CASE t = "bool"
    <3>1. Values!Stored("parquet", v, t) = Values!Val("bool", <<"bool", FALSE>>)
      BY <1>1, <1>6, <2>2, ParquetOf
    <3>2. Values!Json(Values!Val("bool", <<"bool", FALSE>>))[1] = "bool"
      BY ValIs, JsonOf
    <3> QED
      BY <2>1, <3>1, <3>2 DEF Back
  <2>3. CASE t \in {"int32", "int64"}
    <3>1. Values!Stored("parquet", v, t) = Values!Val("int64", Values!Num(Values!ToInt(v)))
      BY <1>1, <1>6, <2>3, ParquetOf
    <3>2. Values!Json(Values!Val("int64", Values!Num(Values!ToInt(v))))[1] = "num"
      BY ValIs, JsonOf DEF Values!Num
    <3> QED
      BY <2>1, <3>1, <3>2 DEF Back
  <2> QED
    BY <1>6, <2>2, <2>3
<1> QED
  BY <1>3, <1>4, <1>5, <1>6 DEF v

\* Two texts are told apart by both formats unless they are raw bytes, and come
\* back from every column of text but not from one of flags or whole numbers.
LEMMA TextPairFate ==
  ASSUME NEW x, NEW y, x # y, x[1] # "raw", y[1] # "raw", NEW t
  PROVE  LET pair == <<Values!Val("string", x), Values!Val("string", y)>>
         IN  /\ t \in Textual => Fate(t, pair, TRUE, TRUE, TRUE)
             /\ t \in {"bool", "int32", "int64"} => Fate(t, pair, FALSE, TRUE, TRUE)
<1> DEFINE u == Values!Val("string", x)
           v == Values!Val("string", y)
           pair == <<u, v>>
<1>1. Values!Json(u) = <<"str", x>> /\ Values!Json(v) = <<"str", y>>
  BY ValIs, JsonOf
<1>2. /\ Back("ndjson", t, u) /\ Back("ndjson", t, v)
      /\ t \in Textual => Back("parquet", t, u) /\ Back("parquet", t, v)
  BY StringsBack
<1>3. t \in {"bool", "int32", "int64"} => ~Back("parquet", t, u)
  BY OthersBack
<1>4. pair[1] = u /\ pair[2] = v
  OBVIOUS
<1> HIDE DEF u, v, pair
<1>5. Distinct(pair) /\ Comes("ndjson", t, pair)
  BY <1>1, <1>2, <1>4 DEF Distinct, Comes
<1>6. /\ t \in Textual => Comes("parquet", t, pair)
      /\ t \in {"bool", "int32", "int64"} => ~Comes("parquet", t, pair)
  BY <1>2, <1>3, <1>4 DEF Comes
<1>7. /\ t \in Textual => Fate(t, pair, TRUE, TRUE, TRUE)
      /\ t \in {"bool", "int32", "int64"} => Fate(t, pair, FALSE, TRUE, TRUE)
  BY <1>5, <1>6 DEF Fate
<1> QED
  BY <1>7 DEF u, v, pair

LEMMA TextsFate ==
  ASSUME NEW t,
         NEW pair \in {Values!Texts("string"), Values!Digits("string"),
                        Values!Wholes("string"), Values!Times("string"),
                        Values!JsonTexts("string")}
  PROVE  /\ t \in Textual => Fate(t, pair, TRUE, TRUE, TRUE)
         /\ t \in {"bool", "int32", "int64"} => Fate(t, pair, FALSE, TRUE, TRUE)
<1>1. ASSUME NEW tag, tag # "raw", NEW a, NEW b, a # b,
             pair = <<Values!Val("string", <<tag, a>>), Values!Val("string", <<tag, b>>)>>
      PROVE  /\ t \in Textual => Fate(t, pair, TRUE, TRUE, TRUE)
             /\ t \in {"bool", "int32", "int64"} => Fate(t, pair, FALSE, TRUE, TRUE)
  <2> DEFINE x == <<tag, a>>
             y == <<tag, b>>
  <2>1. x # y /\ x[1] # "raw" /\ y[1] # "raw"
    BY <1>1
  <2>2. pair = <<Values!Val("string", x), Values!Val("string", y)>>
    BY <1>1
  <2> HIDE DEF x, y
  <2> QED
    BY <2>1, <2>2, TextPairFate
<1>2. CASE pair = Values!Texts("string")
  <2>1. pair = <<Values!Val("string", <<"text", 1>>), Values!Val("string", <<"text", 2>>)>>
    BY <1>2 DEF Values!Texts
  <2>2. "text" # "raw" /\ <<1>> # <<2>>
    OBVIOUS
  <2> QED
    BY <1>1, <2>1, <2>2
<1>3. CASE pair = Values!Digits("string")
  <2>1. pair = <<Values!Val("string", <<"digits", 3>>), Values!Val("string", <<"digits", 5>>)>>
    BY <1>3 DEF Values!Digits, Values!Fraction, Values!Huge
  <2>2. "digits" # "raw" /\ <<3>> # <<5>>
    OBVIOUS
  <2> QED
    BY <1>1, <2>1, <2>2
<1>4. CASE pair = Values!Wholes("string")
  <2>1. pair = <<Values!Val("string", <<"digits", 1>>), Values!Val("string", <<"digits", 5>>)>>
    BY <1>4 DEF Values!Wholes, Values!Small, Values!Huge
  <2>2. "digits" # "raw" /\ <<1>> # <<5>>
    OBVIOUS
  <2> QED
    BY <1>1, <2>1, <2>2
<1>5. CASE pair = Values!Times("string")
  <2>1. pair = <<Values!Val("string", <<"rfc", 1>>), Values!Val("string", <<"rfc", 2>>)>>
    BY <1>5 DEF Values!Times
  <2>2. "rfc" # "raw" /\ <<1>> # <<2>>
    OBVIOUS
  <2> QED
    BY <1>1, <2>1, <2>2
<1>6. CASE pair = Values!JsonTexts("string")
  <2>1. pair = <<Values!Val("string", <<"json", <<"obj", 1>>>>),
                  Values!Val("string", <<"json", <<"obj", 2>>>>)>>
    BY <1>6 DEF Values!JsonTexts
  <2>2. <<"obj", 1>> # <<"obj", 2>>
    OBVIOUS
  <2> QED
    BY <1>1, <2>1, <2>2
<1> QED
  BY <1>2, <1>3, <1>4, <1>5, <1>6

\* Raw bytes in a text come back, but all as the same.
LEMMA MangledFate ==
  ASSUME NEW t \in Textual
  PROVE  /\ Fate(t, Values!Blobs("string"), TRUE, TRUE, FALSE)
         /\ \A x : Fate(t, <<Values!Val("string", x), Values!Val("string", x)>>,
                        TRUE, TRUE, FALSE)
<1>1. ASSUME NEW x, NEW y
      PROVE  LET pair == <<Values!Val("string", x), Values!Val("string", y)>>
             IN  Comes("ndjson", t, pair) /\ Comes("parquet", t, pair)
  BY StringsBack DEF Comes
<1>2. ~Distinct(Values!Blobs("string"))
  BY ValIs, JsonOf DEF Distinct, Values!Blobs
<1>3. ASSUME NEW x PROVE ~Distinct(<<Values!Val("string", x), Values!Val("string", x)>>)
  BY DEF Distinct
<1>4. Fate(t, Values!Blobs("string"), TRUE, TRUE, FALSE)
  BY <1>1, <1>2 DEF Fate, Values!Blobs
<1>5. ASSUME NEW x
      PROVE  Fate(t, <<Values!Val("string", x), Values!Val("string", x)>>, TRUE, TRUE, FALSE)
  BY <1>1, <1>3 DEF Fate
<1> QED
  BY <1>4, <1>5

LEMMA BlobsFate ==
  ASSUME NEW t \in Textual
  PROVE  Fate(t, Values!Blobs("bytes"), FALSE, TRUE, TRUE)
<1> DEFINE pair == Values!Blobs("bytes")
<1>1. pair[1] = Values!Val("bytes", <<"raw", 1>>) /\ pair[2] = Values!Val("bytes", <<"raw", 2>>)
  BY DEF Values!Blobs
<1>2. Comes("ndjson", t, pair) /\ ~Comes("parquet", t, pair)
  BY <1>1, BlobsBack DEF Comes
<1>3. Distinct(pair)
  BY <1>1, ValIs, JsonOf DEF Distinct
<1> QED
  BY <1>2, <1>3 DEF Fate

LEMMA FlagsFate ==
  ASSUME NEW t
  PROVE  /\ t = "bool" => Fate(t, Values!Flags, TRUE, TRUE, TRUE)
         /\ t \in Textual => Fate(t, Values!Flags, FALSE, TRUE, TRUE)
<1> DEFINE pair == Values!Flags
<1>1. /\ pair[1] = Values!Val("bool", <<"bool", TRUE>>)
      /\ pair[2] = Values!Val("bool", <<"bool", FALSE>>)
  BY DEF Values!Flags
<1>2. /\ t = "bool" => Comes("parquet", t, pair)
      /\ t \in Textual => ~Comes("parquet", t, pair)
      /\ Comes("ndjson", t, pair)
  BY <1>1, OthersBack DEF Comes
<1>3. Distinct(pair)
  <2>1. /\ Values!Json(pair[1]) = <<"bool", TRUE>>
        /\ Values!Json(pair[2]) = <<"bool", FALSE>>
    <3>1. \A x : Values!Json(Values!Val("bool", x)) = x
      BY ValIs, JsonOf
    <3> QED
      BY <1>1, <3>1, Zenon
  <2>2. <<"bool", TRUE>> # <<"bool", FALSE>>
    <3>1. <<"bool", TRUE>>[2] = TRUE /\ <<"bool", FALSE>>[2] = FALSE
      OBVIOUS
    <3> QED
      BY <3>1, Zenon
  <2> QED
    BY <2>1, <2>2, Zenon DEF Distinct
<1> QED
  BY <1>2, <1>3 DEF Fate

LEMMA DocumentsFate ==
  ASSUME NEW t \in Textual
  PROVE  /\ Fate(t, Values!Documents("map"), FALSE, TRUE, TRUE)
         /\ Fate(t, Values!Times("time"), FALSE, TRUE, TRUE)
<1> DEFINE d == Values!Documents("map")
           s == Values!Times("time")
<1>1. /\ d[1] = Values!Val("map", <<"obj", 1>>) /\ d[2] = Values!Val("map", <<"obj", 2>>)
      /\ s[1] = Values!Val("time", <<"rfc", 1>>) /\ s[2] = Values!Val("time", <<"rfc", 2>>)
  BY DEF Values!Documents, Values!Times
<1>2. ~Comes("parquet", t, d) /\ ~Comes("parquet", t, s)
  BY <1>1, OthersBack DEF Comes
<1>3. Comes("ndjson", t, d) /\ Comes("ndjson", t, s)
  BY <1>1, OthersBack DEF Comes
<1>4. Distinct(d) /\ Distinct(s)
  BY <1>1, ValIs, JsonOf DEF Distinct
<1> QED
  BY <1>2, <1>3, <1>4 DEF Fate

\* Two numbers, by the kind of the value and the type of the column.
LEMMA NumberPairFate ==
  ASSUME NEW k \in {"int8", "int", "int32", "int64", "uint8", "uint64", "float32",
                    "float64", "number"},
         NEW m \in Int, NEW n \in Int, m # n, n # 0, NEW t
  PROVE  LET pair == <<Values!Val(k, Values!Num(m)), Values!Val(k, Values!Num(n))>>
         IN  /\ Distinct(pair)
             /\ Comes("ndjson", t, pair) <=> Values!Huge \notin {m, n}
             /\ t \in {"int32", "int64"} /\ k \in {"int", "int32", "int64", "number"}
                  => Comes("parquet", t, pair)
             /\ t \in {"int32", "int64"} /\ k \in {"int8", "uint8", "uint64"}
                  => ~Comes("parquet", t, pair)
             /\ t = "float64" /\ k \in {"float64", "number"} => Comes("parquet", t, pair)
             /\ t = "float32" /\ k \in {"float32", "float64", "number"}
                  => (Comes("parquet", t, pair) <=> Values!Fraction \notin {m, n})
             /\ t \in Textual \cup {"bool"} => ~Comes("parquet", t, pair)
<1> DEFINE u == Values!Val(k, Values!Num(m))
           v == Values!Val(k, Values!Num(n))
           pair == <<u, v>>
<1>1. pair[1] = u /\ pair[2] = v
  OBVIOUS
<1>2. Values!Json(u) = Values!Num(m) /\ Values!Json(v) = Values!Num(n)
  BY ValIs, JsonOf
<1>3. Values!Num(m) # Values!Num(n)
  BY DEF Values!Num
<1>4. /\ Back("ndjson", t, u) <=> m # Values!Huge
      /\ Back("ndjson", t, v) <=> n # Values!Huge
      /\ t \in Textual \cup {"bool"} => ~Back("parquet", t, u)
  BY NumbersBack
<1>5. /\ t \in {"int32", "int64"} /\ k \in {"int", "int32", "int64", "number"}
           => Back("parquet", t, u) /\ Back("parquet", t, v)
      /\ t \in {"int32", "int64"} /\ k \in {"int8", "uint8", "uint64"}
           => ~Back("parquet", t, v)
  BY NumbersBack
<1>6. /\ t = "float64" /\ k \in {"float64", "number"}
           => Back("parquet", t, u) /\ Back("parquet", t, v)
      /\ t = "float32" /\ k \in {"float32", "float64", "number"}
           => /\ Back("parquet", t, u) <=> m # Values!Fraction
              /\ Back("parquet", t, v) <=> n # Values!Fraction
  BY NumbersBack
<1> HIDE DEF u, v, pair
<1>7. Distinct(pair)
  BY <1>1, <1>2, <1>3 DEF Distinct
<1>8. /\ Comes("ndjson", t, pair) <=> Values!Huge \notin {m, n}
      /\ Comes("parquet", t, pair) <=> Back("parquet", t, u) /\ Back("parquet", t, v)
  BY <1>1, <1>4 DEF Comes
<1> QED
  BY <1>4, <1>5, <1>6, <1>7, <1>8 DEF u, v, pair

LEMMA IntsFate ==
  ASSUME NEW t,
         NEW k \in {"int8", "int", "int32", "int64", "uint8", "number"}
  PROVE  /\ t \in {"int32", "int64"} /\ k \notin {"int8", "uint8"}
              => Fate(t, Values!Ints(k), TRUE, TRUE, TRUE)
         /\ t \in {"int32", "int64"} /\ k \in {"int8", "uint8"}
              => Fate(t, Values!Ints(k), FALSE, TRUE, TRUE)
         /\ t \in Textual \cup {"bool"} => Fate(t, Values!Ints(k), FALSE, TRUE, TRUE)
<1>1. 1 \in Int /\ 2 \in Int /\ 5 \notin {1, 2}
  OBVIOUS
<1> QED
  BY <1>1, NumberPairFate
  DEF Fate, Values!Ints, Values!Small, Values!Other, Values!Huge

LEMMA BigsFate ==
  ASSUME NEW t \in {"int32", "int64"}
  PROVE  /\ Fate(t, Values!Bigs("int64"), TRUE, FALSE, TRUE)
         /\ Fate(t, Values!Bigs("number"), TRUE, FALSE, TRUE)
         /\ Fate(t, Values!Bigs("uint64"), FALSE, FALSE, TRUE)
<1>1. 1 \in Int /\ 5 \in Int
  OBVIOUS
<1> QED
  BY <1>1, NumberPairFate DEF Fate, Values!Bigs, Values!Small, Values!Huge

LEMMA FractionsFate ==
  ASSUME NEW t, NEW k \in {"float32", "float64", "number"}
  PROVE  /\ t \in Textual => Fate(t, Values!Fractions(k), FALSE, TRUE, TRUE)
         /\ t = "float32" => Fate(t, Values!Fractions(k), FALSE, TRUE, TRUE)
         /\ t = "float64" /\ k # "float32" => Fate(t, Values!Fractions(k), TRUE, TRUE, TRUE)
         /\ t = "float64" /\ k # "float32" =>
              Fate(t, <<Values!Val(k, Values!Num(Values!Widened)),
                        Values!Val(k, Values!Num(Values!Other))>>, TRUE, TRUE, TRUE)
<1>1. 2 \in Int /\ 3 \in Int /\ 4 \in Int /\ 5 \notin {2, 3, 4}
  OBVIOUS
<1> QED
  BY <1>1, NumberPairFate
  DEF Fate, Values!Fractions, Values!Fraction, Values!Other, Values!Widened, Values!Huge

-----------------------------------------------------------------------------
(* Every column of every connector.                                        *)

\* What becomes of a column's pair is what the lists of RowValues say.
ColumnFate(c, n, t, pair) ==
  Fate(t, pair, <<c, n>> \notin Values!AlteredByParquet,
       <<c, n>> \notin Values!AlteredByNdjson, <<c, n>> \notin Values!Mangled)

Hexes == <<Values!Val("string", <<"hex", <<"raw", 1>>>>),
           Values!Val("string", <<"hex", <<"raw", 2>>>>)>>
Octets == <<Values!Val("string", <<"json", <<"str", <<"mangled", 0>>>>>>),
            Values!Val("string", <<"json", <<"str", <<"mangled", 0>>>>>>)>>
Singles == <<Values!Val("float64", Values!Num(Values!Widened)),
             Values!Val("float64", Values!Num(Values!Other))>>

\* The JSON of a document and of a text that is no UTF-8.
LEMMA DocumentJson == \A x : Values!Json(Values!Val("map", x)) = x
BY ValIs, JsonOf

LEMMA RawJson ==
  \A i : Values!Json(Values!Val("string", <<"raw", i>>)) = <<"str", <<"mangled", 0>>>>
BY ValIs, JsonOf

LEMMA OctetsFate ==
  ASSUME NEW t \in Textual
  PROVE  Fate(t, Octets, TRUE, TRUE, FALSE)
BY MangledFate DEF Octets

LEMMA SinglesFate == Fate("float64", Singles, TRUE, TRUE, TRUE)
BY FractionsFate DEF Singles

LEMMA HexesFate ==
  ASSUME NEW t \in Textual
  PROVE  Fate(t, Hexes, TRUE, TRUE, TRUE)
<1>1. <<"raw", 1>> # <<"raw", 2>>
  OBVIOUS
<1>2. <<"hex", <<"raw", 1>>>> # <<"hex", <<"raw", 2>>>>
  BY <1>1
<1> DEFINE x == <<"hex", <<"raw", 1>>>>
           y == <<"hex", <<"raw", 2>>>>
<1>3. x # y /\ x[1] # "raw" /\ y[1] # "raw"
  BY <1>2
<1>4. Hexes = <<Values!Val("string", x), Values!Val("string", y)>>
  BY DEF Hexes
<1> HIDE DEF x, y
<1> QED
  BY <1>3, <1>4, TextPairFate

LEMMA MysqlFate ==
  ASSUME NEW n \in DOMAIN Values!MysqlScan, NEW t, t = Values!MysqlType[n],
         NEW pair, pair = <<Values!ScannedValue(Values!MysqlScan[n][1], Values!MysqlType[n]),
                              Values!ScannedValue(Values!MysqlScan[n][2], Values!MysqlType[n])>>
  PROVE  ColumnFate("mysql", n, t, pair)
<1>1. n \in {"int", "bigint", "bit", "decimal", "float", "double", "datetime", "json",
              "varbinary", "varchar", "enum", "tinyint"}
  BY DEF Values!MysqlScan
<1> USE DEF Values!MysqlScan, Values!MysqlType, Values!ScannedValue, Values!As,
     Values!Val, Values!Num, Values!Bigs, Values!Blobs, Values!Digits, Values!Fractions,
     Values!Ints, Values!JsonTexts, Values!Texts, Values!Times, Values!Small,
     Values!Other, Values!Fraction, Values!Widened, Values!Huge
<1>2. n = "int" => t = "int32" /\ pair = Values!Ints("int64")
  OBVIOUS
<1>3. n = "bigint" => t = "int64" /\ pair = Values!Bigs("int64")
  OBVIOUS
<1>4. n = "bit" => t = "bool" /\ pair = Values!Texts("string")
  OBVIOUS
<1>5. n = "decimal" => t = "decimal" /\ pair = Values!Digits("string")
  OBVIOUS
<1>6. n = "float" => t = "float32" /\ pair = Values!Fractions("float32")
  OBVIOUS
<1>7. n = "double" => t = "float64" /\ pair = Values!Fractions("float64")
  OBVIOUS
<1>8. n = "datetime" => t = "timestamp" /\ pair = Values!Times("string")
  OBVIOUS
<1>9. n = "json" => t = "json" /\ pair = Values!JsonTexts("string")
  OBVIOUS
<1>10. n = "varbinary" => t = "binary" /\ pair = Values!Blobs("bytes")
  OBVIOUS
<1>11. n = "varchar" => t = "string" /\ pair = Values!Texts("string")
  OBVIOUS
<1>12. n = "enum" => t = "string" /\ pair = Values!Texts("string")
  OBVIOUS
<1>13. n = "tinyint" => t = "int32" /\ pair = Values!Ints("int64")
  OBVIOUS
<1> HIDE DEF Values!MysqlScan, Values!MysqlType, Values!ScannedValue, Values!As,
     Values!Val, Values!Num, Values!Bigs, Values!Blobs, Values!Digits, Values!Fractions,
     Values!Ints, Values!JsonTexts, Values!Texts, Values!Times, Values!Small,
     Values!Other, Values!Fraction, Values!Widened, Values!Huge
<1>14. n \in {"int", "decimal", "double", "datetime", "json", "varchar", "enum",
              "tinyint"}
        => Fate(t, pair, TRUE, TRUE, TRUE)
  BY <1>2, <1>5, <1>7, <1>8, <1>9, <1>11, <1>12, <1>13, FractionsFate, IntsFate,
     TextsFate DEF Textual
<1>15. n = "bigint"
        => Fate(t, pair, TRUE, FALSE, TRUE)
  BY <1>3, BigsFate DEF Textual
<1>16. n \in {"bit", "float", "varbinary"}
        => Fate(t, pair, FALSE, TRUE, TRUE)
  BY <1>4, <1>6, <1>10, BlobsFate, FractionsFate, TextsFate DEF Textual
<1>17. <<"mysql", n>> \in Values!AlteredByParquet 
        <=> n \in {"bit", "float", "varbinary"}
  BY <1>1 DEF Values!AlteredByParquet
<1>18. <<"mysql", n>> \in Values!AlteredByNdjson <=> n = "bigint"
  BY <1>1 DEF Values!AlteredByNdjson
<1>19. <<"mysql", n>> \notin Values!Mangled
  BY <1>1 DEF Values!Mangled
<1> QED
  BY <1>1, <1>14, <1>15, <1>16, <1>17, <1>18, <1>19 DEF ColumnFate, Fate

LEMMA PostgresFate ==
  ASSUME NEW n \in DOMAIN Values!PostgresScan, NEW t, t = Values!PostgresType[n],
         NEW pair, pair = <<Values!PostgresValue(Values!PostgresScan[n][1]),
                              Values!PostgresValue(Values!PostgresScan[n][2])>>
  PROVE  ColumnFate("postgres", n, t, pair)
<1>1. n \in {"smallint", "integer", "bigint", "boolean", "real", "double", "numeric",
              "text", "uuid", "timestamptz", "jsonb", "bytea"}
  BY DEF Values!PostgresScan
<1> USE DEF Values!PostgresScan, Values!PostgresType, Values!PostgresValue, Values!As,
     Values!Val, Values!Num, Values!Bigs, Values!Blobs, Values!Digits, Values!Documents,
     Values!Flags, Values!Fractions, Values!Ints, Values!Texts, Values!Times,
     Values!Small, Values!Other, Values!Fraction, Values!Widened, Values!Huge
<1>2. n = "smallint" => t = "int32" /\ pair = Values!Ints("int32")
  OBVIOUS
<1>3. n = "integer" => t = "int32" /\ pair = Values!Ints("int32")
  OBVIOUS
<1>4. n = "bigint" => t = "int64" /\ pair = Values!Bigs("int64")
  OBVIOUS
<1>5. n = "boolean" => t = "bool" /\ pair = Values!Flags
  OBVIOUS
<1>6. n = "real" => t = "float32" /\ pair = Values!Fractions("float32")
  OBVIOUS
<1>7. n = "double" => t = "float64" /\ pair = Values!Fractions("float64")
  OBVIOUS
<1>8. n = "numeric" => t = "decimal" /\ pair = Values!Digits("string")
  OBVIOUS
<1>9. n = "text" => t = "string" /\ pair = Values!Texts("string")
  OBVIOUS
<1>10. n = "uuid" => t = "string" /\ pair = Values!Texts("string")
  OBVIOUS
<1>11. n = "timestamptz" => t = "timestamp" /\ pair = Values!Times("time")
  OBVIOUS
<1>12. n = "jsonb" => t = "json" /\ pair = Values!Documents("map")
  OBVIOUS
<1>13. n = "bytea" => t = "binary" /\ pair = Values!Blobs("bytes")
  OBVIOUS
<1> HIDE DEF Values!PostgresScan, Values!PostgresType, Values!PostgresValue, Values!As,
     Values!Val, Values!Num, Values!Bigs, Values!Blobs, Values!Digits, Values!Documents,
     Values!Flags, Values!Fractions, Values!Ints, Values!Texts, Values!Times,
     Values!Small, Values!Other, Values!Fraction, Values!Widened, Values!Huge
<1>14. n \in {"smallint", "integer", "boolean", "double", "numeric", "text", "uuid"}
        => Fate(t, pair, TRUE, TRUE, TRUE)
  BY <1>2, <1>3, <1>5, <1>7, <1>8, <1>9, <1>10, FlagsFate, FractionsFate, IntsFate,
     TextsFate DEF Textual
<1>15. n = "bigint"
        => Fate(t, pair, TRUE, FALSE, TRUE)
  BY <1>4, BigsFate DEF Textual
<1>16. n \in {"real", "timestamptz", "jsonb", "bytea"}
        => Fate(t, pair, FALSE, TRUE, TRUE)
  BY <1>6, <1>11, <1>12, <1>13, BlobsFate, DocumentsFate, FractionsFate DEF Textual
<1>17. <<"postgres", n>> \in Values!AlteredByParquet 
        <=> n \in {"real", "timestamptz", "jsonb", "bytea"}
  BY <1>1 DEF Values!AlteredByParquet
<1>18. <<"postgres", n>> \in Values!AlteredByNdjson <=> n = "bigint"
  BY <1>1 DEF Values!AlteredByNdjson
<1>19. <<"postgres", n>> \notin Values!Mangled
  BY <1>1 DEF Values!Mangled
<1> QED
  BY <1>1, <1>14, <1>15, <1>16, <1>17, <1>18, <1>19 DEF ColumnFate, Fate

LEMMA SqliteFate ==
  ASSUME NEW n \in DOMAIN Values!SqliteScan, NEW t, t = Values!SqliteType[n],
         NEW pair, pair = <<Values!SqliteValue(Values!SqliteScan[n][1], Values!SqliteType[n]),
                              Values!SqliteValue(Values!SqliteScan[n][2], Values!SqliteType[n])>>
  PROVE  ColumnFate("sqlite", n, t, pair)
<1>1. n \in {"INTEGER", "TEXT", "REAL", "BLOB", "BOOL", "DECIMAL", "TIMESTAMP"}
  BY DEF Values!SqliteScan
<1> USE DEF Values!SqliteScan, Values!SqliteType, Values!SqliteValue, Values!As,
     Values!Val, Values!Num, Values!Bigs, Values!Blobs, Values!Fractions, Values!Ints,
     Values!Texts, Values!Times, Values!Small, Values!Other, Values!Fraction,
     Values!Widened, Values!Huge
<1>2. n = "INTEGER" => t = "int64" /\ pair = Values!Bigs("int64")
  OBVIOUS
<1>3. n = "TEXT" => t = "string" /\ pair = Values!Texts("string")
  OBVIOUS
<1>4. n = "REAL" => t = "float64" /\ pair = Values!Fractions("float64")
  OBVIOUS
<1>5. n = "BLOB" => t = "binary" /\ pair = Values!Blobs("bytes")
  OBVIOUS
<1>6. n = "BOOL" => t = "bool" /\ pair = Values!Ints("int64")
  OBVIOUS
<1>7. n = "DECIMAL" => t = "decimal" /\ pair = Values!Fractions("float64")
  OBVIOUS
<1>8. n = "TIMESTAMP" => t = "timestamp" /\ pair = Values!Times("string")
  OBVIOUS
<1> HIDE DEF Values!SqliteScan, Values!SqliteType, Values!SqliteValue, Values!As,
     Values!Val, Values!Num, Values!Bigs, Values!Blobs, Values!Fractions, Values!Ints,
     Values!Texts, Values!Times, Values!Small, Values!Other, Values!Fraction,
     Values!Widened, Values!Huge
<1>9. n = "INTEGER"
        => Fate(t, pair, TRUE, FALSE, TRUE)
  BY <1>2, BigsFate DEF Textual
<1>10. n \in {"TEXT", "REAL", "TIMESTAMP"}
        => Fate(t, pair, TRUE, TRUE, TRUE)
  BY <1>3, <1>4, <1>8, FractionsFate, TextsFate DEF Textual
<1>11. n \in {"BLOB", "BOOL", "DECIMAL"}
        => Fate(t, pair, FALSE, TRUE, TRUE)
  BY <1>5, <1>6, <1>7, BlobsFate, FractionsFate, IntsFate DEF Textual
<1>12. <<"sqlite", n>> \in Values!AlteredByParquet 
        <=> n \in {"BLOB", "BOOL", "DECIMAL"}
  BY <1>1 DEF Values!AlteredByParquet
<1>13. <<"sqlite", n>> \in Values!AlteredByNdjson <=> n = "INTEGER"
  BY <1>1 DEF Values!AlteredByNdjson
<1>14. <<"sqlite", n>> \notin Values!Mangled
  BY <1>1 DEF Values!Mangled
<1> QED
  BY <1>1, <1>9, <1>10, <1>11, <1>12, <1>13, <1>14 DEF ColumnFate, Fate

LEMMA MssqlFate ==
  ASSUME NEW n \in DOMAIN Values!MssqlScan, NEW t, t = Values!MssqlType[n],
         NEW pair, pair = <<Values!ScannedValue(Values!MssqlScan[n][1], Values!MssqlType[n]),
                              Values!ScannedValue(Values!MssqlScan[n][2], Values!MssqlType[n])>>
  PROVE  ColumnFate("mssql", n, t, pair)
<1>1. n \in {"int", "bigint", "bit", "decimal", "real", "float", "datetime2",
              "varbinary", "nvarchar", "uniqueidentifier"}
  BY DEF Values!MssqlScan
<1> USE DEF Values!MssqlScan, Values!MssqlType, Values!ScannedValue, Values!As,
     Values!Val, Values!Num, Values!Bigs, Values!Blobs, Values!Digits, Values!Flags,
     Values!Fractions, Values!Ints, Values!Texts, Values!Times, Values!Small,
     Values!Other, Values!Fraction, Values!Widened, Values!Huge
<1>2. n = "int" => t = "int32" /\ pair = Values!Ints("int64")
  OBVIOUS
<1>3. n = "bigint" => t = "int64" /\ pair = Values!Bigs("int64")
  OBVIOUS
<1>4. n = "bit" => t = "bool" /\ pair = Values!Flags
  OBVIOUS
<1>5. n = "decimal" => t = "decimal" /\ pair = Values!Digits("string")
  OBVIOUS
<1>6. n = "real" => t = "float32" /\ pair = Values!Fractions("float64")
  OBVIOUS
<1>7. n = "float" => t = "float64" /\ pair = Values!Fractions("float64")
  OBVIOUS
<1>8. n = "datetime2" => t = "timestamp" /\ pair = Values!Times("string")
  OBVIOUS
<1>9. n = "varbinary" => t = "binary" /\ pair = Values!Blobs("bytes")
  OBVIOUS
<1>10. n = "nvarchar" => t = "string" /\ pair = Values!Texts("string")
  OBVIOUS
<1>11. n = "uniqueidentifier" => t = "string" /\ pair = Values!Blobs("string")
  OBVIOUS
<1> HIDE DEF Values!MssqlScan, Values!MssqlType, Values!ScannedValue, Values!As,
     Values!Val, Values!Num, Values!Bigs, Values!Blobs, Values!Digits, Values!Flags,
     Values!Fractions, Values!Ints, Values!Texts, Values!Times, Values!Small,
     Values!Other, Values!Fraction, Values!Widened, Values!Huge
<1>12. n \in {"int", "bit", "decimal", "float", "datetime2", "nvarchar"}
        => Fate(t, pair, TRUE, TRUE, TRUE)
  BY <1>2, <1>4, <1>5, <1>7, <1>8, <1>10, FlagsFate, FractionsFate, IntsFate, TextsFate DEF Textual
<1>13. n = "bigint"
        => Fate(t, pair, TRUE, FALSE, TRUE)
  BY <1>3, BigsFate DEF Textual
<1>14. n \in {"real", "varbinary"}
        => Fate(t, pair, FALSE, TRUE, TRUE)
  BY <1>6, <1>9, BlobsFate, FractionsFate DEF Textual
<1>15. n = "uniqueidentifier"
        => Fate(t, pair, TRUE, TRUE, FALSE)
  BY <1>11, MangledFate DEF Textual
<1>16. <<"mssql", n>> \in Values!AlteredByParquet 
        <=> n \in {"real", "varbinary"}
  BY <1>1 DEF Values!AlteredByParquet
<1>17. <<"mssql", n>> \in Values!AlteredByNdjson <=> n = "bigint"
  BY <1>1 DEF Values!AlteredByNdjson
<1>18. <<"mssql", n>> \in Values!Mangled <=> n = "uniqueidentifier"
  BY <1>1 DEF Values!Mangled
<1> QED
  BY <1>1, <1>12, <1>13, <1>14, <1>15, <1>16, <1>17, <1>18 DEF ColumnFate, Fate

LEMMA OracleFate ==
  ASSUME NEW n \in DOMAIN Values!OracleScan, NEW t, t = Values!OracleType[n],
         NEW pair, pair = <<Values!OracleValue(Values!OracleScan[n][1], Values!OracleType[n]),
                              Values!OracleValue(Values!OracleScan[n][2], Values!OracleType[n])>>
  PROVE  ColumnFate("oracle", n, t, pair)
<1>1. n \in {"INTEGER", "NUMBER", "BINARY_DOUBLE", "TIMESTAMP", "RAW", "VARCHAR2"}
  BY DEF Values!OracleScan
<1> USE DEF Values!OracleScan, Values!OracleType, Values!OracleValue, Values!Parsed,
     Values!Integer, Values!As, Values!Val, Values!Num, Values!Bigs, Values!Blobs,
     Values!Digits, Values!Fractions, Values!Texts, Values!Times, Values!Wholes, Hexes,
     Values!Small, Values!Other, Values!Fraction, Values!Widened, Values!Huge
<1>2. n = "INTEGER" => t = "int64" /\ pair = Values!Bigs("int64")
  OBVIOUS
<1>3. n = "NUMBER" => t = "decimal" /\ pair = Values!Digits("string")
  OBVIOUS
<1>4. n = "BINARY_DOUBLE" => t = "float64" /\ pair = Values!Fractions("float64")
  OBVIOUS
<1>5. n = "TIMESTAMP" => t = "timestamp" /\ pair = Values!Times("string")
  OBVIOUS
<1>6. n = "RAW" => t = "string" /\ pair = Hexes
  OBVIOUS
<1>7. n = "VARCHAR2" => t = "string" /\ pair = Values!Texts("string")
  OBVIOUS
<1> HIDE DEF Values!OracleScan, Values!OracleType, Values!OracleValue, Values!Parsed,
     Values!Integer, Values!As, Values!Val, Values!Num, Values!Bigs, Values!Blobs,
     Values!Digits, Values!Fractions, Values!Texts, Values!Times, Values!Wholes, Hexes,
     Values!Small, Values!Other, Values!Fraction, Values!Widened, Values!Huge
<1>8. n = "INTEGER"
        => Fate(t, pair, TRUE, FALSE, TRUE)
  BY <1>2, BigsFate DEF Textual
<1>9. n \in {"NUMBER", "BINARY_DOUBLE", "TIMESTAMP", "RAW", "VARCHAR2"}
        => Fate(t, pair, TRUE, TRUE, TRUE)
  BY <1>3, <1>4, <1>5, <1>6, <1>7, FractionsFate, HexesFate, TextsFate DEF Textual
<1>10. <<"oracle", n>> \notin Values!AlteredByParquet
  BY <1>1 DEF Values!AlteredByParquet
<1>11. <<"oracle", n>> \in Values!AlteredByNdjson <=> n = "INTEGER"
  BY <1>1 DEF Values!AlteredByNdjson
<1>12. <<"oracle", n>> \notin Values!Mangled
  BY <1>1 DEF Values!Mangled
<1> QED
  BY <1>1, <1>8, <1>9, <1>10, <1>11, <1>12 DEF ColumnFate, Fate

LEMMA Db2Fate ==
  ASSUME NEW n \in DOMAIN Values!Db2Scan, NEW t, t = Values!Db2Type[n],
         NEW pair, pair = <<Values!Db2Value(Values!Db2Scan[n][1], Values!Db2Type[n], n = "BLOB"),
                              Values!Db2Value(Values!Db2Scan[n][2], Values!Db2Type[n], n = "BLOB")>>
  PROVE  ColumnFate("db2", n, t, pair)
<1>1. n \in {"INTEGER", "BIGINT", "DECIMAL", "REAL", "DOUBLE", "TIMESTAMP", "BLOB",
              "VARCHAR", "BITDATA"}
  BY DEF Values!Db2Scan
<1> USE DEF Values!Db2Scan, Values!Db2Type, Values!Db2Value, Values!Parsed,
     Values!Integer, Values!Widen, Values!As, Values!Val, Values!Num, Values!Bigs,
     Values!Blobs, Values!Digits, Values!Fractions, Values!Ints, Values!Texts,
     Values!Times, Hexes, Singles, Values!Small, Values!Other, Values!Fraction,
     Values!Widened, Values!Huge
<1>2. n = "INTEGER" => t = "int64" /\ pair = Values!Ints("int64")
  OBVIOUS
<1>3. n = "BIGINT" => t = "int64" /\ pair = Values!Bigs("int64")
  OBVIOUS
<1>4. n = "DECIMAL" => t = "decimal" /\ pair = Values!Digits("string")
  OBVIOUS
<1>5. n = "REAL" => t = "float64" /\ pair = Singles
  OBVIOUS
<1>6. n = "DOUBLE" => t = "float64" /\ pair = Values!Fractions("float64")
  OBVIOUS
<1>7. n = "TIMESTAMP" => t = "timestamp" /\ pair = Values!Times("string")
  OBVIOUS
<1>8. n = "BLOB" => t = "string" /\ pair = Hexes
  OBVIOUS
<1>9. n = "VARCHAR" => t = "string" /\ pair = Values!Texts("string")
  OBVIOUS
<1>10. n = "BITDATA" => t = "string" /\ pair = Values!Blobs("string")
  OBVIOUS
<1> HIDE DEF Values!Db2Scan, Values!Db2Type, Values!Db2Value, Values!Parsed,
     Values!Integer, Values!Widen, Values!As, Values!Val, Values!Num, Values!Bigs,
     Values!Blobs, Values!Digits, Values!Fractions, Values!Ints, Values!Texts,
     Values!Times, Hexes, Singles, Values!Small, Values!Other, Values!Fraction,
     Values!Widened, Values!Huge
<1>11. n \in {"INTEGER", "DECIMAL", "REAL", "DOUBLE", "TIMESTAMP", "BLOB", "VARCHAR"}
        => Fate(t, pair, TRUE, TRUE, TRUE)
  BY <1>2, <1>4, <1>5, <1>6, <1>7, <1>8, <1>9, FractionsFate, HexesFate, IntsFate,
     SinglesFate, TextsFate DEF Textual
<1>12. n = "BIGINT"
        => Fate(t, pair, TRUE, FALSE, TRUE)
  BY <1>3, BigsFate DEF Textual
<1>13. n = "BITDATA"
        => Fate(t, pair, TRUE, TRUE, FALSE)
  BY <1>10, MangledFate DEF Textual
<1>14. <<"db2", n>> \notin Values!AlteredByParquet
  BY <1>1 DEF Values!AlteredByParquet
<1>15. <<"db2", n>> \in Values!AlteredByNdjson <=> n = "BIGINT"
  BY <1>1 DEF Values!AlteredByNdjson
<1>16. <<"db2", n>> \in Values!Mangled <=> n = "BITDATA"
  BY <1>1 DEF Values!Mangled
<1> QED
  BY <1>1, <1>11, <1>12, <1>13, <1>14, <1>15, <1>16 DEF ColumnFate, Fate

LEMMA ClickhouseFate ==
  ASSUME NEW n \in DOMAIN Values!ClickhouseScan, NEW t, t = Values!ClickhouseType[n],
         NEW pair, pair = <<Values!ClickhouseValue(Values!ClickhouseScan[n][1]),
                              Values!ClickhouseValue(Values!ClickhouseScan[n][2])>>
  PROVE  ColumnFate("clickhouse", n, t, pair)
<1>1. n \in {"Int32", "UInt8", "Int64", "UInt64", "Float32", "Float64", "Decimal",
              "Bool", "DateTime", "Array", "String", "UUID"}
  BY DEF Values!ClickhouseScan
<1> USE DEF Values!ClickhouseScan, Values!ClickhouseType, Values!ClickhouseValue,
     Values!As, Values!Val, Values!Num, Values!Bigs, Values!Digits, Values!Documents,
     Values!Flags, Values!Fractions, Values!Ints, Values!Texts, Values!Times,
     Values!Small, Values!Other, Values!Fraction, Values!Widened, Values!Huge
<1>2. n = "Int32" => t = "int32" /\ pair = Values!Ints("int32")
  OBVIOUS
<1>3. n = "UInt8" => t = "int32" /\ pair = Values!Ints("uint8")
  OBVIOUS
<1>4. n = "Int64" => t = "int64" /\ pair = Values!Bigs("int64")
  OBVIOUS
<1>5. n = "UInt64" => t = "int64" /\ pair = Values!Bigs("uint64")
  OBVIOUS
<1>6. n = "Float32" => t = "float32" /\ pair = Values!Fractions("float32")
  OBVIOUS
<1>7. n = "Float64" => t = "float64" /\ pair = Values!Fractions("float64")
  OBVIOUS
<1>8. n = "Decimal" => t = "decimal" /\ pair = Values!Digits("string")
  OBVIOUS
<1>9. n = "Bool" => t = "bool" /\ pair = Values!Flags
  OBVIOUS
<1>10. n = "DateTime" => t = "timestamp" /\ pair = Values!Times("string")
  OBVIOUS
<1>11. n = "Array" => t = "json" /\ pair = Values!Documents("map")
  OBVIOUS
<1>12. n = "String" => t = "string" /\ pair = Values!Texts("string")
  OBVIOUS
<1>13. n = "UUID" => t = "string" /\ pair = Values!Texts("string")
  OBVIOUS
<1> HIDE DEF Values!ClickhouseScan, Values!ClickhouseType, Values!ClickhouseValue,
     Values!As, Values!Val, Values!Num, Values!Bigs, Values!Digits, Values!Documents,
     Values!Flags, Values!Fractions, Values!Ints, Values!Texts, Values!Times,
     Values!Small, Values!Other, Values!Fraction, Values!Widened, Values!Huge
<1>14. n \in {"Int32", "Float64", "Decimal", "Bool", "DateTime", "String", "UUID"}
        => Fate(t, pair, TRUE, TRUE, TRUE)
  BY <1>2, <1>7, <1>8, <1>9, <1>10, <1>12, <1>13, FlagsFate, FractionsFate, IntsFate,
     TextsFate DEF Textual
<1>15. n \in {"UInt8", "Float32", "Array"}
        => Fate(t, pair, FALSE, TRUE, TRUE)
  BY <1>3, <1>6, <1>11, DocumentsFate, FractionsFate, IntsFate DEF Textual
<1>16. n = "Int64"
        => Fate(t, pair, TRUE, FALSE, TRUE)
  BY <1>4, BigsFate DEF Textual
<1>17. n = "UInt64"
        => Fate(t, pair, FALSE, FALSE, TRUE)
  BY <1>5, BigsFate DEF Textual
<1>18. <<"clickhouse", n>> \in Values!AlteredByParquet 
        <=> n \in {"UInt8", "UInt64", "Float32", "Array"}
  BY <1>1 DEF Values!AlteredByParquet
<1>19. <<"clickhouse", n>> \in Values!AlteredByNdjson 
        <=> n \in {"Int64", "UInt64"}
  BY <1>1 DEF Values!AlteredByNdjson
<1>20. <<"clickhouse", n>> \notin Values!Mangled
  BY <1>1 DEF Values!Mangled
<1> QED
  BY <1>1, <1>14, <1>15, <1>16, <1>17, <1>18, <1>19, <1>20 DEF ColumnFate, Fate

LEMMA CassandraFate ==
  ASSUME NEW n \in DOMAIN Values!CassandraScan, NEW t, t = Values!CassandraType[n],
         NEW pair, pair = <<Values!CassandraValue(Values!CassandraScan[n][1]),
                              Values!CassandraValue(Values!CassandraScan[n][2])>>
  PROVE  ColumnFate("cassandra", n, t, pair)
<1>1. n \in {"tinyint", "int", "bigint", "varint", "boolean", "float", "double",
              "decimal", "timestamp", "blob", "list", "text", "uuid"}
  BY DEF Values!CassandraScan
<1> USE DEF Values!CassandraScan, Values!CassandraType, Values!CassandraValue,
     Values!As, Values!Val, Values!Num, Values!Bigs, Values!Blobs, Values!Digits,
     Values!Documents, Values!Flags, Values!Fractions, Values!Ints, Values!Texts,
     Values!Times, Values!Wholes, Values!Small, Values!Other, Values!Fraction,
     Values!Widened, Values!Huge
<1>2. n = "tinyint" => t = "int32" /\ pair = Values!Ints("int8")
  OBVIOUS
<1>3. n = "int" => t = "int32" /\ pair = Values!Ints("int")
  OBVIOUS
<1>4. n = "bigint" => t = "int64" /\ pair = Values!Bigs("int64")
  OBVIOUS
<1>5. n = "varint" => t = "int64" /\ pair = Values!Wholes("string")
  OBVIOUS
<1>6. n = "boolean" => t = "bool" /\ pair = Values!Flags
  OBVIOUS
<1>7. n = "float" => t = "float32" /\ pair = Values!Fractions("float32")
  OBVIOUS
<1>8. n = "double" => t = "float64" /\ pair = Values!Fractions("float64")
  OBVIOUS
<1>9. n = "decimal" => t = "decimal" /\ pair = Values!Digits("string")
  OBVIOUS
<1>10. n = "timestamp" => t = "timestamp" /\ pair = Values!Times("string")
  OBVIOUS
<1>11. n = "blob" => t = "binary" /\ pair = Values!Blobs("string")
  OBVIOUS
<1>12. n = "list" => t = "json" /\ pair = Values!Documents("map")
  OBVIOUS
<1>13. n = "text" => t = "string" /\ pair = Values!Texts("string")
  OBVIOUS
<1>14. n = "uuid" => t = "string" /\ pair = Values!Texts("string")
  OBVIOUS
<1> HIDE DEF Values!CassandraScan, Values!CassandraType, Values!CassandraValue,
     Values!As, Values!Val, Values!Num, Values!Bigs, Values!Blobs, Values!Digits,
     Values!Documents, Values!Flags, Values!Fractions, Values!Ints, Values!Texts,
     Values!Times, Values!Wholes, Values!Small, Values!Other, Values!Fraction,
     Values!Widened, Values!Huge
<1>15. n \in {"tinyint", "varint", "float", "list"}
        => Fate(t, pair, FALSE, TRUE, TRUE)
  BY <1>2, <1>5, <1>7, <1>12, DocumentsFate, FractionsFate, IntsFate, TextsFate DEF Textual
<1>16. n \in {"int", "boolean", "double", "decimal", "timestamp", "text", "uuid"}
        => Fate(t, pair, TRUE, TRUE, TRUE)
  BY <1>3, <1>6, <1>8, <1>9, <1>10, <1>13, <1>14, FlagsFate, FractionsFate, IntsFate,
     TextsFate DEF Textual
<1>17. n = "bigint"
        => Fate(t, pair, TRUE, FALSE, TRUE)
  BY <1>4, BigsFate DEF Textual
<1>18. n = "blob"
        => Fate(t, pair, TRUE, TRUE, FALSE)
  BY <1>11, MangledFate DEF Textual
<1>19. <<"cassandra", n>> \in Values!AlteredByParquet 
        <=> n \in {"tinyint", "varint", "float", "list"}
  BY <1>1 DEF Values!AlteredByParquet
<1>20. <<"cassandra", n>> \in Values!AlteredByNdjson <=> n = "bigint"
  BY <1>1 DEF Values!AlteredByNdjson
<1>21. <<"cassandra", n>> \in Values!Mangled <=> n = "blob"
  BY <1>1 DEF Values!Mangled
<1> QED
  BY <1>1, <1>15, <1>16, <1>17, <1>18, <1>19, <1>20, <1>21 DEF ColumnFate, Fate

LEMMA MongodbFate ==
  ASSUME NEW n \in DOMAIN Values!MongodbScan, NEW t, t = Values!MongodbType[n],
         NEW pair, pair = <<Values!MongodbValue(Values!MongodbScan[n][1]),
                              Values!MongodbValue(Values!MongodbScan[n][2])>>
  PROVE  ColumnFate("mongodb", n, t, pair)
<1>1. n \in {"objectId", "string", "int", "long", "double", "bool", "date", "decimal",
              "binData", "object", "mixed"}
  BY DEF Values!MongodbScan
<1> USE DEF Values!MongodbScan, Values!MongodbType, Values!MongodbValue, Values!As,
     Values!Val, Values!Num, Values!Bigs, Values!Blobs, Values!Digits, Values!Documents,
     Values!Flags, Values!Fractions, Values!Ints, Values!JsonTexts, Values!Texts,
     Values!Times, Values!Small, Values!Other, Values!Fraction, Values!Widened,
     Values!Huge
<1>2. n = "objectId" => t = "string" /\ pair = Values!Texts("string")
  OBVIOUS
<1>3. n = "string" => t = "string" /\ pair = Values!Texts("string")
  OBVIOUS
<1>4. n = "int" => t = "int32" /\ pair = Values!Ints("int32")
  OBVIOUS
<1>5. n = "long" => t = "int64" /\ pair = Values!Bigs("int64")
  OBVIOUS
<1>6. n = "double" => t = "float64" /\ pair = Values!Fractions("float64")
  OBVIOUS
<1>7. n = "bool" => t = "bool" /\ pair = Values!Flags
  OBVIOUS
<1>8. n = "date" => t = "timestamp" /\ pair = Values!Times("string")
  OBVIOUS
<1>9. n = "decimal" => t = "decimal" /\ pair = Values!Digits("string")
  OBVIOUS
<1>10. n = "binData" => t = "binary" /\ pair = Values!Blobs("bytes")
  OBVIOUS
<1>11. n = "object" => t = "json" /\ pair = Values!JsonTexts("string")
  BY DocumentJson
<1>12. n = "mixed" => t = "string" /\ pair = Values!Ints("int32")
  OBVIOUS
<1> HIDE DEF Values!MongodbScan, Values!MongodbType, Values!MongodbValue, Values!As,
     Values!Val, Values!Num, Values!Bigs, Values!Blobs, Values!Digits, Values!Documents,
     Values!Flags, Values!Fractions, Values!Ints, Values!JsonTexts, Values!Texts,
     Values!Times, Values!Small, Values!Other, Values!Fraction, Values!Widened,
     Values!Huge
<1>13. n \in {"objectId", "string", "int", "double", "bool", "date", "decimal", "object"}
        => Fate(t, pair, TRUE, TRUE, TRUE)
  BY <1>2, <1>3, <1>4, <1>6, <1>7, <1>8, <1>9, <1>11, FlagsFate, FractionsFate,
     IntsFate, TextsFate DEF Textual
<1>14. n = "long"
        => Fate(t, pair, TRUE, FALSE, TRUE)
  BY <1>5, BigsFate DEF Textual
<1>15. n \in {"binData", "mixed"}
        => Fate(t, pair, FALSE, TRUE, TRUE)
  BY <1>10, <1>12, BlobsFate, IntsFate DEF Textual
<1>16. <<"mongodb", n>> \in Values!AlteredByParquet 
        <=> n \in {"binData", "mixed"}
  BY <1>1 DEF Values!AlteredByParquet
<1>17. <<"mongodb", n>> \in Values!AlteredByNdjson <=> n = "long"
  BY <1>1 DEF Values!AlteredByNdjson
<1>18. <<"mongodb", n>> \notin Values!Mangled
  BY <1>1 DEF Values!Mangled
<1> QED
  BY <1>1, <1>13, <1>14, <1>15, <1>16, <1>17, <1>18 DEF ColumnFate, Fate

LEMMA DynamodbFate ==
  ASSUME NEW n \in DOMAIN Values!DynamodbScan, NEW t, t = Values!DynamodbType[n],
         NEW pair, pair = <<Values!DynamodbValue(Values!DynamodbScan[n][1]),
                              Values!DynamodbValue(Values!DynamodbScan[n][2])>>
  PROVE  ColumnFate("dynamodb", n, t, pair)
<1>1. n \in {"S", "N", "B", "BOOL", "M"}
  BY DEF Values!DynamodbScan
<1> USE DEF Values!DynamodbScan, Values!DynamodbType, Values!DynamodbValue, Values!As,
     Values!Val, Values!Num, Values!Blobs, Values!Digits, Values!Documents,
     Values!Flags, Values!JsonTexts, Values!Texts, Values!Small, Values!Other,
     Values!Fraction, Values!Widened, Values!Huge
<1>2. n = "S" => t = "string" /\ pair = Values!Texts("string")
  OBVIOUS
<1>3. n = "N" => t = "decimal" /\ pair = Values!Digits("string")
  OBVIOUS
<1>4. n = "B" => t = "binary" /\ pair = Values!Blobs("bytes")
  OBVIOUS
<1>5. n = "BOOL" => t = "bool" /\ pair = Values!Flags
  OBVIOUS
<1>6. n = "M" => t = "json" /\ pair = Values!JsonTexts("string")
  BY DocumentJson
<1> HIDE DEF Values!DynamodbScan, Values!DynamodbType, Values!DynamodbValue, Values!As,
     Values!Val, Values!Num, Values!Blobs, Values!Digits, Values!Documents,
     Values!Flags, Values!JsonTexts, Values!Texts, Values!Small, Values!Other,
     Values!Fraction, Values!Widened, Values!Huge
<1>7. n \in {"S", "N", "BOOL", "M"}
        => Fate(t, pair, TRUE, TRUE, TRUE)
  BY <1>2, <1>3, <1>5, <1>6, FlagsFate, TextsFate DEF Textual
<1>8. n = "B"
        => Fate(t, pair, FALSE, TRUE, TRUE)
  BY <1>4, BlobsFate DEF Textual
<1>9. <<"dynamodb", n>> \in Values!AlteredByParquet <=> n = "B"
  BY <1>1 DEF Values!AlteredByParquet
<1>10. <<"dynamodb", n>> \notin Values!AlteredByNdjson
  BY <1>1 DEF Values!AlteredByNdjson
<1>11. <<"dynamodb", n>> \notin Values!Mangled
  BY <1>1 DEF Values!Mangled
<1> QED
  BY <1>1, <1>7, <1>8, <1>9, <1>10, <1>11 DEF ColumnFate, Fate

LEMMA ElasticsearchFate ==
  ASSUME NEW n \in DOMAIN Values!ElasticsearchScan, NEW t, t = Values!ElasticsearchType[n],
         NEW pair, pair = <<Values!ElasticsearchValue(Values!ElasticsearchScan[n][1]),
                              Values!ElasticsearchValue(Values!ElasticsearchScan[n][2])>>
  PROVE  ColumnFate("elasticsearch", n, t, pair)
<1>1. n \in {"keyword", "integer", "long", "float", "double", "boolean", "date",
              "object"}
  BY DEF Values!ElasticsearchScan
<1> USE DEF Values!ElasticsearchScan, Values!ElasticsearchType,
     Values!ElasticsearchValue, Values!As, Values!Val, Values!Num, Values!Bigs,
     Values!Documents, Values!Flags, Values!Fractions, Values!Ints, Values!JsonTexts,
     Values!Texts, Values!Times, Values!Small, Values!Other, Values!Fraction,
     Values!Widened, Values!Huge
<1>2. n = "keyword" => t = "string" /\ pair = Values!Texts("string")
  OBVIOUS
<1>3. n = "integer" => t = "int32" /\ pair = Values!Ints("number")
  OBVIOUS
<1>4. n = "long" => t = "int64" /\ pair = Values!Bigs("number")
  OBVIOUS
<1>5. n = "float" => t = "float32" /\ pair = Values!Fractions("number")
  OBVIOUS
<1>6. n = "double" => t = "float64" /\ pair = Values!Fractions("number")
  OBVIOUS
<1>7. n = "boolean" => t = "bool" /\ pair = Values!Flags
  OBVIOUS
<1>8. n = "date" => t = "timestamp" /\ pair = Values!Times("string")
  OBVIOUS
<1>9. n = "object" => t = "json" /\ pair = Values!JsonTexts("string")
  BY DocumentJson
<1> HIDE DEF Values!ElasticsearchScan, Values!ElasticsearchType,
     Values!ElasticsearchValue, Values!As, Values!Val, Values!Num, Values!Bigs,
     Values!Documents, Values!Flags, Values!Fractions, Values!Ints, Values!JsonTexts,
     Values!Texts, Values!Times, Values!Small, Values!Other, Values!Fraction,
     Values!Widened, Values!Huge
<1>10. n \in {"keyword", "integer", "double", "boolean", "date", "object"}
        => Fate(t, pair, TRUE, TRUE, TRUE)
  BY <1>2, <1>3, <1>6, <1>7, <1>8, <1>9, FlagsFate, FractionsFate, IntsFate, TextsFate DEF Textual
<1>11. n = "long"
        => Fate(t, pair, TRUE, FALSE, TRUE)
  BY <1>4, BigsFate DEF Textual
<1>12. n = "float"
        => Fate(t, pair, FALSE, TRUE, TRUE)
  BY <1>5, FractionsFate DEF Textual
<1>13. <<"elasticsearch", n>> \in Values!AlteredByParquet <=> n = "float"
  BY <1>1 DEF Values!AlteredByParquet
<1>14. <<"elasticsearch", n>> \in Values!AlteredByNdjson <=> n = "long"
  BY <1>1 DEF Values!AlteredByNdjson
<1>15. <<"elasticsearch", n>> \notin Values!Mangled
  BY <1>1 DEF Values!Mangled
<1> QED
  BY <1>1, <1>10, <1>11, <1>12, <1>13, <1>14, <1>15 DEF ColumnFate, Fate

LEMMA ObjectstoreFate ==
  ASSUME NEW n \in DOMAIN Values!ObjectstoreScan, NEW t, t = Values!ObjectstoreType[n],
         NEW pair, pair = <<Values!ObjectstoreValue(Values!ObjectstoreScan[n][1]),
                              Values!ObjectstoreValue(Values!ObjectstoreScan[n][2])>>
  PROVE  ColumnFate("objectstore", n, t, pair)
<1>1. n \in {"csv", "number", "flag", "object"}
  BY DEF Values!ObjectstoreScan
<1> USE DEF Values!ObjectstoreScan, Values!ObjectstoreType, Values!ObjectstoreValue,
     Values!As, Values!Val, Values!Num, Values!Documents, Values!Flags,
     Values!Fractions, Values!JsonTexts, Values!Texts, Values!Small, Values!Other,
     Values!Fraction, Values!Widened, Values!Huge
<1>2. n = "csv" => t = "string" /\ pair = Values!Texts("string")
  OBVIOUS
<1>3. n = "number" => t = "string" /\ pair = Values!Fractions("float64")
  OBVIOUS
<1>4. n = "flag" => t = "string" /\ pair = Values!Flags
  OBVIOUS
<1>5. n = "object" => t = "string" /\ pair = Values!JsonTexts("string")
  BY DocumentJson
<1> HIDE DEF Values!ObjectstoreScan, Values!ObjectstoreType, Values!ObjectstoreValue,
     Values!As, Values!Val, Values!Num, Values!Documents, Values!Flags,
     Values!Fractions, Values!JsonTexts, Values!Texts, Values!Small, Values!Other,
     Values!Fraction, Values!Widened, Values!Huge
<1>6. n \in {"csv", "object"}
        => Fate(t, pair, TRUE, TRUE, TRUE)
  BY <1>2, <1>5, TextsFate DEF Textual
<1>7. n \in {"number", "flag"}
        => Fate(t, pair, FALSE, TRUE, TRUE)
  BY <1>3, <1>4, FlagsFate, FractionsFate DEF Textual
<1>8. <<"objectstore", n>> \in Values!AlteredByParquet 
        <=> n \in {"number", "flag"}
  BY <1>1 DEF Values!AlteredByParquet
<1>9. <<"objectstore", n>> \notin Values!AlteredByNdjson
  BY <1>1 DEF Values!AlteredByNdjson
<1>10. <<"objectstore", n>> \notin Values!Mangled
  BY <1>1 DEF Values!Mangled
<1> QED
  BY <1>1, <1>6, <1>7, <1>8, <1>9, <1>10 DEF ColumnFate, Fate

LEMMA RedisFate ==
  ASSUME NEW n \in DOMAIN Values!RedisScan, NEW t, t = Values!RedisType[n],
         NEW pair, pair = <<Values!RedisValue(Values!RedisScan[n][1]),
                              Values!RedisValue(Values!RedisScan[n][2])>>
  PROVE  ColumnFate("redis", n, t, pair)
<1>1. n \in {"key", "ttl", "value"}
  BY DEF Values!RedisScan
<1> USE DEF Values!RedisScan, Values!RedisType, Values!RedisValue, Values!As,
     Values!Val, Values!Num, Values!Documents, Values!Ints, Values!JsonTexts,
     Values!Texts, Values!Small, Values!Other, Values!Fraction, Values!Widened,
     Values!Huge
<1>2. n = "key" => t = "string" /\ pair = Values!Texts("string")
  OBVIOUS
<1>3. n = "ttl" => t = "int64" /\ pair = Values!Ints("int64")
  OBVIOUS
<1>4. n = "value" => t = "json" /\ pair = Values!JsonTexts("string")
  BY DocumentJson
<1> HIDE DEF Values!RedisScan, Values!RedisType, Values!RedisValue, Values!As,
     Values!Val, Values!Num, Values!Documents, Values!Ints, Values!JsonTexts,
     Values!Texts, Values!Small, Values!Other, Values!Fraction, Values!Widened,
     Values!Huge
<1>5. n \in {"key", "ttl", "value"}
        => Fate(t, pair, TRUE, TRUE, TRUE)
  BY <1>2, <1>3, <1>4, IntsFate, TextsFate DEF Textual
<1>6. <<"redis", n>> \notin Values!AlteredByParquet
  BY <1>1 DEF Values!AlteredByParquet
<1>7. <<"redis", n>> \notin Values!AlteredByNdjson
  BY <1>1 DEF Values!AlteredByNdjson
<1>8. <<"redis", n>> \notin Values!Mangled
  BY <1>1 DEF Values!Mangled
<1> QED
  BY <1>1, <1>5, <1>6, <1>7, <1>8 DEF ColumnFate, Fate

LEMMA KafkaFate ==
  ASSUME NEW n \in DOMAIN Values!KafkaScan, NEW t, t = Values!KafkaType[n],
         NEW pair, pair = <<Values!KafkaValue(Values!KafkaScan[n][1]),
                              Values!KafkaValue(Values!KafkaScan[n][2])>>
  PROVE  ColumnFate("kafka", n, t, pair)
<1>1. n \in {"partition", "offset", "payload", "octets"}
  BY DEF Values!KafkaScan
<1> USE DEF Values!KafkaScan, Values!KafkaType, Values!KafkaValue, Values!As,
     Values!Val, Values!Num, Values!Bigs, Values!Blobs, Values!Ints, Values!JsonTexts,
     Octets, Values!Small, Values!Other, Values!Fraction, Values!Widened, Values!Huge
<1>2. n = "partition" => t = "int32" /\ pair = Values!Ints("int32")
  OBVIOUS
<1>3. n = "offset" => t = "int64" /\ pair = Values!Bigs("int64")
  OBVIOUS
<1>4. n = "payload" => t = "json" /\ pair = Values!JsonTexts("string")
  OBVIOUS
<1>5. n = "octets" => t = "json" /\ pair = Octets
  BY RawJson
<1> HIDE DEF Values!KafkaScan, Values!KafkaType, Values!KafkaValue, Values!As,
     Values!Val, Values!Num, Values!Bigs, Values!Blobs, Values!Ints, Values!JsonTexts,
     Octets, Values!Small, Values!Other, Values!Fraction, Values!Widened, Values!Huge
<1>6. n \in {"partition", "payload"}
        => Fate(t, pair, TRUE, TRUE, TRUE)
  BY <1>2, <1>4, IntsFate, TextsFate DEF Textual
<1>7. n = "offset"
        => Fate(t, pair, TRUE, FALSE, TRUE)
  BY <1>3, BigsFate DEF Textual
<1>8. n = "octets"
        => Fate(t, pair, TRUE, TRUE, FALSE)
  BY <1>5, OctetsFate DEF Textual
<1>9. <<"kafka", n>> \notin Values!AlteredByParquet
  BY <1>1 DEF Values!AlteredByParquet
<1>10. <<"kafka", n>> \in Values!AlteredByNdjson <=> n = "offset"
  BY <1>1 DEF Values!AlteredByNdjson
<1>11. <<"kafka", n>> \in Values!Mangled <=> n = "octets"
  BY <1>1 DEF Values!Mangled
<1> QED
  BY <1>1, <1>6, <1>7, <1>8, <1>9, <1>10, <1>11 DEF ColumnFate, Fate

\* The binlog delivers what the scan does, but for three native types.
LEMMA MysqlChanges ==
  ASSUME NEW n \in DOMAIN Values!MysqlScan, NEW i \in {1, 2},
         NEW u, u = Values!ScannedValue(Values!MysqlScan[n][i], Values!MysqlType[n]),
         NEW v, v = Values!MysqlChangeValue(Values!MysqlBinlog[n][i], Values!MysqlType[n])
  PROVE  Values!Json(v) = Values!Json(u) <=> <<"mysql", n>> \notin Values!ChangedByBinlog
<1>1. n \in {"int", "bigint", "bit", "decimal", "float", "double", "datetime", "json",
              "varbinary", "varchar", "enum", "tinyint"}
  BY DEF Values!MysqlScan
<1>2. <<"mysql", n>> \in Values!ChangedByBinlog <=> n \in {"bit", "datetime", "enum"}
  BY <1>1 DEF Values!ChangedByBinlog
<1> DEFINE number == Values!Num(i)
           text == <<"text", i>>
           date == <<"rfc", i>>
<1> USE DEF Values!MysqlScan, Values!MysqlType, Values!MysqlBinlog, Values!ScannedValue,
     Values!MysqlChangeValue, Values!As, Values!Val, Values!Bigs, Values!Blobs,
     Values!Digits, Values!Fractions, Values!Ints, Values!JsonTexts, Values!Texts,
     Values!Times, Values!Small, Values!Other
<1>3. n = "bigint" => u = v
  OBVIOUS
<1>4. n = "decimal" => u = v
  OBVIOUS
<1>5. n = "float" => u = v
  OBVIOUS
<1>6. n = "double" => u = v
  OBVIOUS
<1>7. n = "json" => u = v
  OBVIOUS
<1>8. n = "varbinary" => u = v
  OBVIOUS
<1>9. n = "varchar" => u = v
  OBVIOUS
<1>10. n = "int" => u = Values!Val("int64", number) /\ v = Values!Val("int32", number)
  OBVIOUS
<1>11. n = "tinyint" => u = Values!Val("int64", number) /\ v = Values!Val("int8", number)
  OBVIOUS
<1>12. n = "bit" => u = Values!Val("string", text) /\ v = Values!Val("int64", number)
  OBVIOUS
<1>13. n = "enum" => u = Values!Val("string", text) /\ v = Values!Val("int64", number)
  OBVIOUS
<1>14. n = "datetime" => u = Values!Val("string", date) /\ v = Values!Val("string", text)
  OBVIOUS
<1> HIDE DEF Values!MysqlScan, Values!MysqlType, Values!MysqlBinlog, Values!ScannedValue,
     Values!MysqlChangeValue, Values!As, Values!Val, Values!Bigs, Values!Blobs,
     Values!Digits, Values!Fractions, Values!Ints, Values!JsonTexts, Values!Texts,
     Values!Times, Values!Small, Values!Other
<1>15. /\ Values!Json(Values!Val("int64", number)) = number
       /\ Values!Json(Values!Val("int32", number)) = number
       /\ Values!Json(Values!Val("int8", number)) = number
       /\ Values!Json(Values!Val("string", text)) = <<"str", text>>
       /\ Values!Json(Values!Val("string", date)) = <<"str", date>>
  BY ValIs, JsonOf
<1>16. number # <<"str", text>> /\ <<"str", text>> # <<"str", date>>
  BY DEF Values!Num
<1> QED
  BY <1>1, <1>2, <1>3, <1>4, <1>5, <1>6, <1>7, <1>8, <1>9, <1>10, <1>11, <1>12, <1>13,
     <1>14, <1>15, <1>16

\* What the invariants of RowValues need to know of a column.
ColumnFacts(c) ==
  /\ ColumnFate(c.conn, c.native, c.type, c.scan)
  /\ \A i \in {1, 2} : Values!Json(c.change[i]) = Values!Json(c.scan[i])
                        <=> <<c.conn, c.native>> \notin Values!ChangedByBinlog

\* A column whose changes are delivered as its scan is.
LEMMA UnchangedFacts ==
  ASSUME NEW name, name # "mysql", NEW n, NEW t, NEW pair, ColumnFate(name, n, t, pair)
  PROVE  ColumnFacts(Values!Column(name, n, t, pair, pair))
<1>1. <<name, n>> \notin Values!ChangedByBinlog
  BY DEF Values!ChangedByBinlog
<1> QED
  BY <1>1 DEF ColumnFacts, Values!Column

Read(c, name, n, t, pair) == c = Values!Column(name, n, t, pair, pair)

LEMMA EveryColumn ==
  ASSUME NEW c \in Values!Columns
  PROVE  ColumnFacts(c)
<1>1. \/ \E n \in DOMAIN Values!MysqlScan :
             c = Values!Column("mysql", n, Values!MysqlType[n],
               <<Values!ScannedValue(Values!MysqlScan[n][1], Values!MysqlType[n]),
                 Values!ScannedValue(Values!MysqlScan[n][2], Values!MysqlType[n])>>,
               <<Values!MysqlChangeValue(Values!MysqlBinlog[n][1], Values!MysqlType[n]),
                 Values!MysqlChangeValue(Values!MysqlBinlog[n][2], Values!MysqlType[n])>>)
      \/ \E n \in DOMAIN Values!PostgresScan :
           Read(c, "postgres", n, Values!PostgresType[n],
                <<Values!PostgresValue(Values!PostgresScan[n][1]),
                  Values!PostgresValue(Values!PostgresScan[n][2])>>)
      \/ \E n \in DOMAIN Values!SqliteScan :
           Read(c, "sqlite", n, Values!SqliteType[n],
                <<Values!SqliteValue(Values!SqliteScan[n][1], Values!SqliteType[n]),
                  Values!SqliteValue(Values!SqliteScan[n][2], Values!SqliteType[n])>>)
      \/ \E n \in DOMAIN Values!MssqlScan :
           Read(c, "mssql", n, Values!MssqlType[n],
                <<Values!ScannedValue(Values!MssqlScan[n][1], Values!MssqlType[n]),
                  Values!ScannedValue(Values!MssqlScan[n][2], Values!MssqlType[n])>>)
      \/ \E n \in DOMAIN Values!OracleScan :
           Read(c, "oracle", n, Values!OracleType[n],
                <<Values!OracleValue(Values!OracleScan[n][1], Values!OracleType[n]),
                  Values!OracleValue(Values!OracleScan[n][2], Values!OracleType[n])>>)
      \/ \E n \in DOMAIN Values!Db2Scan :
           Read(c, "db2", n, Values!Db2Type[n],
                <<Values!Db2Value(Values!Db2Scan[n][1], Values!Db2Type[n], n = "BLOB"),
                  Values!Db2Value(Values!Db2Scan[n][2], Values!Db2Type[n], n = "BLOB")>>)
      \/ \E n \in DOMAIN Values!ClickhouseScan :
           Read(c, "clickhouse", n, Values!ClickhouseType[n],
                <<Values!ClickhouseValue(Values!ClickhouseScan[n][1]),
                  Values!ClickhouseValue(Values!ClickhouseScan[n][2])>>)
      \/ \E n \in DOMAIN Values!CassandraScan :
           Read(c, "cassandra", n, Values!CassandraType[n],
                <<Values!CassandraValue(Values!CassandraScan[n][1]),
                  Values!CassandraValue(Values!CassandraScan[n][2])>>)
      \/ \E n \in DOMAIN Values!MongodbScan :
           Read(c, "mongodb", n, Values!MongodbType[n],
                <<Values!MongodbValue(Values!MongodbScan[n][1]),
                  Values!MongodbValue(Values!MongodbScan[n][2])>>)
      \/ \E n \in DOMAIN Values!DynamodbScan :
           Read(c, "dynamodb", n, Values!DynamodbType[n],
                <<Values!DynamodbValue(Values!DynamodbScan[n][1]),
                  Values!DynamodbValue(Values!DynamodbScan[n][2])>>)
      \/ \E n \in DOMAIN Values!ElasticsearchScan :
           Read(c, "elasticsearch", n, Values!ElasticsearchType[n],
                <<Values!ElasticsearchValue(Values!ElasticsearchScan[n][1]),
                  Values!ElasticsearchValue(Values!ElasticsearchScan[n][2])>>)
      \/ \E n \in DOMAIN Values!ObjectstoreScan :
           Read(c, "objectstore", n, Values!ObjectstoreType[n],
                <<Values!ObjectstoreValue(Values!ObjectstoreScan[n][1]),
                  Values!ObjectstoreValue(Values!ObjectstoreScan[n][2])>>)
      \/ \E n \in DOMAIN Values!RedisScan :
           Read(c, "redis", n, Values!RedisType[n],
                <<Values!RedisValue(Values!RedisScan[n][1]),
                  Values!RedisValue(Values!RedisScan[n][2])>>)
      \/ \E n \in DOMAIN Values!KafkaScan :
           Read(c, "kafka", n, Values!KafkaType[n],
                <<Values!KafkaValue(Values!KafkaScan[n][1]),
                  Values!KafkaValue(Values!KafkaScan[n][2])>>)
  BY DEF Values!Columns, Values!MysqlColumns, Values!Scanned, Values!Pair, Read
<1>2. ASSUME NEW n \in DOMAIN Values!MysqlScan,
             c = Values!Column("mysql", n, Values!MysqlType[n],
               <<Values!ScannedValue(Values!MysqlScan[n][1], Values!MysqlType[n]),
                 Values!ScannedValue(Values!MysqlScan[n][2], Values!MysqlType[n])>>,
               <<Values!MysqlChangeValue(Values!MysqlBinlog[n][1], Values!MysqlType[n]),
                 Values!MysqlChangeValue(Values!MysqlBinlog[n][2], Values!MysqlType[n])>>)
      PROVE  ColumnFacts(c)
  <2>1. /\ c.conn = "mysql" /\ c.native = n /\ c.type = Values!MysqlType[n]
        /\ c.scan = <<Values!ScannedValue(Values!MysqlScan[n][1], Values!MysqlType[n]),
                      Values!ScannedValue(Values!MysqlScan[n][2], Values!MysqlType[n])>>
        /\ \A i \in {1, 2} :
             /\ c.scan[i] = Values!ScannedValue(Values!MysqlScan[n][i], Values!MysqlType[n])
             /\ c.change[i]
                  = Values!MysqlChangeValue(Values!MysqlBinlog[n][i], Values!MysqlType[n])
    BY <1>2 DEF Values!Column
  <2>2. ColumnFate(c.conn, c.native, c.type, c.scan)
    BY <2>1, MysqlFate
  <2> QED
    BY <2>1, <2>2, MysqlChanges DEF ColumnFacts
<1>3. ASSUME NEW n \in DOMAIN Values!PostgresScan,
             Read(c, "postgres", n, Values!PostgresType[n],
                  <<Values!PostgresValue(Values!PostgresScan[n][1]),
                    Values!PostgresValue(Values!PostgresScan[n][2])>>)
      PROVE  ColumnFacts(c)
  BY <1>3, PostgresFate, UnchangedFacts DEF Read
<1>4. ASSUME NEW n \in DOMAIN Values!SqliteScan,
             Read(c, "sqlite", n, Values!SqliteType[n],
                  <<Values!SqliteValue(Values!SqliteScan[n][1], Values!SqliteType[n]),
                    Values!SqliteValue(Values!SqliteScan[n][2], Values!SqliteType[n])>>)
      PROVE  ColumnFacts(c)
  BY <1>4, SqliteFate, UnchangedFacts DEF Read
<1>5. ASSUME NEW n \in DOMAIN Values!MssqlScan,
             Read(c, "mssql", n, Values!MssqlType[n],
                  <<Values!ScannedValue(Values!MssqlScan[n][1], Values!MssqlType[n]),
                    Values!ScannedValue(Values!MssqlScan[n][2], Values!MssqlType[n])>>)
      PROVE  ColumnFacts(c)
  BY <1>5, MssqlFate, UnchangedFacts DEF Read
<1>6. ASSUME NEW n \in DOMAIN Values!OracleScan,
             Read(c, "oracle", n, Values!OracleType[n],
                  <<Values!OracleValue(Values!OracleScan[n][1], Values!OracleType[n]),
                    Values!OracleValue(Values!OracleScan[n][2], Values!OracleType[n])>>)
      PROVE  ColumnFacts(c)
  BY <1>6, OracleFate, UnchangedFacts DEF Read
<1>7. ASSUME NEW n \in DOMAIN Values!Db2Scan,
             Read(c, "db2", n, Values!Db2Type[n],
                  <<Values!Db2Value(Values!Db2Scan[n][1], Values!Db2Type[n], n = "BLOB"),
                    Values!Db2Value(Values!Db2Scan[n][2], Values!Db2Type[n], n = "BLOB")>>)
      PROVE  ColumnFacts(c)
  BY <1>7, Db2Fate, UnchangedFacts DEF Read
<1>8. ASSUME NEW n \in DOMAIN Values!ClickhouseScan,
             Read(c, "clickhouse", n, Values!ClickhouseType[n],
                  <<Values!ClickhouseValue(Values!ClickhouseScan[n][1]),
                    Values!ClickhouseValue(Values!ClickhouseScan[n][2])>>)
      PROVE  ColumnFacts(c)
  BY <1>8, ClickhouseFate, UnchangedFacts DEF Read
<1>9. ASSUME NEW n \in DOMAIN Values!CassandraScan,
             Read(c, "cassandra", n, Values!CassandraType[n],
                  <<Values!CassandraValue(Values!CassandraScan[n][1]),
                    Values!CassandraValue(Values!CassandraScan[n][2])>>)
      PROVE  ColumnFacts(c)
  BY <1>9, CassandraFate, UnchangedFacts DEF Read
<1>10. ASSUME NEW n \in DOMAIN Values!MongodbScan,
             Read(c, "mongodb", n, Values!MongodbType[n],
                  <<Values!MongodbValue(Values!MongodbScan[n][1]),
                    Values!MongodbValue(Values!MongodbScan[n][2])>>)
      PROVE  ColumnFacts(c)
  BY <1>10, MongodbFate, UnchangedFacts DEF Read
<1>11. ASSUME NEW n \in DOMAIN Values!DynamodbScan,
             Read(c, "dynamodb", n, Values!DynamodbType[n],
                  <<Values!DynamodbValue(Values!DynamodbScan[n][1]),
                    Values!DynamodbValue(Values!DynamodbScan[n][2])>>)
      PROVE  ColumnFacts(c)
  BY <1>11, DynamodbFate, UnchangedFacts DEF Read
<1>12. ASSUME NEW n \in DOMAIN Values!ElasticsearchScan,
             Read(c, "elasticsearch", n, Values!ElasticsearchType[n],
                  <<Values!ElasticsearchValue(Values!ElasticsearchScan[n][1]),
                    Values!ElasticsearchValue(Values!ElasticsearchScan[n][2])>>)
      PROVE  ColumnFacts(c)
  BY <1>12, ElasticsearchFate, UnchangedFacts DEF Read
<1>13. ASSUME NEW n \in DOMAIN Values!ObjectstoreScan,
             Read(c, "objectstore", n, Values!ObjectstoreType[n],
                  <<Values!ObjectstoreValue(Values!ObjectstoreScan[n][1]),
                    Values!ObjectstoreValue(Values!ObjectstoreScan[n][2])>>)
      PROVE  ColumnFacts(c)
  BY <1>13, ObjectstoreFate, UnchangedFacts DEF Read
<1>14. ASSUME NEW n \in DOMAIN Values!RedisScan,
             Read(c, "redis", n, Values!RedisType[n],
                  <<Values!RedisValue(Values!RedisScan[n][1]),
                    Values!RedisValue(Values!RedisScan[n][2])>>)
      PROVE  ColumnFacts(c)
  BY <1>14, RedisFate, UnchangedFacts DEF Read
<1>15. ASSUME NEW n \in DOMAIN Values!KafkaScan,
             Read(c, "kafka", n, Values!KafkaType[n],
                  <<Values!KafkaValue(Values!KafkaScan[n][1]),
                    Values!KafkaValue(Values!KafkaScan[n][2])>>)
      PROVE  ColumnFacts(c)
  BY <1>15, KafkaFate, UnchangedFacts DEF Read
<1> QED
  BY <1>1, <1>2, <1>3, <1>4, <1>5, <1>6, <1>7, <1>8, <1>9, <1>10, <1>11, <1>12, <1>13,
     <1>14, <1>15

-----------------------------------------------------------------------------
(* The records of a stream: the rows of the scan first, in any order, then *)
(* those the change stream delivered again.                                *)

Rec(i, cell) == [id |-> Values!RecordId(i, cell), row |-> i,
                 cell |-> Values!Stored(format, cell, col.type)]
ScanRecords == {Rec(1, col.scan[1]), Rec(2, col.scan[2])}
ChangeRecords == {Rec(1, col.change[1]), Rec(2, col.change[2])}

CellsInv ==
  /\ col \in Values!Columns /\ format \in Formats /\ keyed \in BOOLEAN
  /\ records \in Seq(ScanRecords \cup ChangeRecords)
  /\ \A m \in 1 .. Len(records) :
        records[m] \in (IF m <= 2 THEN ScanRecords ELSE ChangeRecords)
  /\ \/ stage = "scan" /\ unread = {1, 2} /\ Len(records) = 0
     \/ stage = "scan" /\ Len(records) = 1 /\ records[1].row \in {1, 2}
                       /\ unread = {1, 2} \ {records[1].row}
     \/ stage # "scan" /\ Len(records) >= 2 /\ records[1].row # records[2].row

LEMMA RecIs ==
  ASSUME NEW i, NEW cell
  PROVE  /\ Rec(i, cell).row = i
         /\ Rec(i, cell).id = Values!RecordId(i, cell)
         /\ Rec(i, cell).cell = Values!Stored(format, cell, col.type)
BY DEF Rec

LEMMA InitCellsInv == Values!InitCells => CellsInv
<1> SUFFICES ASSUME Values!InitCells PROVE CellsInv
  OBVIOUS
<1>1. Len(records) = 0 /\ records = <<>>
  BY DEF Values!InitCells
<1>2. records \in Seq(ScanRecords \cup ChangeRecords)
  BY <1>1
<1> QED
  BY <1>1, <1>2 DEF Values!InitCells, CellsInv

LEMMA NextCellsInv == CellsInv /\ [Values!NextCells]_cells => CellsInv'
<1> SUFFICES ASSUME CellsInv, [Values!NextCells]_cells PROVE CellsInv'
  OBVIOUS
<1> USE DEF CellsInv
<1>1. ASSUME NEW i \in {1, 2}, Values!ScanRow(i) PROVE CellsInv'
  <2>1. /\ stage = "scan" /\ i \in unread /\ unread' = unread \ {i}
        /\ stage' = IF unread = {i} THEN "changes" ELSE "scan"
        /\ col' = col /\ format' = format /\ keyed' = keyed
        /\ records' = Append(records, Rec(i, col.scan[i]))
    BY <1>1 DEF Values!ScanRow, Values!HandleRow, Rec
  <2>2. ScanRecords' = ScanRecords /\ ChangeRecords' = ChangeRecords
    BY <2>1 DEF ScanRecords, ChangeRecords, Rec, Values!RecordId, Values!Stored
  <2> DEFINE r == Rec(i, col.scan[i])
  <2>3. r \in ScanRecords /\ r.row = i
    BY <1>1, RecIs DEF ScanRecords
  <2> HIDE DEF r
  <2>4. /\ records' \in Seq(ScanRecords \cup ChangeRecords)
        /\ Len(records') = Len(records) + 1 /\ records'[Len(records) + 1] = r
        /\ \A m \in 1 .. Len(records) : records'[m] = records[m]
    BY <2>1, <2>3 DEF r
  <2>5. CASE Len(records) = 0
    <3>1. unread = {1, 2}
      BY <2>1, <2>5
    <3>2. unread # {i}
      <4>1. 1 \in unread /\ 2 \in unread
        BY <3>1
      <4> QED
        BY <4>1
    <3>3. Len(records') = 1 /\ records'[1] = r
      BY <2>4, <2>5
    <3> QED
      BY <1>1, <2>1, <2>2, <2>3, <2>4, <3>1, <3>2, <3>3
  <2>6. CASE Len(records) = 1
    <3>1. Len(records') = 2 /\ records'[2] = r /\ records'[1] = records[1]
      BY <2>4, <2>6
    <3>2. unread = {i} /\ records[1].row # i
      BY <2>1, <2>6
    <3> QED
      BY <2>1, <2>2, <2>3, <2>4, <2>6, <3>1, <3>2
  <2> QED
    BY <2>1, <2>5, <2>6
<1>2. ASSUME NEW i \in {1, 2}, Values!ReplayRow(i) PROVE CellsInv'
  <2>1. /\ stage = "changes" /\ stage' = stage /\ unread' = unread
        /\ col' = col /\ format' = format /\ keyed' = keyed
        /\ records' = Append(records, Rec(i, col.change[i]))
    BY <1>2 DEF Values!ReplayRow, Values!HandleRow, Rec
  <2>2. ScanRecords' = ScanRecords /\ ChangeRecords' = ChangeRecords
    BY <2>1 DEF ScanRecords, ChangeRecords, Rec, Values!RecordId, Values!Stored
  <2> DEFINE r == Rec(i, col.change[i])
  <2>3. r \in ChangeRecords
    BY <1>2 DEF ChangeRecords
  <2> HIDE DEF r
  <2>4. /\ records' \in Seq(ScanRecords \cup ChangeRecords)
        /\ Len(records') = Len(records) + 1 /\ records'[Len(records) + 1] = r
        /\ \A m \in 1 .. Len(records) : records'[m] = records[m]
    BY <2>1, <2>3 DEF r
  <2>5. Len(records) \in Nat /\ Len(records) >= 2
    BY <2>1
  <2>6. \A m \in 1 .. Len(records') :
           records'[m] \in (IF m <= 2 THEN ScanRecords ELSE ChangeRecords)
    BY <2>3, <2>4, <2>5
  <2>7. records'[1].row # records'[2].row
    BY <2>1, <2>4, <2>5
  <2> QED
    BY <2>1, <2>2, <2>4, <2>5, <2>6, <2>7
<1>3. CASE Values!CloseWriter
  <2>1. /\ stage = "changes" /\ stage' = "closed"
        /\ UNCHANGED <<col, format, keyed, unread, records>>
    BY <1>3 DEF Values!CloseWriter
  <2>2. ScanRecords' = ScanRecords /\ ChangeRecords' = ChangeRecords
    BY <2>1 DEF ScanRecords, ChangeRecords, Rec, Values!RecordId, Values!Stored
  <2> QED
    BY <2>1, <2>2
<1>4. CASE UNCHANGED cells
  <2>1. UNCHANGED <<col, format, keyed, unread, records, stage>>
    BY <1>4 DEF cells
  <2>2. ScanRecords' = ScanRecords /\ ChangeRecords' = ChangeRecords
    BY <2>1 DEF ScanRecords, ChangeRecords, Rec, Values!RecordId, Values!Stored
  <2> QED
    BY <2>1, <2>2
<1> QED
  BY <1>1, <1>2, <1>3, <1>4 DEF Values!NextCells

\* A closed stream's first two records are those of the two scanned rows.
LEMMA ScannedFirst ==
  ASSUME CellsInv, stage = "closed"
  PROVE  /\ DOMAIN records = 1 .. Len(records) /\ Len(records) \in Nat /\ Len(records) >= 2
         /\ \/ records[1] = Rec(1, col.scan[1]) /\ records[2] = Rec(2, col.scan[2])
            \/ records[1] = Rec(2, col.scan[2]) /\ records[2] = Rec(1, col.scan[1])
         /\ \A m \in DOMAIN records :
              \E i \in {1, 2} : \/ m <= 2 /\ records[m] = Rec(i, col.scan[i])
                                \/ m > 2 /\ records[m] = Rec(i, col.change[i])
<1>1. DOMAIN records = 1 .. Len(records) /\ Len(records) \in Nat /\ Len(records) >= 2
  BY DEF CellsInv
<1>2. records[1] \in ScanRecords /\ records[2] \in ScanRecords
      /\ records[1].row # records[2].row
  BY <1>1 DEF CellsInv
<1>3. ASSUME NEW m \in DOMAIN records
      PROVE  \E i \in {1, 2} : \/ m <= 2 /\ records[m] = Rec(i, col.scan[i])
                               \/ m > 2 /\ records[m] = Rec(i, col.change[i])
  <2>1. records[m] \in (IF m <= 2 THEN ScanRecords ELSE ChangeRecords) /\ m \in Nat
    BY <1>1 DEF CellsInv
  <2> QED
    BY <2>1 DEF ScanRecords, ChangeRecords
<1> QED
  BY <1>1, <1>2, <1>3, RecIs DEF ScanRecords

LEMMA CellsInvComesBack == CellsInv => Values!CellsComeBack
<1> SUFFICES ASSUME CellsInv, stage = "closed", ~keyed, ~Values!Replayed
             PROVE  Values!DestinationView = Values!SourceView
                      <=> Values!Here \notin Values!Altered
  BY DEF Values!CellsComeBack
<1> DEFINE key(i) == <<"other key", i>>
           came(i) == Values!Json(Values!Stored(format, col.scan[i], col.type))
           sent(i) == Values!Json(col.scan[i])
<1>1. DOMAIN records = {1, 2} /\ Len(records) = 2
  BY ScannedFirst DEF Values!Replayed
<1>2. \A i : Rec(i, col.scan[i]).id = key(i)
  BY RecIs DEF Values!RecordId
<1>3. key(1) # key(2)
  OBVIOUS
<1>4. {records[1], records[2]} = {Rec(1, col.scan[1]), Rec(2, col.scan[2])}
      /\ records[1].id # records[2].id
  BY ScannedFirst, <1>2, <1>3
<1>5. Values!Current = {records[1], records[2]}
  <2>1. \A m \in DOMAIN records : \A l \in m + 1 .. Len(records) : m = 1 /\ l = 2
    BY <1>1
  <2>2. {m \in DOMAIN records : \A l \in m + 1 .. Len(records) :
                                   records[l].id # records[m].id} = {1, 2}
    BY <1>1, <1>4, <2>1
  <2> QED
    BY <2>2 DEF Values!Current
<1>6. Values!DestinationView = {<<key(1), came(1)>>, <<key(2), came(2)>>}
  <2>1. Values!DestinationView
          = {<<r.id, Values!Json(r.cell)>> : r \in {Rec(1, col.scan[1]), Rec(2, col.scan[2])}}
    BY <1>4, <1>5 DEF Values!DestinationView
  <2>2. \A i : <<Rec(i, col.scan[i]).id, Values!Json(Rec(i, col.scan[i]).cell)>>
                 = <<key(i), came(i)>>
    BY <1>2, RecIs
  <2> HIDE DEF key, came
  <2> QED
    BY <2>1, <2>2
<1>7. Values!SourceView = {<<key(1), sent(1)>>, <<key(2), sent(2)>>}
  <2>1. \A i : <<Values!RecordId(i, col.scan[i]), Values!Json(col.scan[i])>>
                 = <<key(i), sent(i)>>
    BY DEF Values!RecordId
  <2>2. Values!SourceView
          = {<<Values!RecordId(i, col.scan[i]), Values!Json(col.scan[i])>> : i \in {1, 2}}
    BY DEF Values!SourceView
  <2> HIDE DEF key, sent
  <2> QED
    BY <2>1, <2>2
<1>8. Values!DestinationView = Values!SourceView <=> came(1) = sent(1) /\ came(2) = sent(2)
  <2> HIDE DEF key, came, sent
  <2>1. ASSUME Values!DestinationView = Values!SourceView
        PROVE  came(1) = sent(1) /\ came(2) = sent(2)
    <3>1. <<key(1), came(1)>> \in Values!SourceView /\ <<key(2), came(2)>> \in Values!SourceView
      BY <1>6, <2>1
    <3> QED
      BY <1>3, <1>7, <3>1
  <2> QED
    BY <1>6, <1>7, <2>1
<1>9. came(1) = sent(1) /\ came(2) = sent(2) <=> Comes(format, col.type, col.scan)
  BY DEF Comes, Back
<1>10. Comes(format, col.type, col.scan) <=> Values!Here \notin Values!Altered
  <2>1. ColumnFate(col.conn, col.native, col.type, col.scan)
    BY EveryColumn DEF CellsInv, ColumnFacts
  <2>2. format \in {"parquet", "ndjson"}
    BY FormatsAssumption DEF CellsInv, FormatsAssumption
  <2> QED
    BY <2>1, <2>2 DEF ColumnFate, Fate, Values!Altered, Values!Parquet, Values!Here
<1> QED
  BY <1>8, <1>9, <1>10

LEMMA CellsInvOneRow == CellsInv => Values!OneRowPerKey
<1> SUFFICES ASSUME CellsInv, stage = "closed", keyed
             PROVE  (\A m, n \in DOMAIN records :
                        records[m].id = records[n].id <=> records[m].row = records[n].row)
                    <=> /\ Values!Here \notin Values!Mangled
                        /\ ~(Values!Replayed /\ Values!Here \in Values!ChangedByBinlog)
  BY DEF Values!OneRowPerKey
<1> DEFINE sent(i) == Values!Json(col.scan[i])
           Apart == \A m, n \in DOMAIN records :
                       records[m].id = records[n].id <=> records[m].row = records[n].row
<1>1. /\ DOMAIN records = 1 .. Len(records) /\ Len(records) \in Nat /\ Len(records) >= 2
      /\ \/ records[1] = Rec(1, col.scan[1]) /\ records[2] = Rec(2, col.scan[2])
         \/ records[1] = Rec(2, col.scan[2]) /\ records[2] = Rec(1, col.scan[1])
      /\ \A m \in DOMAIN records :
            \E i \in {1, 2} : \/ m <= 2 /\ records[m] = Rec(i, col.scan[i])
                              \/ m > 2 /\ records[m] = Rec(i, col.change[i])
  BY ScannedFirst
<1>2. \A i, cell : Rec(i, cell).id = Values!Json(cell) /\ Rec(i, cell).row = i
  BY RecIs DEF Values!RecordId
<1>3. /\ sent(1) # sent(2) <=> Values!Here \notin Values!Mangled
      /\ \A i \in {1, 2} : Values!Json(col.change[i]) = sent(i)
                             <=> Values!Here \notin Values!ChangedByBinlog
  <2>1. ColumnFacts(col)
    BY EveryColumn DEF CellsInv
  <2> QED
    BY <2>1 DEF ColumnFacts, ColumnFate, Fate, Distinct, Values!Here
<1>4. \E m \in {1, 2}, n \in {1, 2} : /\ m \in DOMAIN records /\ n \in DOMAIN records
                                      /\ records[m].id = sent(1) /\ records[m].row = 1
                                      /\ records[n].id = sent(2) /\ records[n].row = 2
  BY <1>1, <1>2
<1>5. ASSUME Values!Here \in Values!Mangled PROVE ~Apart
  BY <1>3, <1>4, <1>5
<1>6. ASSUME Values!Replayed, Values!Here \in Values!ChangedByBinlog PROVE ~Apart
  <2>1. 3 \in DOMAIN records
    BY <1>1, <1>6 DEF Values!Replayed
  <2>2. PICK i \in {1, 2} : records[3] = Rec(i, col.change[i])
    BY <1>1, <2>1
  <2>3. records[3].row = i /\ records[3].id # sent(i)
    BY <1>2, <1>3, <1>6, <2>2
  <2>4. PICK m \in DOMAIN records : records[m].row = i /\ records[m].id = sent(i)
    BY <1>4
  <2> QED
    BY <2>1, <2>3, <2>4
<1>7. ASSUME Values!Here \notin Values!Mangled,
             ~(Values!Replayed /\ Values!Here \in Values!ChangedByBinlog)
      PROVE  Apart
  <2>1. ASSUME NEW m \in DOMAIN records
        PROVE  records[m].row \in {1, 2} /\ records[m].id = sent(records[m].row)
    <3>1. PICK i \in {1, 2} : \/ m <= 2 /\ records[m] = Rec(i, col.scan[i])
                              \/ m > 2 /\ records[m] = Rec(i, col.change[i])
      BY <1>1
    <3>2. CASE m <= 2 /\ records[m] = Rec(i, col.scan[i])
      BY <1>2, <3>2
    <3>3. CASE m > 2 /\ records[m] = Rec(i, col.change[i])
      <4>1. Values!Replayed
        BY <1>1, <3>3 DEF Values!Replayed
      <4>2. Values!Json(col.change[i]) = sent(i)
        BY <1>3, <1>7, <4>1
      <4> QED
        BY <1>2, <3>3, <4>2
    <3> QED
      BY <3>1, <3>2, <3>3
  <2>2. sent(1) # sent(2)
    BY <1>3, <1>7
  <2> HIDE DEF sent
  <2> QED
    BY <2>1, <2>2
<1> QED
  BY <1>5, <1>6, <1>7

-----------------------------------------------------------------------------
(* The whole: a step of one kind leaves the other kinds' state alone.      *)

SourcesInv == Inv /\ KafkaInv /\ CellsInv

LEMMA InitSourcesInv == InitSources => SourcesInv
BY InitInv, InitKafka, InitCellsInv DEF InitSources, SourcesInv

LEMMA NextSourcesInv ==
  SourcesInv /\ [NextSources]_<<kind, vars, kafka, cells>> => SourcesInv'
<1> SUFFICES ASSUME SourcesInv, [NextSources]_<<kind, vars, kafka, cells>>
             PROVE  SourcesInv'
  OBVIOUS
<1>1. [Next]_vars /\ [Kafka!Next]_kafka /\ [Values!NextCells]_cells
  BY Zenon DEF NextSources
<1> QED
  BY <1>1, NextInv, NextKafka, NextCellsInv, Zenon DEF SourcesInv

LEMMA SourcesInvHolds == SpecSources => []SourcesInv
BY InitSourcesInv, NextSourcesInv, PTL DEF SpecSources

\* Every variable of the row reader and of the Kafka reader keeps its type:
\* boundaries, cursors and offsets are integers of the width the code gives them.
THEOREM TypesCorrect == SpecSources => []TypesOK
<1>1. SourcesInv => TypesOK
  BY InvImplies, KafkaInvImplies DEF SourcesInv, TypesOK
<1> QED
  BY <1>1, SourcesInvHolds, PTL

\* When SplitChunks has returned, of any connector and for the parent of a partitioned
\* table as well, every key there can be, up to either end of the integers, is in
\* exactly one of the chunks (by ctid: every page), unless a bound of the loop wrapped.
THEOREM PlansPartition == SpecSources => []PlanPartitions
<1>1. SourcesInv => PlanPartitions
  BY InvImplies DEF SourcesInv
<1> QED
  BY <1>1, SourcesInvHolds, PTL

\* A full load whose chunks were all read, so no load of a chunk its query cannot
\* parse, has emitted every row nobody wrote since its beginning, and emitted it once
\* (redis: at least once), unless a bound of the plan wrapped.
THEOREM StableRowsOnce == SpecSources => []StableRowsReadOnce
<1>1. SourcesInv => StableRowsReadOnce
  BY InvImplies DEF SourcesInv
<1> QED
  BY <1>1, SourcesInvHolds, PTL

\* No watermark passes data that was not delivered: not the cursor value of a
\* connector that reads rows, where the source orders times as the watermark does and
\* reads one state of the table or nobody writes meanwhile, and not the offset a
\* Kafka partition is to resume from.
THEOREM NothingIsSkipped == SpecSources => []NothingSkippedAnywhere
<1>1. SourcesInv => NothingSkippedAnywhere
  BY InvImplies, KafkaInvImplies DEF SourcesInv, NothingSkippedAnywhere
<1> QED
  BY <1>1, SourcesInvHolds, PTL

\* An incremental pass during which nobody writes is not refused and delivers every row
\* in its present version: of every connector but MongoDB, and of one that binds the
\* watermark as a text if the source converts it.
THEOREM QuietPassesCatchUp == SpecSources => []QuietPassCatchesUp
<1>1. SourcesInv => QuietPassCatchesUp
  BY InvImplies DEF SourcesInv
<1> QED
  BY <1>1, SourcesInvHolds, PTL

\* After a scan the destination reads back what the source holds of a column exactly
\* when the column is not one of those whose type or kind a file cannot carry: the
\* conversions of both formats and of every column that RowValues tabulates.
THEOREM CellsReadBack == SpecSources => []CellsComeBack
<1>1. SourcesInv => CellsComeBack
  BY CellsInvComesBack DEF SourcesInv, CellsComeBack
<1> QED
  BY <1>1, SourcesInvHolds, PTL

\* Record ids are equal exactly for the records of one row, those the change stream
\* delivered again too, exactly when the key column is not one of those listed.
THEOREM KeysIdentifyRows == SpecSources => []OneRowPerKey
<1>1. SourcesInv => OneRowPerKey
  BY CellsInvOneRow DEF SourcesInv, OneRowPerKey
<1> QED
  BY <1>1, SourcesInvHolds, PTL

=============================================================================
