---------------------------- MODULE SourceReads ----------------------------
(***************************************************************************)
(* What the connectors promise the engine when it reads a table that is    *)
(* being written: a stream is either loaded in full, by a plan             *)
(* (SplitChunks) and its chunk reads (ReadChunk), or read in increments    *)
(* (ReadIncrement), the first of them without a watermark; either way the  *)
(* source's own inserts, updates and deletes fall in between.  FullLoad    *)
(* and Incremental take these promises for granted.                        *)
(*                                                                         *)
(* Simplifications.  A row is its key and the cursor value of its current  *)
(* version; every write takes the next cursor value, and these stay below  *)
(* 2^53, as far as the float64 that carries Elasticsearch's sort values is *)
(* exact.  Integers wrap at MaxInt.  A page of a live scan holds one row   *)
(* (a larger page is a schedule with no write between its rows).  A read   *)
(* fails here only for reasons of its own; faults from outside are left to *)
(* FullLoad and Incremental.  Kafka, whose cursor is an offset, is         *)
(* KafkaReads.                                                             *)
(***************************************************************************)
EXTENDS Integers, FiniteSets

CONSTANTS
    Connectors,     \* the connectors to consider, a subset of AllConnectors
    Keys,           \* the primary keys rows may have
    MaxInt,         \* the largest integer (2^63 - 1 in the code)
    ChunkRows,      \* the configured span of a keyset chunk
    TargetRows,     \* postgres: rows a chunk should hold (ChunkTargetMB * 4096)
    Estimates,      \* postgres: values reltuples may have
    Pages,          \* postgres: the pages a row may live in, 0 .. n
    PageSize,       \* elasticsearch: hits per page
    MaxWrites,      \* bound: writes of the source
    MaxPasses       \* bound: increments read

MinInt == -MaxInt - 1
Below  == MinInt - 1    \* the bound "" of a leading open chunk
Above  == MaxInt + 1    \* the bound "" of a trailing open chunk

\* int64 arithmetic: there are 2 * (MaxInt + 1) integers.
Wrap(x) == ((x - MinInt) % (2 * (MaxInt + 1))) + MinInt

\* Go's integer division, towards zero.
Quotient(a, b) == IF a >= 0 THEN a \div b ELSE -((-a) \div b)

IntegerKeyed == {"mysql", "mssql", "oracle", "db2", "sqlite"}
PageAddressed == {"postgres_ctid"}

\* postgres by the strategy that splits a table: page ranges, key ranges, and
\* page ranges asked for the parent of a partitioned table, which has no pages.
Postgres == {"postgres_ctid", "postgres_keyset", "postgres_parent"}

AllConnectors ==
    IntegerKeyed \cup Postgres
        \cup {"clickhouse", "mongodb", "elasticsearch", "dynamodb",
              "cassandra", "objectstore", "redis"}

\* The connectors that implement sdk.IncrementalReader.
Incrementals == AllConnectors \ {"dynamodb", "redis"}

\* The connectors that send a server the stored RFC 3339 text where it is to be
\* compared with a column of times.
TextBinders == {"mysql", "mssql", "sqlite", "clickhouse"}

\* Sources whose reads do not see one state of the table: read committed
\* scans (mssql, db2), cursors and pages that walk the live data, listings.
LiveReaders == {"mssql", "db2", "mongodb", "cassandra", "objectstore",
                "dynamodb", "redis"}

ASSUME SourcesAssumption ==
    /\ Connectors \subseteq AllConnectors
    /\ MaxInt \in Nat \ {0}
    /\ Keys \subseteq MinInt .. MaxInt
    /\ ChunkRows \in 1 .. MaxInt
    /\ TargetRows \in 1 .. MaxInt
    /\ Estimates \subseteq 0 .. MaxInt
    /\ 0 \in Pages /\ Pages \subseteq 0 .. MaxInt
    /\ PageSize \in Nat \ {0}
    /\ MaxWrites \in Nat /\ MaxPasses \in Nat

VARIABLES
    conn,           \* the connector of this source
    cursorType,     \* the type of the cursor column: "number" or "time"
    server,         \* what the source does with that text: "converts" it to a
                    \* time, "refuses" the query, or compares texts, which
                    \* agree as far as the day ("byDay")
    cur,            \* key -> cursor value of the row, 0 when there is none
    page,           \* key -> page the row lives in (postgres)
    clock,          \* the last cursor value the source has given
    phase,          \* "split", "plan", "load", "loaded", or "idle",
                    \* "increment"; "failed"
    watermark,      \* the stored cursor, 0 for ""
    plan,           \* the loop of SplitChunks: lo, its first value, hi, step
                    \* and the chunk planned last
    chunks,         \* the planned chunks
    left,           \* planned chunks not read yet
    scan,           \* the read in progress
    emitted,        \* versions <<key, cursor>> delivered
    loads,          \* key -> times the full load delivered it (up to 2)
    touched,        \* keys the source has written
    quiet,          \* no write since the last increment began
    overlapped,     \* some write fell inside an increment
    passes          \* increments begun

source == <<cur, page, clock>>
history == <<touched, quiet, overlapped>>
vars == <<conn, cursorType, server, source, phase, watermark, plan, chunks, left,
          scan, emitted, loads, history, passes>>

Present == {k \in Keys : cur[k] # 0}
Version(k) == <<k, cur[k]>>
SetMax(S) == CHOOSE x \in S : \A y \in S : y <= x
SetMin(S) == CHOOSE x \in S : \A y \in S : x <= y

WholeTable == [min |-> Below, max |-> Above]
NoPlan == [lo |-> 0, first |-> 0, hi |-> 0, step |-> 1, last |-> WholeTable]
NoScan == [chunk |-> WholeTable, pos |-> Below, item |-> <<>>,
           view |-> {}, newest |-> 0, open |-> FALSE]

\* An increment compares the stored text with the cursor column.  What each
\* connector binds: a value of the column's type, or the text itself.
PostgresBind == "typed"

\* The fault: the RFC 3339 text is bound as it is.
OracleBindText == "text"

OracleBind == IF cursorType = "time" THEN "typed" ELSE "text"
Db2Bind == IF cursorType = "time" THEN "typed" ELSE "text"
CassandraBind == "typed"
ObjectstoreBind == "typed"

Bound ==
    CASE conn \in Postgres    -> PostgresBind
      [] conn = "oracle"      -> OracleBind
      [] conn = "db2"         -> Db2Bind
      [] conn = "cassandra"   -> CassandraBind
      [] conn = "objectstore" -> ObjectstoreBind
      [] OTHER                -> "text"

\* Servers convert the text of a number, and Elasticsearch finds in the text
\* the form its own documents have; the text of a time is another matter.
TimeAsText ==
    cursorType = "time" /\ Bound = "text" /\ conn \notin {"mongodb", "elasticsearch"}

\* Texts of times that agree as far as the day.
Day(c) == c \div 2

\* WHERE cursor > since, every row when since is "".  MongoDB compares within
\* a BSON type: no number and no date is above a text.
Newer(k) ==
    /\ cur[k] # 0
    /\ \/ watermark = 0
       \/ /\ conn # "mongodb"
          /\ IF TimeAsText /\ server = "byDay" THEN Day(cur[k]) > Day(watermark)
                                               ELSE cur[k] > watermark

\* The server raises an error instead.
Refused == watermark # 0 /\ TimeAsText /\ server = "refuses"

Init ==
    /\ conn \in Connectors
    /\ cursorType \in {"number", "time"}
    /\ server \in IF conn \in TextBinders /\ cursorType = "time"
                  THEN {"converts", "refuses", "byDay"} ELSE {"refuses"}
    /\ \E S \in SUBSET Keys, p \in [Keys -> Pages] :
          /\ cur = [k \in Keys |-> IF k \in S THEN 1 ELSE 0]
          /\ page = [k \in Keys |-> IF k \in S /\ conn \in PageAddressed
                                    THEN p[k] ELSE 0]
    /\ clock = 1
    /\ phase \in {"split", "idle"} /\ (conn \notin Incrementals => phase = "split")
    /\ watermark = 0
    /\ plan = NoPlan /\ chunks = {} /\ left = {} /\ scan = NoScan
    /\ emitted = {} /\ loads = [k \in Keys |-> 0]
    /\ touched = {} /\ quiet = TRUE /\ overlapped = FALSE /\ passes = 0

-----------------------------------------------------------------------------
\* The source: one committed write.

RecordWrite(k) ==
    /\ touched' = touched \cup {k}
    /\ quiet' = FALSE
    /\ overlapped' = (overlapped \/ phase = "increment")
    /\ UNCHANGED <<conn, cursorType, server, phase, watermark, plan, chunks, left,
                   scan, emitted, loads, passes>>

\* Inserts a row, or updates one: its new version may move to another page.
Write(k) ==
    /\ clock <= MaxWrites
    /\ clock' = clock + 1
    /\ cur' = [cur EXCEPT ![k] = clock + 1]
    /\ \E p \in IF conn \in PageAddressed THEN Pages ELSE {0} :
          page' = [page EXCEPT ![k] = p]
    /\ RecordWrite(k)

Delete(k) ==
    /\ clock <= MaxWrites /\ k \in Present
    /\ clock' = clock + 1
    /\ cur' = [cur EXCEPT ![k] = 0]
    /\ page' = [page EXCEPT ![k] = 0]
    /\ RecordWrite(k)

-----------------------------------------------------------------------------
\* SplitChunks: the plan of the full load.

Planned(S) ==
    /\ chunks' = S /\ left' = S
    /\ phase' = "load"

\* The fault: the loop's last chunk keeps its closed end.
FinishPlanClosed ==
    /\ phase = "plan" /\ plan.lo > plan.hi
    /\ Planned(chunks)
    /\ UNCHANGED <<conn, cursorType, server, source, watermark, plan, scan, emitted,
                   loads, history, passes>>

\* One turn of "for lo := min; lo <= max; lo += step".
PlanStep ==
    /\ phase = "plan" /\ plan.lo <= plan.hi
    /\ LET hi == Wrap(plan.lo + plan.step)
           c  == [min |-> plan.lo, max |-> hi] IN
       /\ chunks' = chunks \cup {c}
       /\ plan' = [plan EXCEPT !.lo = hi, !.last = c]
    /\ UNCHANGED <<conn, cursorType, server, source, phase, watermark, left, scan,
                   emitted, loads, history, passes>>

\* The last chunk is opened upwards.
FinishPlan ==
    /\ phase = "plan" /\ plan.lo > plan.hi
    /\ Planned((chunks \ {plan.last}) \cup {[plan.last EXCEPT !.max = Above]})
    /\ UNCHANGED <<conn, cursorType, server, source, watermark, plan, scan, emitted,
                   loads, history, passes>>

StartLoop(lo, hi, step, first) ==
    /\ phase = "split"
    /\ plan' = [lo |-> lo, first |-> lo, hi |-> hi, step |-> step,
                last |-> WholeTable]
    /\ chunks' = first
    /\ phase' = "plan"
    /\ UNCHANGED <<conn, cursorType, server, source, watermark, left, scan, emitted,
                   loads, history, passes>>

OneChunk ==
    /\ phase = "split"
    /\ Planned({WholeTable})
    /\ UNCHANGED <<conn, cursorType, server, source, watermark, plan, scan, emitted,
                   loads, history, passes>>

\* The keyset plan of the SQL connectors: no integer key, a probe that fails
\* and an empty table give one open chunk.
KeysetSplit(c) ==
    /\ conn = c
    /\ \/ OneChunk
       \/ /\ Present # {}
          /\ LET lo == SetMin(Present) IN
             StartLoop(lo, SetMax(Present), ChunkRows,
                       {[min |-> Below, max |-> lo]})

MysqlSplitChunks == KeysetSplit("mysql")
MssqlSplitChunks == KeysetSplit("mssql")
OracleSplitChunks == KeysetSplit("oracle")
Db2SplitChunks == KeysetSplit("db2")
SqliteSplitChunks == KeysetSplit("sqlite")

\* The fault: a step is not kept above zero.
KeysetStepUnfloored(lo, hi, rows) ==
    LET span == Wrap(hi - lo + 1)
    IN IF rows > TargetRows THEN Quotient(Wrap(span * TargetRows), rows) ELSE span

\* postgres: the step follows the estimated rows, in int64 arithmetic.
KeysetStep(lo, hi, rows) ==
    LET span == Wrap(hi - lo + 1)
        step == Quotient(Wrap(span * TargetRows), rows)
    IN IF rows > TargetRows THEN (IF step < 1 THEN 1 ELSE step) ELSE span

SplitKeyset ==
    \/ /\ Present = {}
       /\ OneChunk
    \/ /\ Present # {}
       /\ \E rows \in Estimates :
             LET lo == SetMin(Present) hi == SetMax(Present) IN
             StartLoop(lo, hi, KeysetStep(lo, hi, rows),
                       {[min |-> Below, max |-> lo]})

PostgresSplitKeyset == conn = "postgres_keyset" /\ SplitKeyset

\* postgres: ranges of one page each over relpages, a statistic that may lag
\* behind the table; the last one is opened to the largest page number.
PageRanges ==
    /\ conn = "postgres_ctid" /\ phase = "split"
    /\ \E relpages \in {0} \cup {p + 1 : p \in Pages} :
          Planned(IF relpages = 0
                  THEN {[min |-> 0, max |-> Above]}
                  ELSE {[min |-> p, max |-> IF p = relpages - 1 THEN Above
                                            ELSE p + 1] : p \in 0 .. relpages - 1})
    /\ UNCHANGED <<conn, cursorType, server, source, watermark, plan, scan,
                   emitted, loads, history, passes>>

\* The parent of a partitioned table is split by its key when that is one
\* integer, and else read as a whole.
PostgresSplitCTID ==
    \/ PageRanges
    \/ conn = "postgres_parent" /\ (SplitKeyset \/ OneChunk)

ClickhouseSplitChunks == conn = "clickhouse" /\ OneChunk
MongodbSplitChunks == conn = "mongodb" /\ OneChunk
ElasticsearchSplitChunks == conn = "elasticsearch" /\ OneChunk
DynamodbSplitChunks == conn = "dynamodb" /\ OneChunk
CassandraSplitChunks == conn = "cassandra" /\ OneChunk
ObjectstoreSplitChunks == conn = "objectstore" /\ OneChunk
RedisSplitChunks == conn = "redis" /\ OneChunk

-----------------------------------------------------------------------------
\* Delivery, and the reads of a chunk.

KeysOf(V) == {v[1] : v \in V}

Deliver(V) ==
    /\ emitted' = emitted \cup V
    /\ loads' = [k \in Keys |->
                    IF phase = "load" /\ k \in KeysOf(V) /\ loads[k] < 2
                    THEN loads[k] + 1 ELSE loads[k]]

\* The fault: rows on the upper bound belong to the chunk as well.
MysqlChunkQueryClosed(k, c) == c.min <= k /\ k <= c.max

\* chunkQuery: key >= min AND key < max.
MysqlChunkQuery(k, c) == c.min <= k /\ k < c.max
MssqlChunkQuery(k, c) == c.min <= k /\ k < c.max
OracleChunkQuery(k, c) == c.min <= k /\ k < c.max
Db2ChunkQuery(k, c) == c.min <= k /\ k < c.max
SqliteChunkQuery(k, c) == c.min <= k /\ k < c.max

\* chunkQuery by key, or by the page number of the row's ctid; a chunk of two
\* open bounds is the whole table.
PostgresChunkQuery(k, c) ==
    IF conn = "postgres_ctid"
    THEN c.min <= page[k] /\ page[k] < c.max
    ELSE c.min <= k /\ k < c.max

InChunk(k, c) ==
    CASE conn = "mysql"  -> MysqlChunkQuery(k, c)
      [] conn = "mssql"  -> MssqlChunkQuery(k, c)
      [] conn = "oracle" -> OracleChunkQuery(k, c)
      [] conn = "db2"    -> Db2ChunkQuery(k, c)
      [] conn = "sqlite" -> SqliteChunkQuery(k, c)
      [] conn \in Postgres -> PostgresChunkQuery(k, c)
      [] OTHER -> TRUE

\* The engine reads the chunks one after the other, in plan order.
NextChunk(c) == c \in left /\ \A d \in left : c.min <= d.min

EndOfChunk(c) ==
    /\ left' = left \ {c}
    /\ phase' = IF left = {c} THEN "loaded" ELSE "load"
    /\ scan' = NoScan

\* One SELECT that sees one state of the table.
SelectChunk(c) ==
    /\ phase = "load" /\ NextChunk(c)
    /\ Deliver({Version(k) : k \in {j \in Present : InChunk(j, c)}})
    /\ EndOfChunk(c)
    /\ UNCHANGED <<conn, cursorType, server, source, watermark, plan, chunks,
                   history, passes>>

OpenScan(c) ==
    /\ phase = "load" /\ NextChunk(c) /\ ~scan.open
    /\ scan' = [NoScan EXCEPT !.chunk = c, !.open = TRUE]
    /\ UNCHANGED <<conn, cursorType, server, source, phase, watermark, plan, chunks,
                   left, emitted, loads, history, passes>>

\* The rows of its chunk that a live walk in key order has ahead of it.
Ahead == {k \in Present : k > scan.pos /\ InChunk(k, scan.chunk)}

\* The walk takes the next row as it is now, or finds none and ends the chunk.
WalkChunk ==
    /\ phase = "load" /\ scan.open
    /\ IF Ahead = {}
       THEN EndOfChunk(scan.chunk) /\ UNCHANGED <<emitted, loads>>
       ELSE /\ Deliver({Version(SetMin(Ahead))})
            /\ scan' = [scan EXCEPT !.pos = SetMin(Ahead)]
            /\ UNCHANGED <<phase, left>>
    /\ UNCHANGED <<conn, cursorType, server, source, watermark, plan, chunks,
                   history, passes>>

ScanChunk == (\E c \in left : OpenScan(c)) \/ WalkChunk

MysqlReadChunk == conn = "mysql" /\ \E c \in left : SelectChunk(c)
OracleReadChunk == conn = "oracle" /\ \E c \in left : SelectChunk(c)
SqliteReadChunk == conn = "sqlite" /\ \E c \in left : SelectChunk(c)
ClickhouseReadChunk == conn = "clickhouse" /\ \E c \in left : SelectChunk(c)
\* Under the page strategy a key range is no range of pages: its open end is
\* not a number, and the chunk cannot be read.
ReadsAsPages(c) == conn = "postgres_parent" => c = WholeTable

FailLoad(c) ==
    /\ phase = "load" /\ NextChunk(c)
    /\ phase' = "failed"
    /\ UNCHANGED <<conn, cursorType, server, source, watermark, plan, chunks,
                   left, scan, emitted, loads, history, passes>>

PostgresReadChunk ==
    /\ conn \in Postgres
    /\ \E c \in left : IF ReadsAsPages(c) THEN SelectChunk(c) ELSE FailLoad(c)

MssqlReadChunk == conn = "mssql" /\ ScanChunk
Db2ReadChunk == conn = "db2" /\ ScanChunk
MongodbReadChunk == conn = "mongodb" /\ ScanChunk
DynamodbReadChunk == conn = "dynamodb" /\ ScanChunk
CassandraReadChunk == conn = "cassandra" /\ ScanChunk

-----------------------------------------------------------------------------
\* elasticsearch: pages of one point in time, in the order of the sort.

Before(u, v) ==
    IF phase = "increment" /\ u[2] # v[2] THEN u[2] < v[2] ELSE u[1] < v[1]

\* The first PageSize hits after the last one delivered.
Page(V) == {v \in V : Cardinality({u \in V : Before(u, v)}) < PageSize}

\* The fault: the next page is asked for past one more hit.
SearchAfterSkipping(V) ==
    LET rest == V \ Page(V) IN {v \in rest : \E u \in rest : Before(u, v)}

\* search_after: what the point in time holds beyond this page.
SearchAfter(V) == V \ Page(V)

OpenPIT(V) ==
    scan' = [NoScan EXCEPT !.view = V, !.open = TRUE, !.newest = watermark]

\* A page is delivered; a short one is the last.
ScanSearchAfter(done, end) ==
    LET hits == Page(scan.view)
        last == IF hits = {} THEN scan.newest ELSE SetMax({v[2] : v \in hits}) IN
    /\ scan.open
    /\ Deliver(hits)
    /\ IF Cardinality(hits) < PageSize
       THEN /\ left' = left \ {WholeTable}
            /\ phase' = done /\ scan' = NoScan
            /\ watermark' = end[last]
       ELSE /\ scan' = [scan EXCEPT !.view = SearchAfter(@), !.newest = last]
            /\ UNCHANGED <<left, phase, watermark>>
    /\ UNCHANGED <<conn, cursorType, server, source, plan, chunks, history, passes>>

ElasticsearchReadChunk ==
    /\ conn = "elasticsearch" /\ phase = "load"
    /\ \/ /\ ~scan.open
          /\ OpenPIT({Version(k) : k \in Present})
          /\ UNCHANGED <<conn, cursorType, server, source, phase, watermark, plan,
                         chunks, left, emitted, loads, history, passes>>
       \/ ScanSearchAfter("loaded", [c \in 0 .. clock |-> watermark])

-----------------------------------------------------------------------------
\* objectstore: every listed object is opened later, by its name.

\* What a walk or a listing in key order still has ahead of it.
Unlisted == {k \in Present : k > scan.pos}

\* list: the next object; one not modified after the watermark is passed over.
ListObject ==
    /\ scan.open /\ scan.item = <<>> /\ Unlisted # {}
    /\ LET k == SetMin(Unlisted) IN
       scan' = [scan EXCEPT !.pos = k,
                            !.item = IF phase = "load" \/ Newer(k)
                                     THEN Version(k) ELSE <<>>]
    /\ UNCHANGED <<conn, cursorType, server, source, phase, watermark, plan, chunks,
                   left, emitted, loads, history, passes>>

\* open: the content of the moment; the listed time counts.  An object deleted
\* in between fails the read.
ReadObject ==
    /\ scan.open /\ scan.item # <<>>
    /\ LET k == scan.item[1] IN
       IF k \in Present
       THEN /\ Deliver({Version(k)})
            /\ scan' = [scan EXCEPT !.item = <<>>,
                                    !.newest = SetMax({@, scan.item[2]})]
            /\ UNCHANGED phase
       ELSE /\ phase' = "failed" /\ scan' = NoScan
            /\ UNCHANGED <<emitted, loads>>
    /\ UNCHANGED <<conn, cursorType, server, source, watermark, plan, chunks, left,
                   history, passes>>

Listed == scan.open /\ scan.item = <<>> /\ Unlisted = {}

ObjectstoreReadChunk ==
    /\ conn = "objectstore" /\ phase = "load"
    /\ \/ \E c \in left : OpenScan(c)
       \/ ListObject
       \/ ReadObject
       \/ /\ Listed
          /\ EndOfChunk(scan.chunk)
          /\ UNCHANGED <<conn, cursorType, server, source, watermark, plan, chunks,
                         emitted, loads, history, passes>>

-----------------------------------------------------------------------------
\* redis: SCAN returns keys in any order, some twice, and every key that stays
\* for the whole scan; each is then asked for its TYPE and for its value.

Returned == KeysOf(scan.view)

ScanAndType ==
    /\ scan.open /\ scan.item = <<>>
    /\ \E k \in Keys :
          /\ k \in Present \/ k \in touched
          /\ loads[k] < 2 /\ (k \in Returned => k \in Present)
          /\ scan' = [scan EXCEPT !.view = @ \cup {<<k, 0>>},
                                  !.item = IF k \in Present THEN Version(k)
                                           ELSE <<>>]
    /\ UNCHANGED <<conn, cursorType, server, source, phase, watermark, plan, chunks,
                   left, emitted, loads, history, passes>>

\* A key that vanished after its TYPE still makes a row, with an empty value.
ReadValue ==
    /\ scan.open /\ scan.item # <<>>
    /\ Deliver({Version(scan.item[1])})
    /\ scan' = [scan EXCEPT !.item = <<>>]
    /\ UNCHANGED <<conn, cursorType, server, source, phase, watermark, plan, chunks,
                   left, history, passes>>

RedisReadChunk ==
    /\ conn = "redis" /\ phase = "load"
    /\ \/ \E c \in left : OpenScan(c)
       \/ ScanAndType
       \/ ReadValue
       \/ /\ scan.open /\ scan.item = <<>>
          /\ (Present \ touched) \subseteq Returned
          /\ EndOfChunk(scan.chunk)
          /\ UNCHANGED <<conn, cursorType, server, source, watermark, plan, chunks,
                         emitted, loads, history, passes>>

-----------------------------------------------------------------------------
\* ReadIncrement: the rows newer than the watermark, and the new watermark.

BeginPass ==
    /\ phase = "idle" /\ passes < MaxPasses /\ ~Refused
    /\ passes' = passes + 1
    /\ quiet' = TRUE

\* The query of an increment is refused.
FailPass ==
    /\ phase = "idle" /\ passes < MaxPasses /\ Refused
    /\ passes' = passes + 1
    /\ quiet' = TRUE
    /\ phase' = "failed"
    /\ UNCHANGED <<conn, cursorType, server, source, watermark, plan, chunks,
                   left, scan, emitted, loads, touched, overlapped>>

\* One SELECT ... ORDER BY cursor: the last row's cursor is the new watermark.
SelectIncrement ==
    LET V == {Version(k) : k \in {j \in Present : Newer(j)}} IN
    /\ BeginPass
    /\ Deliver(V)
    /\ watermark' = SetMax({v[2] : v \in V} \cup {watermark})
    /\ UNCHANGED <<conn, cursorType, server, source, phase, plan, chunks, left, scan,
                   touched, overlapped>>

MysqlReadIncrement == conn = "mysql" /\ SelectIncrement
OracleReadIncrement == conn = "oracle" /\ SelectIncrement
SqliteReadIncrement == conn = "sqlite" /\ SelectIncrement
ClickhouseReadIncrement == conn = "clickhouse" /\ SelectIncrement
PostgresReadIncrement == conn \in Postgres /\ SelectIncrement

OpenPass ==
    /\ BeginPass
    /\ phase' = "increment"
    /\ UNCHANGED <<conn, cursorType, server, source, watermark, plan, chunks, left,
                   emitted, loads, touched, overlapped>>

StartWalk ==
    OpenPass /\ scan' = [NoScan EXCEPT !.open = TRUE, !.newest = watermark]

EndPass(w) ==
    /\ phase' = "idle" /\ scan' = NoScan
    /\ watermark' = w
    /\ UNCHANGED <<conn, cursorType, server, source, plan, chunks, left, history,
                   passes>>

\* The server walks the live table and sorts what it found before it answers.
WalkAndSort ==
    /\ phase = "increment" /\ scan.open
    /\ IF Unlisted # {}
       THEN LET k == SetMin(Unlisted) IN
            /\ scan' = [scan EXCEPT !.pos = k,
                                    !.view = IF Newer(k) THEN @ \cup {Version(k)}
                                             ELSE @]
            /\ UNCHANGED <<conn, cursorType, server, source, phase, watermark, plan,
                           chunks, left, emitted, loads, history, passes>>
       ELSE /\ Deliver(scan.view)
            /\ EndPass(SetMax({v[2] : v \in scan.view} \cup {watermark}))

MssqlReadIncrement == conn = "mssql" /\ (StartWalk \/ WalkAndSort)
Db2ReadIncrement == conn = "db2" /\ (StartWalk \/ WalkAndSort)
MongodbReadIncrement == conn = "mongodb" /\ (StartWalk \/ WalkAndSort)

\* cassandra sorts nothing: the cursor of the last row scanned is returned.
CassandraWalk ==
    /\ phase = "increment" /\ scan.open
    /\ IF Unlisted # {}
       THEN LET k == SetMin(Unlisted) IN
            /\ Deliver(IF Newer(k) THEN {Version(k)} ELSE {})
            /\ scan' = [scan EXCEPT !.pos = k,
                                    !.newest = IF Newer(k) THEN cur[k] ELSE @]
            /\ UNCHANGED <<conn, cursorType, server, source, phase, watermark, plan,
                           chunks, left, history, passes>>
       ELSE EndPass(scan.newest) /\ UNCHANGED <<emitted, loads>>

CassandraReadIncrement == conn = "cassandra" /\ (StartWalk \/ CassandraWalk)

ElasticsearchReadIncrement ==
    /\ conn = "elasticsearch"
    /\ \/ OpenPass /\ OpenPIT({Version(k) : k \in {j \in Present : Newer(j)}})
       \/ phase = "increment" /\ ScanSearchAfter("idle", [c \in 0 .. clock |-> c])

ObjectstoreReadIncrement ==
    /\ conn = "objectstore"
    /\ \/ StartWalk
       \/ /\ phase = "increment"
          /\ \/ ListObject
             \/ ReadObject
             \/ Listed /\ EndPass(scan.newest) /\ UNCHANGED <<emitted, loads>>

-----------------------------------------------------------------------------

SplitChunks ==
    \/ MysqlSplitChunks \/ MssqlSplitChunks \/ OracleSplitChunks
    \/ Db2SplitChunks \/ SqliteSplitChunks \/ PostgresSplitKeyset
    \/ PostgresSplitCTID \/ ClickhouseSplitChunks \/ MongodbSplitChunks
    \/ ElasticsearchSplitChunks \/ DynamodbSplitChunks
    \/ CassandraSplitChunks \/ ObjectstoreSplitChunks \/ RedisSplitChunks
    \/ PlanStep \/ FinishPlan

ReadChunk ==
    \/ MysqlReadChunk \/ MssqlReadChunk \/ OracleReadChunk \/ Db2ReadChunk
    \/ SqliteReadChunk \/ PostgresReadChunk \/ ClickhouseReadChunk
    \/ MongodbReadChunk \/ ElasticsearchReadChunk \/ DynamodbReadChunk
    \/ CassandraReadChunk \/ ObjectstoreReadChunk \/ RedisReadChunk

ReadIncrement ==
    \/ MysqlReadIncrement \/ MssqlReadIncrement \/ OracleReadIncrement
    \/ Db2ReadIncrement \/ SqliteReadIncrement \/ PostgresReadIncrement
    \/ ClickhouseReadIncrement \/ MongodbReadIncrement
    \/ ElasticsearchReadIncrement \/ CassandraReadIncrement
    \/ ObjectstoreReadIncrement \/ (conn \in Incrementals /\ FailPass)

Next ==
    \/ SplitChunks \/ ReadChunk \/ ReadIncrement
    \/ \E k \in Keys : Write(k) \/ Delete(k)

\* The planning loop runs on: it waits for nobody.
Spec == Init /\ [][Next]_vars /\ WF_vars(PlanStep \/ FinishPlan)

-----------------------------------------------------------------------------
\* Properties.

Versions == Keys \X (0 .. MaxWrites + 1)
Chunk == [min : Below .. Above, max : Below .. Above]

\* The type of the state.
TypeOK ==
    /\ conn \in Connectors /\ cursorType \in {"number", "time"}
    /\ server \in {"converts", "refuses", "byDay"}
    /\ cur \in [Keys -> 0 .. MaxWrites + 1] /\ page \in [Keys -> Pages]
    /\ clock \in 1 .. MaxWrites + 1
    /\ phase \in {"split", "plan", "load", "loaded", "idle", "increment",
                  "failed"}
    /\ watermark \in 0 .. MaxWrites + 1
    /\ plan \in [lo : MinInt .. MaxInt, first : MinInt .. MaxInt,
                 hi : MinInt .. MaxInt, step : MinInt .. MaxInt, last : Chunk]
    /\ chunks \subseteq Chunk /\ left \subseteq chunks
    /\ scan.view \subseteq Versions /\ emitted \subseteq Versions
    /\ loads \in [Keys -> 0 .. 2] /\ touched \subseteq Keys
    /\ quiet \in BOOLEAN /\ overlapped \in BOOLEAN
    /\ passes \in 0 .. MaxPasses

\* The loop of SplitChunks never leaves the integers: neither the span that
\* postgres computes nor the bound of the last chunk wraps.
Fits(p) ==
    /\ conn \in Postgres => p.hi - p.first < MaxInt
    /\ p.step >= 1 =>
          p.first + ((p.hi - p.first) \div p.step + 1) * p.step <= MaxInt

\* A finished plan puts every key the table can ever hold, those inserted
\* below, between and above the planned ones as well, into exactly one chunk
\* (postgres by ctid: every page), as long as no bound wrapped.
PlanPartitions ==
    (phase \in {"load", "loaded"} /\ Fits(plan)) =>
        \A k \in IF conn \in PageAddressed THEN Pages ELSE MinInt .. MaxInt :
            Cardinality({c \in chunks : c.min <= k /\ k < c.max}) = 1

\* A row nobody writes from the plan to the last chunk is delivered by a full
\* load that ends exactly once, whatever happens to the rows around it (redis:
\* at least once, SCAN may repeat a key).
StableRowsReadOnce ==
    (phase = "loaded" /\ Fits(plan)) =>
        \A k \in Present \ touched :
            /\ Version(k) \in emitted
            /\ conn # "redis" => loads[k] = 1

\* The source orders times as the watermark does.  For the connectors that
\* send it a text, that is for the source to do; the others send a time.
Ordered == conn \in TextBinders /\ cursorType = "time" => server = "converts"

\* Between two increments, a version that the table holds is delivered or still
\* ahead of the watermark, so that a later increment finds it: rows written
\* while an increment ran as well.  The sources that do not read one state of
\* the table promise it only if no write fell inside an increment.
NothingSkipped ==
    /\ phase = "idle" /\ Ordered
    /\ conn \in LiveReaders => ~overlapped
    => \A k \in Present : Version(k) \in emitted \/ cur[k] > watermark

\* An increment during which nobody writes succeeds and leaves nothing
\* undelivered: the watermark that a connector binds is one its source can
\* compare.  MongoDB's is a text that matches no number and no date, so only
\* its first increment, which has no watermark, catches up.
QuietPassCatchesUp ==
    /\ phase \in {"idle", "failed"} /\ passes > 0 /\ quiet
    /\ conn # "mongodb" /\ Ordered
    /\ conn \in LiveReaders => ~overlapped
    => phase = "idle" /\ \A k \in Present : Version(k) \in emitted

\* The planning loop ends, unless its next bound wraps around.
PlanEnds == (phase = "plan" /\ Fits(plan)) ~> (phase # "plan")
=============================================================================
