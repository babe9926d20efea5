----------------------------- MODULE RowValues -----------------------------
(***************************************************************************)
(* What becomes of a cell on its way from a source column, through the     *)
(* connector's type mapping and normalisation, the row hash, the record id *)
(* and the destination file, back to the reader that verifies it.          *)
(*                                                                         *)
(* A Go value is its dynamic kind and what it holds.  A text holds plain   *)
(* characters, the digits of a number, an RFC 3339 time, hexadecimal, raw  *)
(* bytes that are no UTF-8, or the JSON encoding of another value.  Hashes *)
(* are taken to be free of collisions, so a hash is the text hashed.  The  *)
(* value of a column of one row is one of two, 1 and 2.                    *)
(***************************************************************************)
EXTENDS Integers, Sequences, FiniteSets

CONSTANTS Formats       \* the destinations to consider: "ndjson", "parquet"

Val(kind, content) == [go |-> kind, is |-> content]
Nil == Val("nil", <<"none">>)
As(kind, v) == Val(kind, v.is)

\* Numbers that the conversions treat differently.
Zero == 0
Small == 1
Other == 2
Fraction == 3       \* 0.1
Widened == 4        \* the double nearest to the single nearest to 0.1
Huge == 5           \* 2^53 + 1, no double
Rounded == 6        \* 2^53

Num(n) == <<"num", n>>

\* float64(x) of an integer, and of a float32.
AsDouble(n) == IF n = Huge THEN Rounded ELSE n
Widen(n) == IF n = Fraction THEN Widened ELSE n

-----------------------------------------------------------------------------
(* The values 1 and 2 of a column, by what the driver of its source hands  *)
(* out for them.                                                           *)

Ints(kind) == <<Val(kind, Num(Small)), Val(kind, Num(Other))>>
Bigs(kind) == <<Val(kind, Num(Small)), Val(kind, Num(Huge))>>
Fractions(kind) == <<Val(kind, Num(Fraction)), Val(kind, Num(Other))>>
Flags == <<Val("bool", <<"bool", TRUE>>), Val("bool", <<"bool", FALSE>>)>>
Texts(kind) == <<Val(kind, <<"text", 1>>), Val(kind, <<"text", 2>>)>>
Digits(kind) == <<Val(kind, <<"digits", Fraction>>), Val(kind, <<"digits", Huge>>)>>
Wholes(kind) == <<Val(kind, <<"digits", Small>>), Val(kind, <<"digits", Huge>>)>>
Times(kind) == <<Val(kind, <<"rfc", 1>>), Val(kind, <<"rfc", 2>>)>>
Blobs(kind) == <<Val(kind, <<"raw", 1>>), Val(kind, <<"raw", 2>>)>>
Documents(kind) == <<Val(kind, <<"obj", 1>>), Val(kind, <<"obj", 2>>)>>
JsonTexts(kind) == <<Val(kind, <<"json", <<"obj", 1>>>>),
                     Val(kind, <<"json", <<"obj", 2>>>>)>>

MysqlScan ==
    [int |-> Ints("int64"), bigint |-> Bigs("int64"), bit |-> Texts("bytes"),
     decimal |-> Digits("bytes"), float |-> Fractions("float32"),
     double |-> Fractions("float64"), datetime |-> Times("time"),
     json |-> JsonTexts("bytes"), varbinary |-> Blobs("bytes"),
     varchar |-> Texts("bytes"), enum |-> Texts("bytes"),
     tinyint |-> Ints("int64")]

\* The binlog holds an ENUM and a BIT by number, a DATETIME as MySQL's text.
MysqlBinlog ==
    [int |-> Ints("int32"), bigint |-> Bigs("int64"), bit |-> Ints("int64"),
     decimal |-> Digits("string"), float |-> Fractions("float32"),
     double |-> Fractions("float64"), datetime |-> Texts("string"),
     json |-> JsonTexts("bytes"), varbinary |-> Blobs("bytes"),
     varchar |-> Texts("string"), enum |-> Ints("int64"),
     tinyint |-> Ints("int8")]

PostgresScan ==
    [smallint |-> Ints("int16"), integer |-> Ints("int32"),
     bigint |-> Bigs("int64"), boolean |-> Flags,
     real |-> Fractions("float32"), double |-> Fractions("float64"),
     numeric |-> Digits("numeric"), text |-> Texts("string"),
     uuid |-> Texts("uuid"), timestamptz |-> Times("time"),
     jsonb |-> Documents("map"), bytea |-> Blobs("bytes")]

SqliteScan ==
    [INTEGER |-> Bigs("int64"), TEXT |-> Texts("string"),
     REAL |-> Fractions("float64"), BLOB |-> Blobs("bytes"),
     BOOL |-> Ints("int64"), DECIMAL |-> Fractions("float64"),
     TIMESTAMP |-> Times("string")]

MssqlScan ==
    [int |-> Ints("int64"), bigint |-> Bigs("int64"), bit |-> Flags,
     decimal |-> Digits("bytes"), real |-> Fractions("float64"),
     float |-> Fractions("float64"), datetime2 |-> Times("time"),
     varbinary |-> Blobs("bytes"), nvarchar |-> Texts("string"),
     uniqueidentifier |-> Blobs("bytes")]

OracleScan ==
    [INTEGER |-> Wholes("string"), NUMBER |-> Digits("string"),
     BINARY_DOUBLE |-> Fractions("float64"), TIMESTAMP |-> Times("time"),
     RAW |-> Blobs("bytes"), VARCHAR2 |-> Texts("string")]

Db2Scan ==
    [INTEGER |-> Ints("int32"), BIGINT |-> Bigs("int64"),
     DECIMAL |-> Digits("bytes"), REAL |-> Fractions("float32"),
     DOUBLE |-> Fractions("float64"), TIMESTAMP |-> Times("time"),
     BLOB |-> Blobs("bytes"), VARCHAR |-> Texts("bytes"),
     BITDATA |-> Blobs("bytes")]

ClickhouseScan ==
    [Int32 |-> Ints("int32"), UInt8 |-> Ints("uint8"), Int64 |-> Bigs("int64"),
     UInt64 |-> Bigs("uint64"), Float32 |-> Fractions("float32"),
     Float64 |-> Fractions("float64"), Decimal |-> Digits("stringer"),
     Bool |-> Flags, DateTime |-> Times("time"), Array |-> Documents("map"),
     String |-> Texts("string"), UUID |-> Texts("stringer")]

CassandraScan ==
    [tinyint |-> Ints("int8"), int |-> Ints("int"), bigint |-> Bigs("int64"),
     varint |-> Wholes("stringer"), boolean |-> Flags,
     float |-> Fractions("float32"), double |-> Fractions("float64"),
     decimal |-> Digits("stringer"), timestamp |-> Times("time"),
     blob |-> Blobs("bytes"), list |-> Documents("map"),
     text |-> Texts("string"), uuid |-> Texts("uuid")]

MongodbScan ==
    [objectId |-> Texts("uuid"), string |-> Texts("string"),
     int |-> Ints("int32"), long |-> Bigs("int64"),
     double |-> Fractions("float64"), bool |-> Flags, date |-> Times("time"),
     decimal |-> Digits("stringer"), binData |-> Blobs("bytes"),
     object |-> Documents("map"), mixed |-> Ints("int32")]

DynamodbScan ==
    [S |-> Texts("string"), N |-> Digits("string"), B |-> Blobs("bytes"),
     BOOL |-> Flags, M |-> Documents("map")]

ElasticsearchScan ==
    [keyword |-> Texts("string"), integer |-> Ints("number"),
     long |-> Bigs("number"), float |-> Fractions("number"),
     double |-> Fractions("number"), boolean |-> Flags,
     date |-> Times("string"), object |-> Documents("map")]

\* Records of an object: CSV fields are texts, NDJSON fields what JSON holds.
ObjectstoreScan ==
    [csv |-> Texts("string"), number |-> Fractions("float64"),
     flag |-> Flags, object |-> Documents("map")]

RedisScan == [key |-> Texts("string"), ttl |-> Ints("int64"), value |-> Documents("map")]
KafkaScan == [partition |-> Ints("int32"), offset |-> Bigs("int64"),
              payload |-> JsonTexts("bytes"), octets |-> Blobs("bytes")]

-----------------------------------------------------------------------------
(* The lake type each connector gives a column.                            *)

MysqlType ==
    [int |-> "int32", bigint |-> "int64", bit |-> "bool", decimal |-> "decimal",
     float |-> "float32", double |-> "float64", datetime |-> "timestamp",
     json |-> "json", varbinary |-> "binary", varchar |-> "string",
     enum |-> "string", tinyint |-> "int32"]

PostgresType ==
    [smallint |-> "int32", integer |-> "int32", bigint |-> "int64",
     boolean |-> "bool", real |-> "float32", double |-> "float64",
     numeric |-> "decimal", text |-> "string", uuid |-> "string",
     timestamptz |-> "timestamp", jsonb |-> "json", bytea |-> "binary"]

SqliteType ==
    [INTEGER |-> "int64", TEXT |-> "string", REAL |-> "float64",
     BLOB |-> "binary", BOOL |-> "bool", DECIMAL |-> "decimal",
     TIMESTAMP |-> "timestamp"]

MssqlType ==
    [int |-> "int32", bigint |-> "int64", bit |-> "bool", decimal |-> "decimal",
     real |-> "float32", float |-> "float64", datetime2 |-> "timestamp",
     varbinary |-> "binary", nvarchar |-> "string", uniqueidentifier |-> "string"]

OracleType ==
    [INTEGER |-> "int64", NUMBER |-> "decimal", BINARY_DOUBLE |-> "float64",
     TIMESTAMP |-> "timestamp", RAW |-> "string", VARCHAR2 |-> "string"]

Db2Type ==
    [INTEGER |-> "int64", BIGINT |-> "int64", DECIMAL |-> "decimal",
     REAL |-> "float64", DOUBLE |-> "float64", TIMESTAMP |-> "timestamp",
     BLOB |-> "string", VARCHAR |-> "string", BITDATA |-> "string"]

ClickhouseType ==
    [Int32 |-> "int32", UInt8 |-> "int32", Int64 |-> "int64", UInt64 |-> "int64",
     Float32 |-> "float32", Float64 |-> "float64", Decimal |-> "decimal",
     Bool |-> "bool", DateTime |-> "timestamp", Array |-> "json",
     String |-> "string", UUID |-> "string"]

CassandraType ==
    [tinyint |-> "int32", int |-> "int32", bigint |-> "int64", varint |-> "int64",
     boolean |-> "bool", float |-> "float32", double |-> "float64",
     decimal |-> "decimal", timestamp |-> "timestamp", blob |-> "binary",
     list |-> "json", text |-> "string", uuid |-> "string"]

\* inferSchema: the type of the sampled values, "string" when they differ.
MongodbType ==
    [objectId |-> "string", string |-> "string", int |-> "int32",
     long |-> "int64", double |-> "float64", bool |-> "bool",
     date |-> "timestamp", decimal |-> "decimal", binData |-> "binary",
     object |-> "json", mixed |-> "string"]

DynamodbType == [S |-> "string", N |-> "decimal", B |-> "binary",
                 BOOL |-> "bool", M |-> "json"]

ElasticsearchType ==
    [keyword |-> "string", integer |-> "int32", long |-> "int64",
     float |-> "float32", double |-> "float64", boolean |-> "bool",
     date |-> "timestamp", object |-> "json"]

ObjectstoreType == [csv |-> "string", number |-> "string", flag |-> "string",
                    object |-> "string"]
RedisType == [key |-> "string", ttl |-> "int64", value |-> "json"]
KafkaType == [partition |-> "int32", offset |-> "int64", payload |-> "json",
              octets |-> "json"]

-----------------------------------------------------------------------------
(* Each connector's normalisation of a cell v of lake type t.              *)

\* The text json.Marshal gives: bytes as base64, text with what is no UTF-8
\* replaced, everything else as its literal.
Json(v) ==
    CASE v.go = "nil"    -> <<"null", "">>
      [] v.go = "bytes"  -> <<"str", <<"base64", v.is>>>>
      [] v.go = "string" -> <<"str", IF v.is[1] = "raw" THEN <<"mangled", 0>>
                                                         ELSE v.is>>
      [] v.go = "time"   -> <<"str", v.is>>
      [] OTHER           -> v.is

\* The fault: a SMALLINT keeps the width the driver gives it.
PostgresValueNarrow(v) ==
    CASE v.go = "int" -> As("int64", v)
      [] v.go \in {"numeric", "uuid"} -> As("string", v)
      [] OTHER -> v

\* NormalizeValue: no text is made of a time or of a JSON document.
PostgresValue(v) ==
    CASE v.go = "int16" -> As("int32", v)
      [] v.go = "int" -> As("int64", v)
      [] v.go \in {"numeric", "uuid"} -> As("string", v)
      [] OTHER -> v

\* mysql and mssql: bytes of a column that is not binary become text.
ScannedValue(v, t) ==
    CASE v.go = "bytes" /\ t # "binary" -> As("string", v)
      [] v.go = "time" -> As("string", v)
      [] OTHER -> v

MysqlChangeValue(v, t) ==
    CASE v.go = "bytes" /\ t # "binary" -> As("string", v)
      [] v.go = "time" -> As("string", v)
      [] OTHER -> v

SqliteValue(v, t) ==
    IF v.go = "bytes" /\ t # "binary" THEN As("string", v) ELSE v

Integer(t) == t \in {"int32", "int64"}

\* ParseInt of the digits of a whole number.
Parsed(v, t) == IF Integer(t) /\ v.is[1] = "digits"
                THEN Val("int64", Num(v.is[2])) ELSE As("string", v)

\* The fault: bytes become text as they are.
OracleValueRaw(v, t) ==
    CASE v.go = "bytes" -> As("string", v)
      [] v.go = "time" -> As("string", v)
      [] v.go = "string" -> Parsed(v, t)
      [] v.go \in {"float64", "int64"} /\ t = "decimal" ->
            Val("string", <<"digits", v.is[2]>>)
      [] OTHER -> v

OracleValue(v, t) ==
    CASE v.go = "bytes" -> Val("string", <<"hex", v.is>>)
      [] v.go = "time" -> As("string", v)
      [] v.go = "string" -> Parsed(v, t)
      [] v.go \in {"float64", "int64"} /\ t = "decimal" ->
            Val("string", <<"digits", v.is[2]>>)
      [] OTHER -> v

\* normalizeValue, with normInt and coerceString; hexEnc is set for a BLOB.
Db2Value(v, t, hexEnc) ==
    CASE v.go = "bytes" -> IF hexEnc THEN Val("string", <<"hex", v.is>>)
                                     ELSE Parsed(v, t)
      [] v.go = "time" -> As("string", v)
      [] v.go = "string" -> Parsed(v, t)
      [] v.go \in {"float64", "int64", "int32"} /\ t = "decimal" ->
            Val("string", <<"digits", v.is[2]>>)
      [] v.go = "float32" -> Val("float64", Num(Widen(v.is[2])))
      [] v.go = "int32" /\ t # "decimal" -> As("int64", v)
      [] OTHER -> v

ClickhouseValue(v) ==
    IF v.go \in {"bytes", "time", "stringer"} THEN As("string", v) ELSE v

CassandraValue(v) ==
    IF v.go \in {"bytes", "time", "uuid", "stringer"} THEN As("string", v) ELSE v

\* convertValue: documents and arrays become their JSON text.
MongodbValue(v) ==
    CASE v.go \in {"uuid", "time", "stringer"} -> As("string", v)
      [] v.go = "map" -> Val("string", <<"json", Json(v)>>)
      [] OTHER -> v

\* attrValue, with plainValue for what is nested.
DynamodbValue(v) == IF v.go = "map" THEN Val("string", <<"json", Json(v)>>) ELSE v

\* hitToRow decodes numbers as json.Number.
ElasticsearchValue(v) ==
    IF v.go = "map" THEN Val("string", <<"json", Json(v)>>) ELSE v

ObjectstoreValue(v) ==
    IF v.go = "map" THEN Val("string", <<"json", Json(v)>>) ELSE v

RedisValue(v) == IF v.go = "map" THEN Val("string", <<"json", Json(v)>>) ELSE v

\* messageRow: a payload that is no JSON is wrapped as a JSON string.
KafkaValue(v) ==
    IF v.go # "bytes" THEN v
    ELSE IF v.is[1] = "json" THEN As("string", v)
                             ELSE Val("string", <<"json", Json(As("string", v))>>)

-----------------------------------------------------------------------------
(* The columns: a connector, a native type, its lake type, the cells a     *)
(* scan delivers for the values 1 and 2 and those the change stream does.  *)

Column(c, native, t, cells, changes) ==
    [conn |-> c, native |-> native, type |-> t, scan |-> cells, change |-> changes]
Pair(Cell(_)) == <<Cell(1), Cell(2)>>

MysqlColumns ==
    {Column("mysql", n, MysqlType[n],
            Pair(LAMBDA i : ScannedValue(MysqlScan[n][i], MysqlType[n])),
            Pair(LAMBDA i : MysqlChangeValue(MysqlBinlog[n][i], MysqlType[n]))) :
        n \in DOMAIN MysqlScan}

Scanned(c, natives, Type(_), Cell(_, _)) ==
    {LET cells == Pair(LAMBDA i : Cell(n, i))
     IN  Column(c, n, Type(n), cells, cells) : n \in natives}

Columns ==
    MysqlColumns
    \cup Scanned("postgres", DOMAIN PostgresScan, LAMBDA n : PostgresType[n],
                 LAMBDA n, i : PostgresValue(PostgresScan[n][i]))
    \cup Scanned("sqlite", DOMAIN SqliteScan, LAMBDA n : SqliteType[n],
                 LAMBDA n, i : SqliteValue(SqliteScan[n][i], SqliteType[n]))
    \cup Scanned("mssql", DOMAIN MssqlScan, LAMBDA n : MssqlType[n],
                 LAMBDA n, i : ScannedValue(MssqlScan[n][i], MssqlType[n]))
    \cup Scanned("oracle", DOMAIN OracleScan, LAMBDA n : OracleType[n],
                 LAMBDA n, i : OracleValue(OracleScan[n][i], OracleType[n]))
    \cup Scanned("db2", DOMAIN Db2Scan, LAMBDA n : Db2Type[n],
                 LAMBDA n, i : Db2Value(Db2Scan[n][i], Db2Type[n], n = "BLOB"))
    \cup Scanned("clickhouse", DOMAIN ClickhouseScan, LAMBDA n : ClickhouseType[n],
                 LAMBDA n, i : ClickhouseValue(ClickhouseScan[n][i]))
    \cup Scanned("cassandra", DOMAIN CassandraScan, LAMBDA n : CassandraType[n],
                 LAMBDA n, i : CassandraValue(CassandraScan[n][i]))
    \cup Scanned("mongodb", DOMAIN MongodbScan, LAMBDA n : MongodbType[n],
                 LAMBDA n, i : MongodbValue(MongodbScan[n][i]))
    \cup Scanned("dynamodb", DOMAIN DynamodbScan, LAMBDA n : DynamodbType[n],
                 LAMBDA n, i : DynamodbValue(DynamodbScan[n][i]))
    \cup Scanned("elasticsearch", DOMAIN ElasticsearchScan,
                 LAMBDA n : ElasticsearchType[n],
                 LAMBDA n, i : ElasticsearchValue(ElasticsearchScan[n][i]))
    \cup Scanned("objectstore", DOMAIN ObjectstoreScan, LAMBDA n : ObjectstoreType[n],
                 LAMBDA n, i : ObjectstoreValue(ObjectstoreScan[n][i]))
    \cup Scanned("redis", DOMAIN RedisScan, LAMBDA n : RedisType[n],
                 LAMBDA n, i : RedisValue(RedisScan[n][i]))
    \cup Scanned("kafka", DOMAIN KafkaScan, LAMBDA n : KafkaType[n],
                 LAMBDA n, i : KafkaValue(KafkaScan[n][i]))

-----------------------------------------------------------------------------
(* The destinations.                                                       *)

\* toInt64: a kind it does not list gives 0.
ToInt(v) ==
    CASE v.go \in {"int64", "int", "int32", "number"} -> v.is[2]
      [] v.go = "float64" -> IF v.is[2] = Fraction THEN Zero ELSE v.is[2]
      [] OTHER -> Zero

\* toFloat64, likewise.
ToFloat(v) ==
    CASE v.go \in {"float64", "number"} -> v.is[2]
      [] v.go = "float32" -> Widen(v.is[2])
      [] v.go \in {"int64", "int"} -> AsDouble(v.is[2])
      [] OTHER -> Zero

ToText(v) == IF v.go \in {"string", "bytes"} THEN As("string", v)
                                             ELSE Val("string", <<"json", Json(v)>>)

\* rowToParquet and normalizeValue, then parquetToRow: the value read back.
ParquetCell(v, t) ==
    IF v.go = "nil" THEN Nil ELSE
    CASE t = "bool" -> IF v.go = "bool" THEN v ELSE Val("bool", <<"bool", FALSE>>)
      [] Integer(t) -> Val("int64", Num(ToInt(v)))
      [] t = "float32" -> Val("float64", Num(Widen(ToFloat(v))))
      [] t = "float64" -> Val("float64", Num(ToFloat(v)))
      [] OTHER -> ToText(v)

\* json.Marshal of the row, then json.Unmarshal of the line.
NdjsonCell(v) ==
    LET j == Json(v)
    IN  CASE j[1] = "null" -> Nil
          [] j[1] = "num" -> Val("float64", Num(AsDouble(j[2])))
          [] j[1] = "str" -> Val("string", j[2])
          [] OTHER -> v

Stored(f, v, t) == IF f = "parquet" THEN ParquetCell(v, t) ELSE NdjsonCell(v)

-----------------------------------------------------------------------------
(* A stream of two rows, whose column col is the primary key (keyed) or    *)
(* stands beside one.                                                      *)

VARIABLES
    col, format, keyed,     \* the column, the destination, its role
    unread,                 \* rows the scan has still to read
    records,                \* rows in the destination: [id, row, cell]
    sums,                   \* both sides' digests: sets of <<record, hash>>
    stage                   \* "scan", "changes", "closed"

cellvars == <<col, format, keyed, unread, records, sums, stage>>

InitCells ==
    /\ col \in Columns /\ format \in Formats /\ keyed \in BOOLEAN
    /\ unread = {1, 2} /\ records = <<>>
    /\ sums = [source |-> {}, destination |-> {}]
    /\ stage = "scan"

\* recordID: of the key's values.
RecordId(i, cell) == IF keyed THEN Json(cell) ELSE <<"other key", i>>

\* handleRow: hash the row, stamp its id, hand it to WriteRow, which hashes it
\* again before it converts it.
HandleRow(i, cell) ==
    /\ records' = Append(records,
                         [id |-> RecordId(i, cell), row |-> i,
                          cell |-> Stored(format, cell, col.type)])
    /\ sums' = [side \in DOMAIN sums |->
                    sums[side] \cup {<<Len(records), Json(cell)>>}]

ScanRow(i) ==
    /\ stage = "scan" /\ i \in unread
    /\ HandleRow(i, col.scan[i])
    /\ unread' = unread \ {i}
    /\ stage' = IF unread = {i} THEN "changes" ELSE "scan"
    /\ UNCHANGED <<col, format, keyed>>

\* A change of another column delivers the row again.
ReplayRow(i) ==
    /\ stage = "changes" /\ Len(records) < 4
    /\ HandleRow(i, col.change[i])
    /\ UNCHANGED <<col, format, keyed, unread, stage>>

CloseWriter ==
    /\ stage = "changes"
    /\ stage' = "closed"
    /\ UNCHANGED <<col, format, keyed, unread, records, sums>>

NextCells == \/ \E i \in {1, 2} : ScanRow(i) \/ ReplayRow(i)
             \/ CloseWriter

\* resolveCurrentState, and VerifyStream's two maps.
Current == {records[n] : n \in {m \in DOMAIN records :
                \A l \in m + 1 .. Len(records) : records[l].id # records[m].id}}
SourceView == {<<RecordId(i, col.scan[i]), Json(col.scan[i])>> : i \in {1, 2}}
DestinationView == {<<r.id, Json(r.cell)>> : r \in Current}

Parquet == "parquet"
Here == <<col.conn, col.native>>

\* Columns whose cells do not read back as they were hashed, per destination.
AlteredByParquet ==
    {<<"mysql", n>> : n \in {"bit", "float", "varbinary"}}
    \cup {<<"postgres", n>> : n \in {"real", "timestamptz", "jsonb", "bytea"}}
    \cup {<<"sqlite", n>> : n \in {"BLOB", "BOOL", "DECIMAL"}}
    \cup {<<"mssql", n>> : n \in {"real", "varbinary"}}
    \cup {<<"clickhouse", n>> : n \in {"UInt8", "UInt64", "Float32", "Array"}}
    \cup {<<"cassandra", n>> : n \in {"tinyint", "varint", "float", "list"}}
    \cup {<<"mongodb", n>> : n \in {"binData", "mixed"}}
    \cup {<<"dynamodb", "B">>, <<"elasticsearch", "float">>}
    \cup {<<"objectstore", n>> : n \in {"number", "flag"}}
AlteredByNdjson ==
    {<<"mysql", "bigint">>, <<"postgres", "bigint">>, <<"sqlite", "INTEGER">>,
     <<"mssql", "bigint">>, <<"oracle", "INTEGER">>, <<"db2", "BIGINT">>,
     <<"clickhouse", "Int64">>, <<"clickhouse", "UInt64">>,
     <<"cassandra", "bigint">>, <<"mongodb", "long">>,
     <<"elasticsearch", "long">>, <<"kafka", "offset">>}
Altered == IF format = Parquet THEN AlteredByParquet ELSE AlteredByNdjson

\* Columns a change stream delivers with other values than the scan.
ChangedByBinlog == {<<"mysql", "bit">>, <<"mysql", "datetime">>, <<"mysql", "enum">>}

\* Binary keys that are made text without an encoding.
Mangled == {<<"mssql", "uniqueidentifier">>, <<"cassandra", "blob">>,
            <<"db2", "BITDATA">>, <<"kafka", "octets">>}

Replayed == Len(records) > 2

\* After a scan the destination reads back what the source holds, for every
\* column but those whose type or kind the destination cannot carry: the
\* conversions from driver to file are faithful everywhere else, and there
\* verify reports a mismatch although nothing was lost.
CellsComeBack ==
    stage = "closed" /\ ~keyed /\ ~Replayed =>
        (DestinationView = SourceView <=> Here \notin Altered)

\* Two keys of a source are two rows of the destination, and a row that comes
\* again from the change stream replaces the row of the scan: record ids
\* merge what is one row and nothing else.
OneRowPerKey ==
    stage = "closed" /\ keyed =>
        ((\A m, n \in DOMAIN records :
              records[m].id = records[n].id <=> records[m].row = records[n].row)
             <=> Here \notin Mangled
                 /\ ~(Replayed /\ Here \in ChangedByBinlog))

\* "a drop or corruption anywhere on the write path shows up as a checksum
\* mismatch" (rowdigest.go): when two rows whose cells differ are stored with
\* one and the same cell, the two sums differ.
CorruptionShows ==
    stage = "closed" /\ ~keyed /\ ~Replayed /\ col.scan[1] # col.scan[2]
        /\ Cardinality({r.cell : r \in Current}) = 1 =>
            sums.source # sums.destination
=============================================================================
