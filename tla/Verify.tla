------------------------------- MODULE Verify -------------------------------
(***************************************************************************)
(* A destination that is an append log of row versions, the processes that *)
(* append to it (a sync and a backfill, two engine processes), the reader  *)
(* that collapses the log into a current state, and the verification that  *)
(* compares that state with the source and drills into the difference.     *)
(*                                                                         *)
(* Simplifications.  The content of a row version is its number, every     *)
(* source write making a new one that a sync is told in full (CdcGroup has *)
(* the others); cells are RowValues' subject.  Hashes are free of          *)
(* collisions, so a digest is the set of the hashes it sums.  A writer     *)
(* flushes once, at its end (FullLoad has the flushes between), but a kill *)
(* may find NDJSON lines on disk before.  Two runs do not open their       *)
(* writers in one millisecond, so part-files are named in the order of     *)
(* their opening.                                                          *)
(***************************************************************************)
EXTENDS Integers, Sequences, FiniteSets, Functions

CONSTANTS
    Ids,                \* record ids, 1 .. n
    Slices,             \* the key ranges a backfill may be asked for
    Formats,            \* the destination formats to consider
    SecondTicks,        \* clock ticks in a second
    SampleThreshold,    \* id-range size at which bisect enumerates
    SampleCap,          \* sample keys reported at most
    MaxWrites,          \* bound: source writes
    MaxTicks,           \* bound: the clock
    MaxRuns,            \* bound: syncs, backfills and verifications begun
    MaxStops            \* bound: killed processes

ASSUME VerifyAssumption ==
    /\ IsFiniteSet(Ids) /\ Ids = 1 .. Cardinality(Ids) /\ 1 \in Ids
    /\ Slices \subseteq SUBSET Ids
    /\ Formats \subseteq {"ndjson", "parquet"}
    /\ {SecondTicks, SampleCap, SampleThreshold, MaxWrites, MaxTicks, MaxRuns,
         MaxStops} \subseteq Nat
    /\ SecondTicks > 0 /\ SampleCap > 0

Procs == {"sync", "backfill"}

VARIABLES
    format,     \* the format of the destination
    ver,        \* id -> version of its last source write
    live,       \* ids present in the source
    changes,    \* the source's log: change n makes version n + 1 of its id
    saved,      \* the position in the log that the sync's state holds
    dest,       \* the rows on disk in the order they were flushed
    torn,       \* part-files without their footer
    tail,       \* the NDJSON file ends in a torn line
    proc,       \* the two writer processes
    now,        \* what the machine's clock showed when it was last read
    opened,     \* writers opened so far
    v,          \* the verification
    overlapped, \* some sync and some backfill ran at the same time
    runs, stops

source == <<format, ver, live, changes>>
disk == <<dest, torn, tail>>
vars == <<source, saved, disk, proc, now, opened, v, overlapped, runs, stops>>

\* What the source holds for id i, and what the destination should.
Row(i) == IF i \in live THEN ver[i] ELSE 0

Idle == [pc |-> "off", view |-> {}, pending |-> <<>>, part |-> 0, slice |-> {},
         upto |-> 0, lost |-> {}]
NoVerify == [pc |-> "idle", by |-> "verify", unread |-> {}, src |-> <<>>,
             dst |-> <<>>, work |-> <<>>, ranges |-> {}, samples |-> <<>>,
             match |-> FALSE, steady |-> TRUE, since |-> TRUE]

Record(i, n, op, t, p) == [id |-> i, ver |-> n, op |-> op, at |-> t, part |-> p]

Init ==
    /\ format \in Formats
    /\ ver = [i \in Ids |-> 1] /\ live = Ids /\ changes = <<>>
    /\ saved = 0
    /\ dest = [i \in Ids |-> Record(i, 1, "r", 0, 0)]
    /\ torn = {} /\ tail = FALSE
    /\ proc = [p \in Procs |-> Idle]
    /\ now = SecondTicks /\ opened = 0
    /\ v = NoVerify
    /\ overlapped = FALSE /\ runs = 0 /\ stops = 0

-----------------------------------------------------------------------------
(* The source.                                                             *)

\* Notes that a side moved under a verification or a backfill in progress.
Unsteady == [v EXCEPT !.steady = v.pc = "idle",
                      !.since = proc["backfill"].pc = "off"]

SourceWrite(i, op) ==
    /\ Len(changes) < MaxWrites
    /\ op = "d" => i \in live
    /\ changes' = Append(changes, <<i, op>>)
    /\ ver' = [ver EXCEPT ![i] = Len(changes) + 2]
    /\ live' = IF op = "u" THEN live \cup {i} ELSE live \ {i}
    /\ v' = Unsteady
    /\ UNCHANGED <<format, saved, disk, proc, now, opened, overlapped, runs, stops>>

-----------------------------------------------------------------------------
(* The two writers.                                                        *)

Open(p, view, slice, upto) ==
    /\ proc[p].pc = "off" /\ runs < MaxRuns
    /\ opened' = opened + 1
    /\ proc' = [proc EXCEPT ![p] = [Idle EXCEPT !.pc = "writing", !.view = view,
                                               !.part = opened + 1,
                                               !.slice = slice, !.upto = upto]]
    /\ overlapped' = (overlapped \/ \E q \in Procs \ {p} : proc[q].pc # "off")
    /\ runs' = runs + 1
    /\ UNCHANGED <<source, saved, disk, now, stops>>

\* runCDCGroup tells the changes after the position in its state one by one, up
\* to the position of the moment, those an earlier run has flushed as well.
StartSync ==
    /\ Open("sync", {<<changes[n][1], n + 1, changes[n][2]>> :
                        n \in saved + 1 .. Len(changes)}, {}, Len(changes))
    /\ UNCHANGED v

\* readSlice: the rows of a key range, or those changed since a value, as one
\* statement sees them.
StartBackfill ==
    /\ \E s \in Slices \cup {{i \in Ids : ver[i] > 1}} :
          Open("backfill", {<<i, ver[i], "u">> : i \in s \cap live}, s, 0)
    /\ v' = [v EXCEPT !.since = TRUE]

\* The fault: a backfill's rows carry the operation of a deletion.
InjectMetadataAsDelete(p, i, n, op, t) ==
    Record(i, n, IF p = "backfill" THEN "d" ELSE op, t, proc[p].part)

\* InjectMetadata: the time is that of the write, not that of the read.
InjectMetadata(p, i, n, op, t) == Record(i, n, op, t, proc[p].part)

\* The order of the log and of a cursor; no row depends on the order in which
\* a key range is read.
ReadNext(r, s) == r[2] < s[2] \/ (r[2] = s[2] /\ r[1] <= s[1])

\* WriteRow of the next row, at a time not before that of the last.
WriteRow(p) ==
    /\ proc[p].pc = "writing"
    /\ now' \in now .. MaxTicks
    /\ \E r \in proc[p].view :
          /\ \A s \in proc[p].view : ReadNext(r, s)
          /\ proc' = [proc EXCEPT ![p].view = @ \ {r},
                                  ![p].pending =
                              Append(@, InjectMetadata(p, r[1], r[2], r[3], now'))]
    /\ UNCHANGED <<source, saved, disk, opened, v, overlapped, runs, stops>>

\* The part-file is created under its final name; it has no footer yet.
CreatePart(p, pc) ==
    /\ proc' = [proc EXCEPT ![p].pc = pc, ![p].view = {}]
    /\ torn' = IF format = "parquet" /\ proc[p].pending # <<>>
               THEN torn \cup {proc[p].part} ELSE torn
    /\ UNCHANGED <<source, saved, dest, tail, now, opened, v, overlapped, runs>>

\* Flush after the last row.
StartFlush(p) ==
    /\ proc[p].pc = "writing" /\ proc[p].view = {}
    /\ CreatePart(p, "flushing")
    /\ UNCHANGED stops

\* The change stream fails: the deferred Close flushes the rows written so far.
FailSync ==
    /\ proc["sync"].pc = "writing" /\ stops < MaxStops
    /\ CreatePart("sync", "closing")
    /\ stops' = stops + 1

\* What rows appended to the file become of: a line torn before swallows the
\* first of them.
Swallowed(rows) == IF tail /\ rows # <<>> THEN {rows[1].id} ELSE {}
Legible(rows) == IF tail /\ rows # <<>> THEN Tail(rows) ELSE rows

\* Notes that the destination moved under a verification in progress.
Moved(rows) == IF rows = <<>> THEN v ELSE [v EXCEPT !.steady = v.pc = "idle"]

FinishPart(p) ==
    /\ proc[p].pc \in {"flushing", "closing"}
    /\ LET rows == proc[p].pending IN
       /\ dest' = dest \o Legible(rows)
       /\ tail' = (tail /\ rows = <<>>)
       /\ torn' = torn \ {proc[p].part}
       /\ proc' = IF proc[p].pc = "closing" THEN [proc EXCEPT ![p] = Idle]
                  ELSE [proc EXCEPT ![p].pc = "flushed", ![p].pending = <<>>,
                                    ![p].lost = Swallowed(rows)]
       /\ v' = Moved(rows)
    /\ UNCHANGED <<source, saved, now, opened, overlapped, runs, stops>>

\* The state advances to the position the run read up to.
FinishSync ==
    /\ proc["sync"].pc = "flushed"
    /\ saved' = proc["sync"].upto
    /\ proc' = [proc EXCEPT !["sync"] = Idle]
    /\ UNCHANGED <<source, disk, now, opened, v, overlapped, runs, stops>>

\* A kill: a part-file begun stays without footer, and of the NDJSON lines any
\* first ones are on disk, the next one in part.
Stop(p) ==
    /\ proc[p].pc # "off" /\ stops < MaxStops
    /\ stops' = stops + 1
    /\ proc' = [proc EXCEPT ![p] = Idle]
    /\ \E n \in 0 .. IF format = "ndjson" THEN Len(proc[p].pending) ELSE 0,
          tears \in BOOLEAN :
          LET rows == SubSeq(proc[p].pending, 1, n) IN
          /\ tears => format = "ndjson" /\ n < Len(proc[p].pending)
          /\ dest' = dest \o Legible(rows)
          /\ tail' = (tears \/ (tail /\ rows = <<>>))
          /\ v' = IF v.by = p THEN NoVerify
                  ELSE Moved(rows)
    /\ UNCHANGED <<source, saved, torn, now, opened, overlapped, runs>>

-----------------------------------------------------------------------------
(* The reader.                                                             *)

\* RFC3339Nano drops trailing zeros and reader.go compares texts: a fraction
\* that is a prefix of another one sorts after it, for 'Z' follows the digits.
TextOrder(t) ==
    LET fraction == t % SecondTicks
    IN  (t \div SecondTicks) * (SecondTicks + 1)
            + (IF fraction = 0 THEN SecondTicks ELSE fraction)

\* The order of the rows handed to resolveCurrentState: sorted part-files, or
\* the lines of the one file.
ReadBefore(m, n) ==
    IF format = "parquet" /\ dest[m].part # dest[n].part
    THEN dest[m].part < dest[n].part ELSE m < n

\* Row n wins over row m.
Supersedes(n, m) ==
    \/ TextOrder(dest[n].at) > TextOrder(dest[m].at)
    \/ TextOrder(dest[n].at) = TextOrder(dest[m].at) /\ ReadBefore(m, n)

\* The fault: the first of the rows with the newest time is kept.
LatestFirst(i) ==
    LET of == {n \in DOMAIN dest : dest[n].id = i}
    IN  CHOOSE n \in of : \A m \in of \ {n} :
            \/ TextOrder(dest[n].at) > TextOrder(dest[m].at)
            \/ TextOrder(dest[n].at) = TextOrder(dest[m].at) /\ ReadBefore(n, m)

\* resolveCurrentState: the newest row of id i.
Latest(i) ==
    LET of == {n \in DOMAIN dest : dest[n].id = i}
    IN  CHOOSE n \in of : \A m \in of \ {n} : Supersedes(n, m)

\* The ids Read emits, with their content.
CurrentState ==
    [i \in {j \in Ids : (\E n \in DOMAIN dest : dest[n].id = j)
                        /\ dest[Latest(j)].op # "d"} |-> dest[Latest(i)].ver]

-----------------------------------------------------------------------------
(* VerifyStream.                                                           *)

Chunks == {{i \in Ids : 2 * i <= Cardinality(Ids)},
           {i \in Ids : 2 * i > Cardinality(Ids)}}
Nothing == [i \in {} |-> 0]

\* The ids of S in their order.
Ascending(S) == CHOOSE s \in [1 .. Cardinality(S) -> S] :
                    \A m, n \in 1 .. Cardinality(S) : m < n => s[m] < s[n]

BeginVerify(by) ==
    /\ v.pc = "idle"
    /\ v' = [NoVerify EXCEPT !.pc = "source", !.by = by, !.unread = Chunks,
                             !.src = Nothing, !.since = v.since]

\* lsengine verify, or the close of a backfill.
StartVerify ==
    /\ BeginVerify("verify") /\ runs < MaxRuns
    /\ runs' = runs + 1
    /\ UNCHANGED <<source, saved, disk, proc, now, opened, overlapped, stops>>

CloseBackfill ==
    /\ proc["backfill"].pc = "flushed" /\ BeginVerify("backfill")
    /\ proc' = [proc EXCEPT !["backfill"].pc = "verifying"]
    /\ UNCHANGED <<source, saved, disk, now, opened, overlapped, runs, stops>>

verifying == <<source, saved, disk, proc, now, opened, overlapped, runs, stops>>

\* readSource: one chunk of the table, as it is now.
ReadSourceChunk ==
    /\ v.pc = "source" /\ v.unread # {}
    /\ \E c \in v.unread :
          v' = [v EXCEPT !.unread = @ \ {c},
                         !.src = [i \in DOMAIN @ \cup (c \cap live) |->
                                      IF i \in c THEN ver[i] ELSE @[i]]]
    /\ UNCHANGED verifying

\* A sum of hashes and a count; the columns hashed include the key.
DigestOf(m) == {<<i, m[i]>> : i \in DOMAIN m}

\* The fault: counts are compared, not checksums.
SameCounts(ids, s, d) ==
    Cardinality(ids \cap DOMAIN s) = Cardinality(ids \cap DOMAIN d)

SameRows(ids, s, d) ==
    {p \in DigestOf(s) : p[1] \in ids} = {p \in DigestOf(d) : p[1] \in ids}

\* readDest, then the verdict.  A part-file without footer fails the read.
ReadDest ==
    /\ v.pc = "source" /\ v.unread = {} /\ torn = {}
    /\ LET d == CurrentState
           all == DOMAIN v.src \cup DOMAIN d
           same == SameRows(all, v.src, d)
       IN  v' = [v EXCEPT !.dst = d, !.match = same,
                          !.pc = IF same THEN "done" ELSE "bisect",
                          !.work = IF same THEN <<>>
                                   ELSE <<Ascending(all)>>]
    /\ UNCHANGED verifying

FailDest ==
    /\ v.pc = "source" /\ v.unread = {} /\ torn # {}
    /\ v' = [v EXCEPT !.pc = "error"]
    /\ UNCHANGED verifying

Differs(i) ==
    \/ i \in DOMAIN v.src /\ i \notin DOMAIN v.dst
    \/ i \in DOMAIN v.dst /\ i \notin DOMAIN v.src
    \/ i \in DOMAIN v.src \cap DOMAIN v.dst /\ v.src[i] # v.dst[i]

Offending(ids) == Ascending({i \in Range(ids) : Differs(i)})
FirstOf(s, n) == SubSeq(s, 1, IF Len(s) < n THEN Len(s) ELSE n)

\* enumerate: the range is noted, samples are taken up to the cap.
Enumerate(ids) ==
    [v EXCEPT !.work = Tail(@),
              !.ranges = @ \cup {<<ids[1], ids[Len(ids)]>>},
              !.samples = FirstOf(@ \o Offending(ids), SampleCap)]

Threshold == IF SampleThreshold = 0 THEN 100 ELSE SampleThreshold

\* The fault: the id in the middle belongs to neither half.
BisectDroppingMiddle ==
    /\ v.pc = "bisect" /\ v.work # <<>>
    /\ LET ids == Head(v.work)
           mid == Len(ids) \div 2
       IN  v' = IF SameRows(Range(ids), v.src, v.dst)
                THEN [v EXCEPT !.work = Tail(@)]
                ELSE IF Len(ids) <= Threshold THEN Enumerate(ids)
                ELSE [v EXCEPT !.work = <<SubSeq(ids, 1, mid),
                                          SubSeq(ids, mid + 2, Len(ids))>> \o Tail(@)]
    /\ UNCHANGED verifying

\* bisect, whose recursion is the list of the ranges still to look at.
Bisect ==
    /\ v.pc = "bisect" /\ v.work # <<>>
    /\ LET ids == Head(v.work)
           mid == Len(ids) \div 2
       IN  v' = IF SameRows(Range(ids), v.src, v.dst)
                THEN [v EXCEPT !.work = Tail(@)]
                ELSE IF Len(ids) <= Threshold THEN Enumerate(ids)
                ELSE [v EXCEPT !.work = <<SubSeq(ids, 1, mid),
                                          SubSeq(ids, mid + 1, Len(ids))>> \o Tail(@)]
    /\ UNCHANGED verifying

FinishBisect ==
    /\ v.pc = "bisect" /\ v.work = <<>>
    /\ v' = [v EXCEPT !.pc = "done"]
    /\ UNCHANGED verifying

\* The report is printed and the process ends.
Report ==
    /\ v.pc \in {"done", "error"}
    /\ v' = [NoVerify EXCEPT !.since = v.since]
    /\ proc' = IF v.by = "backfill" THEN [proc EXCEPT !["backfill"] = Idle] ELSE proc
    /\ UNCHANGED <<source, saved, disk, now, opened, overlapped, runs, stops>>

Next ==
    \/ \E i \in Ids, op \in {"u", "d"} : SourceWrite(i, op)
    \/ StartSync \/ StartBackfill
    \/ \E p \in Procs : WriteRow(p) \/ StartFlush(p) \/ FinishPart(p) \/ Stop(p)
    \/ FailSync \/ FinishSync
    \/ StartVerify \/ CloseBackfill
    \/ ReadSourceChunk \/ ReadDest \/ FailDest \/ Bisect \/ FinishBisect
    \/ Report

Spec == Init /\ [][Next]_vars

-----------------------------------------------------------------------------

\* The type of the state.
TypeOK ==
    /\ format \in Formats
    /\ ver \in [Ids -> 1 .. MaxWrites + 1] /\ live \subseteq Ids
    /\ changes \in Seq(Ids \X {"u", "d"}) /\ saved \in 0 .. Len(changes)
    /\ \A n \in DOMAIN dest : dest[n].id \in Ids /\ dest[n].op \in {"r", "u", "d"}
    /\ torn \subseteq 1 .. opened /\ tail \in BOOLEAN
    /\ \A p \in Procs : proc[p].pc \in {"off", "writing", "flushing", "closing",
                                        "flushed", "verifying"}
    /\ v.pc \in {"idle", "source", "bisect", "done", "error"}

Holding(m, i) == IF i \in DOMAIN m THEN m[i] ELSE 0
Mismatched == {i \in DOMAIN v.src \cup DOMAIN v.dst : Differs(i)}

\* The verdict of a verification during which neither side changed: a match
\* exactly when the destination's current state is the source.
VerdictHolds ==
    v.pc = "done" /\ v.steady =>
        (v.match <=> \A i \in Ids : Holding(CurrentState, i) = Row(i))

\* The drill-down of a mismatch: samples are offending keys, as many as there
\* are or as the cap allows, and no offending key lies outside the ranges,
\* however few samples the cap leaves room for.
DrillDownExact ==
    v.pc = "done" /\ ~v.match =>
        /\ Range(v.samples) \subseteq Mismatched
        /\ \A m, n \in DOMAIN v.samples : m < n => v.samples[m] < v.samples[n]
        /\ Len(v.samples) = IF Cardinality(Mismatched) < SampleCap
                            THEN Cardinality(Mismatched) ELSE SampleCap
        /\ \A i \in Mismatched : \E r \in v.ranges : r[1] <= i /\ i <= r[2]

\* The texts of two stamps of one id sort against their times.
Misordered(i) ==
    \E m, n \in DOMAIN dest :
        /\ dest[m].id = i /\ dest[n].id = i
        /\ dest[m].at < dest[n].at /\ TextOrder(dest[m].at) > TextOrder(dest[n].at)

\* After a backfill that had the destination for itself and a source that
\* stood still, only keys outside its slice, keys deleted from the source, keys
\* whose stamps mislead the reader and the one whose row an earlier kill's torn
\* line swallowed can still differ: an upsert corrects every other row it read.
BackfillReconciles ==
    v.pc = "done" /\ v.by = "backfill" /\ v.since /\ ~overlapped =>
        \A i \in Mismatched \cap proc["backfill"].slice :
            i \notin live \/ Misordered(i) \/ i \in proc["backfill"].lost

\* What the destination shows of a row is the newest version of it that was
\* ever flushed, or one that the sync has yet to tell again, a later one after
\* it: runs that fail and are repeated put an older version back, but not for
\* good.  Unless a sync and a backfill overlapped (the later stamp may be on the
\* older row) or the text order of the stamps misleads.
NewestWins ==
    \A i \in Ids :
        LET shown == dest[Latest(i)].ver IN
        \/ \A r \in Range(dest) : r.id = i => r.ver <= shown
        \/ shown > saved + 1
        \/ overlapped \/ Misordered(i)

=============================================================================
