------------------------------ MODULE RunProofs ------------------------------
(***************************************************************************)
(* Proofs about RunOutcome, for any number of streams, any capacity of the *)
(* pipe and any bounds: types; that a run reported as a success is         *)
(* accounted for; that a metric and last_sync_at stand for a sync that     *)
(* compared every stream; that the badge of such a sync says what its      *)
(* engine computed; that a failure of the engine reaches the rules; that   *)
(* what is recorded of a run stays, and is recorded while it runs.         *)
(***************************************************************************)
EXTENDS RunOutcome, SchedulerState, SequenceTheorems, TLAPS

Sides == {"source", "destination"}

EventType ==
    [kind : {"info", "started", "failed", "torn"}]
        \cup [kind : {"checksum"}, stream : Streams, side : Sides, digest : Nat \ {0}]
        \cup [kind : {"finished"}, ts : Nat] \cup [kind : {"verified"}, match : BOOLEAN]

RunType ==
    [kind : {"none", "sync", "backfill"},
     pc : {"off", "prepare", "running", "ok", "error", "lost"},
     engine : {"off", "info", "setup", "work", "source", "destination", "finish",
               "failing"} \cup Gone,
     at : Streams, match : [Streams -> BOOLEAN], pipe : Seq(EventType), sent : Nat,
     ing : {"off", "read", "derive", "mark", "process", "eof", "failed"},
     cur : EventType \cup {NoEvent}, pairs : [Streams -> [Sides -> Nat]],
     stored : Nat]

DiffType == [run : Runs, stream : Streams, match : BOOLEAN]

-----------------------------------------------------------------------------
(* The inductive invariant.  x is run r; D, M and F are the tables of the  *)
(* comparisons, the metrics and the failures.                              *)

\* The engine has failed, and what it computed is forgotten.
Failing == {"failing", "exit1", "killed"}

\* The digests of stream s are known, and what they are.
Worked(x, s) ==
    s < x.at \/ (s = x.at /\ x.engine \notin {"off", "info", "setup", "work"})
Digest(x, s, side) == IF side = "source" \/ x.match[s] THEN s ELSE NumStreams + s

\* The checksum of one side of stream s has been emitted.
Emitted(x, s, side) ==
    \/ s < x.at
    \/ s = x.at /\ x.engine \in {"finish", "exit0"}
    \/ s = x.at /\ x.engine = "destination" /\ side = "source"

\* What an event says of the engine that emitted it.
EventOK(x, e) ==
    /\ e.kind = "checksum" /\ x.engine \notin Failing =>
            Worked(x, e.stream) /\ e.digest = Digest(x, e.stream, e.side)
    /\ e.kind = "finished" => x.engine = "exit0" /\ x.kind = "sync"
    /\ e.kind = "failed" => x.engine = "exit1" /\ x.kind = "sync"
    /\ e.kind = "torn" => x.engine = "killed"

ControlOK(x) ==
    /\ x.pc = "ok" => x.engine = "exit0" /\ x.ing = "eof"
    /\ x.pc # "off" => x.kind \in {"sync", "backfill"}
    /\ x.pc \in {"off", "prepare"} => x.engine = "off" /\ x.ing = "off"
                                      /\ x.sent = 0 /\ x.stored = 0
    /\ x.engine = "failing" => x.kind = "sync"
    /\ x.engine \in {"finish", "exit0"} /\ x.kind = "sync" => x.at = NumStreams
    /\ x.pc = "lost" => x.ing = "off"
    /\ x.pc = "running" => x.ing # "off"
    /\ x.ing \in {"off", "read", "eof", "failed"} <=> x.cur = NoEvent
    /\ x.ing = "mark" => x.cur.kind = "finished"
    /\ x.ing \in {"off", "eof", "failed"} => x.pipe = <<>>
    /\ x.ing = "eof" => x.engine \in Gone

PipeOK(x, c) ==
    /\ Len(x.pipe) <= PipeCap
    /\ \A i \in 1 .. Len(x.pipe) :
          /\ EventOK(x, x.pipe[i])
          /\ x.pipe[i].kind = "finished" => i = Len(x.pipe) /\ x.pipe[i].ts <= c
    /\ x.cur # NoEvent => EventOK(x, x.cur) /\ x.cur.kind # "torn"
    /\ x.cur.kind = "finished" => x.pipe = <<>> /\ x.cur.ts <= c

\* Events that were sent are stored, or in the pipe.
CountOK(x) ==
    /\ x.ing # "failed" /\ x.engine # "killed" => x.sent = x.stored + Len(x.pipe)
    /\ x.engine = "info" => x.sent = 0
    /\ x.engine = "setup" => x.sent <= 1

PairsOK(x) ==
    \A s \in Streams :
        /\ x.pairs[s]["source"] = 0 \/ x.pairs[s]["destination"] = 0
        /\ \A side \in Sides :
              x.pairs[s][side] # 0 /\ x.engine \notin Failing =>
                  Worked(x, s) /\ x.pairs[s][side] = Digest(x, s, side)

DiffsOK(x, r, D) ==
    \A i \in 1 .. Len(D) :
        D[i].run = r /\ x.engine \notin Failing =>
            Worked(x, D[i].stream) /\ D[i].match = x.match[D[i].stream]

InDiffs(r, D, s) == \E i \in 1 .. Len(D) : D[i].run = r /\ D[i].stream = s
InPipe(events, s, side) ==
    \E i \in 1 .. Len(events) :
        events[i].kind = "checksum" /\ events[i].stream = s /\ events[i].side = side
AtHand(x, s, side) ==
    x.ing = "derive" /\ x.cur.kind = "checksum" /\ x.cur.stream = s /\ x.cur.side = side

\* A checksum is in the pipe, at hand, waits for the other side or is compared.
Kept(x, r, D, s, side) ==
    \/ InPipe(x.pipe, s, side) \/ AtHand(x, s, side)
    \/ x.pairs[s][side] # 0 \/ InDiffs(r, D, s)

\* The ingester follows the engine.
Following(x) == x.pc # "lost" /\ x.ing # "failed"

ChecksumsKept(x, r, D) ==
    Following(x) /\ x.engine \notin Failing =>
        \A s \in Streams, side \in Sides : Emitted(x, s, side) => Kept(x, r, D, s, side)

Pending(events, kind) == \E i \in 1 .. Len(events) : events[i].kind = kind

MetricOK(x, r, D, M, c) ==
    /\ r \in DOMAIN M =>
          /\ x.engine = "exit0" /\ x.kind = "sync" /\ x.pipe = <<>> /\ x.ing # "derive"
          /\ M[r] \in Nat /\ M[r] <= c
          /\ \A s \in Streams : InDiffs(r, D, s)
    /\ x.ing \in {"mark", "process"} /\ x.cur.kind = "finished" =>
          r \in DOMAIN M /\ M[r] = x.cur.ts
    /\ Following(x) /\ x.engine = "exit0" /\ x.kind = "sync" =>
          Pending(x.pipe, "finished") \/ x.cur.kind = "finished" \/ r \in DOMAIN M

FailureOK(x, r, F) ==
    /\ r \in F => x.engine = "exit1"
    /\ Following(x) /\ x.engine = "exit1" /\ x.kind = "sync" /\ x.sent > 1 =>
          Pending(x.pipe, "failed") \/ x.cur.kind = "failed" \/ r \in F

RunOK(x, r, D, M, F, c) ==
    /\ x \in RunType
    /\ ControlOK(x) /\ PipeOK(x, c) /\ CountOK(x) /\ PairsOK(x)
    /\ DiffsOK(x, r, D) /\ ChecksumsKept(x, r, D)
    /\ MetricOK(x, r, D, M, c) /\ FailureOK(x, r, F)

LastSyncOK ==
    /\ last_sync \in 0 .. clock
    /\ last_sync # 0 => \E r \in DOMAIN metrics : metrics[r] = last_sync

Inv ==
    /\ run = [r \in Runs |-> run[r]]
    /\ \A r \in Runs : RunOK(run[r], r, diffs, metrics, failures, clock)
    /\ diffs \in Seq(DiffType)
    /\ DOMAIN metrics \subseteq Runs /\ failures \subseteq Runs
    /\ clock \in Nat /\ LastSyncOK

-----------------------------------------------------------------------------
(* Events, pipes and tables.                                               *)

LEMMA StreamFacts ==
  /\ NumStreams \in Nat \ {0} /\ PipeCap \in Nat \ {0} /\ MaxRuns \in Nat \ {0}
  /\ Streams \subseteq Nat \ {0} /\ 1 \in Streams /\ NumStreams \in Streams
  /\ \A s \in Streams : s <= NumStreams
BY RunOutcomeAssumption DEF RunOutcomeAssumption, Streams

LEMMA NoEventIsNone == NoEvent \notin EventType /\ NoEvent.kind = "none"
BY DEF EventType, NoEvent

LEMMA EventKinds ==
  ASSUME NEW e \in EventType
  PROVE  /\ e.kind \in {"info", "started", "failed", "torn", "checksum", "finished", "verified"}
         /\ e.kind = "checksum" => e.stream \in Streams /\ e.side \in Sides
                                   /\ e.digest \in Nat \ {0}
         /\ e.kind = "finished" => e.ts \in Nat
BY DEF EventType

\* One more event at the end of the pipe.
LEMMA PipeAppend ==
  ASSUME NEW p \in Seq(EventType), NEW e \in EventType
  PROVE  /\ Append(p, e) \in Seq(EventType) /\ Len(p) \in Nat
         /\ Len(Append(p, e)) = Len(p) + 1
         /\ \A i \in 1 .. Len(p) : Append(p, e)[i] = p[i]
         /\ Append(p, e)[Len(p) + 1] = e
         /\ \A kind : Pending(p, kind) => Pending(Append(p, e), kind)
         /\ Pending(Append(p, e), e.kind)
         /\ \A s, side : InPipe(p, s, side) => InPipe(Append(p, e), s, side)
         /\ e.kind = "checksum" => InPipe(Append(p, e), e.stream, e.side)
<1> DEFINE q == Append(p, e)
<1>1. /\ q \in Seq(EventType) /\ Len(p) \in Nat
      /\ Len(q) = Len(p) + 1
      /\ \A i \in 1 .. Len(p) : q[i] = p[i]
      /\ q[Len(p) + 1] = e
  BY AppendProperties, LenProperties
<1>2. Len(p) + 1 \in 1 .. Len(q) /\ 1 .. Len(p) \subseteq 1 .. Len(q)
  BY <1>1
<1> HIDE DEF q
<1>3. /\ \A kind : Pending(p, kind) => Pending(q, kind)
      /\ Pending(q, e.kind)
      /\ \A s, side : InPipe(p, s, side) => InPipe(q, s, side)
      /\ e.kind = "checksum" => InPipe(q, e.stream, e.side)
  BY <1>1, <1>2 DEF Pending, InPipe
<1> QED
  BY <1>1, <1>3 DEF q

\* The first event is taken from the pipe.
LEMMA PipeTail ==
  ASSUME NEW p \in Seq(EventType), p # <<>>
  PROVE  /\ Head(p) \in EventType /\ Head(p) = p[1]
         /\ 1 \in 1 .. Len(p)
         /\ Tail(p) \in Seq(EventType) /\ Len(Tail(p)) \in Nat
         /\ Len(p) = Len(Tail(p)) + 1
         /\ \A i \in 1 .. Len(Tail(p)) : i + 1 \in 1 .. Len(p) /\ Tail(p)[i] = p[i + 1]
         /\ \A kind : Pending(p, kind) => Head(p).kind = kind \/ Pending(Tail(p), kind)
         /\ \A s, side : InPipe(p, s, side) =>
               \/ InPipe(Tail(p), s, side)
               \/ Head(p).kind = "checksum" /\ Head(p).stream = s /\ Head(p).side = side
<1> DEFINE q == Tail(p)
           e == Head(p)
<1>1. /\ e \in EventType /\ e = p[1]
      /\ q \in Seq(EventType) /\ Len(q) = Len(p) - 1
      /\ \A i \in 1 .. Len(q) : q[i] = p[i + 1]
  BY HeadTailProperties
<1>2. Len(p) \in Nat /\ Len(q) \in Nat /\ Len(p) # 0
  BY <1>1, LenProperties, EmptySeq
<1> HIDE DEF q, e
<1>3. \A i \in 1 .. Len(q) : i + 1 \in 1 .. Len(p)
  BY <1>1, <1>2
<1>4. \A i \in 1 .. Len(p) : p[i] = e \/ (\E j \in 1 .. Len(q) : q[j] = p[i])
  <2> TAKE i \in 1 .. Len(p)
  <2>1. CASE i = 1
    BY <1>1, <2>1
  <2>2. CASE i # 1
    <3>1. i - 1 \in 1 .. Len(q) /\ (i - 1) + 1 = i
      BY <1>1, <1>2, <2>2
    <3>2. q[i - 1] = p[i]
      BY <1>1, <3>1
    <3> QED
      BY <3>1, <3>2
  <2> QED
    BY <2>1, <2>2
<1>5. \A kind : Pending(p, kind) => e.kind = kind \/ Pending(q, kind)
  BY <1>4 DEF Pending
<1>6. \A s, side : InPipe(p, s, side) =>
        \/ InPipe(q, s, side)
        \/ e.kind = "checksum" /\ e.stream = s /\ e.side = side
  BY <1>4 DEF InPipe
<1>7. 1 \in 1 .. Len(p) /\ Len(p) = Len(q) + 1
  BY <1>1, <1>2
<1> QED
  BY <1>1, <1>2, <1>3, <1>5, <1>6, <1>7 DEF q, e

\* An empty pipe holds nothing.
LEMMA PipeEmpty ==
  /\ Len(<<>>) = 0 /\ \A kind : ~ Pending(<<>>, kind)
  /\ \A s, side : ~ InPipe(<<>>, s, side)
<1>1. Len(<<>>) = 0
  OBVIOUS
<1> QED
  BY <1>1 DEF Pending, InPipe

LEMMA DiffsAppend ==
  ASSUME NEW D \in Seq(DiffType), NEW d \in DiffType
  PROVE  /\ Append(D, d) \in Seq(DiffType) /\ Len(D) \in Nat
         /\ Len(Append(D, d)) = Len(D) + 1
         /\ \A i \in 1 .. Len(D) : Append(D, d)[i] = D[i]
         /\ Append(D, d)[Len(D) + 1] = d
         /\ \A r, s : InDiffs(r, D, s) => InDiffs(r, Append(D, d), s)
         /\ InDiffs(d.run, Append(D, d), d.stream)
<1>1. /\ Append(D, d) \in Seq(DiffType) /\ Len(D) \in Nat
      /\ Len(Append(D, d)) = Len(D) + 1
      /\ \A i \in 1 .. Len(D) : Append(D, d)[i] = D[i]
      /\ Append(D, d)[Len(D) + 1] = d
  BY AppendProperties, LenProperties
<1> QED
  BY <1>1 DEF InDiffs

-----------------------------------------------------------------------------
(* One run moves, the others keep.                                         *)

\* What happens to the tables that concerns one run only.
OthersKeep(r, D, M, F, c, D1, M1, F1, c1) ==
  \A q \in Runs \ {r} :
     /\ \A s \in Streams : InDiffs(q, D, s) => InDiffs(q, D1, s)
     /\ \A x : DiffsOK(x, q, D) => DiffsOK(x, q, D1)
     /\ q \in DOMAIN M1 <=> q \in DOMAIN M
     /\ q \in DOMAIN M => M1[q] = M[q]
     /\ q \in F1 <=> q \in F
     /\ c <= c1

LEMMA OtherRun ==
  ASSUME NEW r, NEW D, NEW M, NEW F, NEW c \in Nat, NEW D1, NEW M1, NEW F1, NEW c1 \in Nat,
         OthersKeep(r, D, M, F, c, D1, M1, F1, c1),
         NEW q \in Runs \ {r}, NEW x, RunOK(x, q, D, M, F, c)
  PROVE  RunOK(x, q, D1, M1, F1, c1)
<1>1. /\ \A s \in Streams : InDiffs(q, D, s) => InDiffs(q, D1, s)
      /\ DiffsOK(x, q, D) => DiffsOK(x, q, D1)
      /\ q \in DOMAIN M1 <=> q \in DOMAIN M
      /\ q \in DOMAIN M => M1[q] = M[q]
      /\ q \in F1 <=> q \in F
      /\ c <= c1
  BY DEF OthersKeep
<1>2. x \in RunType /\ ControlOK(x) /\ CountOK(x) /\ PairsOK(x) /\ DiffsOK(x, q, D1)
  BY <1>1 DEF RunOK
<1>3. PipeOK(x, c1)
  <2>1. x.pipe \in Seq(EventType) /\ x.cur \in EventType \cup {NoEvent} /\ PipeOK(x, c)
    BY DEF RunOK, RunType
  <2>2. \A i \in 1 .. Len(x.pipe) : x.pipe[i].kind = "finished" => x.pipe[i].ts \in Nat
    BY <2>1, EventKinds, ElementOfSeq
  <2>3. x.cur.kind = "finished" => x.cur.ts \in Nat
    BY <2>1, EventKinds, NoEventIsNone
  <2> QED
    BY <1>1, <2>1, <2>2, <2>3 DEF PipeOK
<1>4. ChecksumsKept(x, q, D1)
  BY <1>1 DEF RunOK, ChecksumsKept, Kept
<1>5. MetricOK(x, q, D1, M1, c1)
  BY <1>1 DEF RunOK, MetricOK
<1>6. FailureOK(x, q, F1)
  BY <1>1 DEF RunOK, FailureOK
<1> QED
  BY <1>2, <1>3, <1>4, <1>5, <1>6 DEF RunOK

\* The invariant, but for the tables.
RunsOK == /\ run = [r \in Runs |-> run[r]]
          /\ \A r \in Runs : RunOK(run[r], r, diffs, metrics, failures, clock)

LEMMA OneRunMoves ==
  ASSUME RunsOK, clock \in Nat, clock' \in Nat, NEW r \in Runs, NEW y, run' = [run EXCEPT ![r] = y],
         RunOK(y, r, diffs', metrics', failures', clock'),
         OthersKeep(r, diffs, metrics, failures, clock, diffs', metrics', failures', clock')
  PROVE  RunsOK'
<1>1. ASSUME NEW q \in Runs PROVE RunOK(run'[q], q, diffs', metrics', failures', clock')
  <2>1. CASE q = r
    BY <2>1 DEF RunsOK
  <2>2. CASE q # r
    <3>1. run'[q] = run[q] /\ RunOK(run[q], q, diffs, metrics, failures, clock)
      BY <2>2 DEF RunsOK
    <3> QED
      BY <2>2, <3>1, OtherRun
  <2> QED
    BY <2>1, <2>2
<1>2. run' = [q \in Runs |-> run'[q]]
  BY DEF RunsOK
<1> QED
  BY <1>1, <1>2 DEF RunsOK

LEMMA SameTables ==
  ASSUME NEW r, NEW D, NEW M, NEW F, NEW c \in Nat, NEW c1 \in Nat, c <= c1
  PROVE  OthersKeep(r, D, M, F, c, D, M, F, c1)
BY DEF OthersKeep

-----------------------------------------------------------------------------
(* The runner.                                                             *)

\* Nothing the ingester or the engine hold changes, but for their start.
LEMMA RunnerOK ==
  ASSUME NEW r, NEW D, NEW M, NEW F, NEW c \in Nat,
         NEW x, RunOK(x, r, D, M, F, c), NEW y \in RunType, ControlOK(y),
         y.at = x.at, y.match = x.match, y.pipe = x.pipe, y.sent = x.sent,
         y.cur = x.cur, y.pairs = x.pairs, y.stored = x.stored,
         y.engine = x.engine \/ (x.engine = "off" /\ y.engine = "info" /\ x.sent = 0),
         y.kind = x.kind \/ x.engine = "off",
         y.ing = x.ing \/ (x.ing = "off" /\ y.ing = "read"),
         x.pc # "lost"
  PROVE  RunOK(y, r, D, M, F, c)
<1>1. PipeOK(y, c)
  BY DEF RunOK, PipeOK, EventOK, Worked, Digest, Failing
<1>2. CountOK(y)
  BY DEF RunOK, CountOK
<1>3. PairsOK(y) /\ DiffsOK(y, r, D)
  BY DEF RunOK, PairsOK, DiffsOK, Worked, Digest, Failing
<1>4. ChecksumsKept(y, r, D)
  BY DEF RunOK, ChecksumsKept, Kept, Emitted, Following, InPipe, AtHand, Failing
<1>5. MetricOK(y, r, D, M, c) /\ FailureOK(y, r, F)
  BY DEF RunOK, MetricOK, FailureOK, Following, Pending
<1> QED
  BY <1>1, <1>2, <1>3, <1>4, <1>5 DEF RunOK

LEMMA RunFacts ==
  ASSUME RunsOK, NEW r \in Runs
  PROVE  /\ run[r] \in RunType /\ RunOK(run[r], r, diffs, metrics, failures, clock)
         /\ run = [q \in Runs |-> run[q]] /\ DOMAIN run = Runs
BY DEF RunsOK, RunOK

\* Only a run changes; its record is y.
LEMMA RunChanges ==
  ASSUME RunsOK, clock \in Nat, NEW r \in Runs, NEW y, run' = [run EXCEPT ![r] = y],
         UNCHANGED <<tables, clock>>,
         RunOK(y, r, diffs, metrics, failures, clock)
  PROVE  RunsOK'
<1>1. /\ diffs' = diffs /\ metrics' = metrics /\ failures' = failures /\ clock' = clock
  BY DEF tables
<1>2. OthersKeep(r, diffs, metrics, failures, clock, diffs', metrics', failures', clock')
  BY <1>1, SameTables
<1>3. RunOK(y, r, diffs', metrics', failures', clock')
  BY <1>1
<1> QED
  BY <1>1, <1>2, <1>3, OneRunMoves

\* A run of the type stays of the type when its kind, phase or process is set, and
\* keeps its other fields.
LEMMA RunUpdates ==
  ASSUME NEW x \in RunType
  PROVE  /\ \A pc \in {"prepare", "ok", "error"} :
                /\ [x EXCEPT !.pc = pc] \in RunType
                /\ \A kind \in {"sync", "backfill"} :
                      [x EXCEPT !.kind = kind, !.pc = pc] \in RunType
         /\ \A engine \in {"setup", "work", "destination", "finish", "exit0", "exit1"} :
                [x EXCEPT !.engine = engine] \in RunType
         /\ DOMAIN x = {"kind", "pc", "engine", "at", "match", "pipe", "sent", "ing",
                        "cur", "pairs", "stored"}
<1> DEFINE Kinds == {"none", "sync", "backfill"}
           Phases == {"off", "prepare", "running", "ok", "error", "lost"}
           Engines == {"off", "info", "setup", "work", "source", "destination", "finish",
                       "failing"} \cup Gone
           Matches == [Streams -> BOOLEAN]
           Events == Seq(EventType)
           Ings == {"off", "read", "derive", "mark", "process", "eof", "failed"}
           Curs == EventType \cup {NoEvent}
           Pairs == [Streams -> [Sides -> Nat]]
           Type == [kind : Kinds, pc : Phases, engine : Engines, at : Streams,
                    match : Matches, pipe : Events, sent : Nat, ing : Ings, cur : Curs,
                    pairs : Pairs, stored : Nat]
<1>1. RunType = Type
  BY Zenon DEF RunType
<1>2. /\ {"sync", "backfill"} \subseteq Kinds /\ {"prepare", "ok", "error"} \subseteq Phases
      /\ {"setup", "work", "destination", "finish", "exit0", "exit1"} \subseteq Engines
  BY DEF Gone
<1> HIDE DEF Kinds, Phases, Engines, Matches, Events, Ings, Curs, Pairs
<1>3. x \in Type
  BY <1>1
<1>4. /\ \A pc \in Phases : [x EXCEPT !.pc = pc] \in Type
      /\ \A kind \in Kinds, pc \in Phases : [x EXCEPT !.kind = kind, !.pc = pc] \in Type
      /\ \A engine \in Engines : [x EXCEPT !.engine = engine] \in Type
      /\ DOMAIN x = {"kind", "pc", "engine", "at", "match", "pipe", "sent", "ing",
                     "cur", "pairs", "stored"}
  BY ONLY <1>3
<1> HIDE DEF Type
<1> QED
  BY <1>1, <1>2, <1>4

LEMMA BeginKeeps ==
  ASSUME RunsOK, clock \in Nat, NEW r \in Runs, NEW kind \in {"sync", "backfill"},
         Begin(r, kind)
  PROVE  RunsOK'
<1> DEFINE x == run[r]
           y == [run[r] EXCEPT !.kind = kind, !.pc = "prepare"]
<1>1. x \in RunType /\ RunOK(x, r, diffs, metrics, failures, clock) /\ DOMAIN run = Runs
  BY RunFacts
<1>2. run' = [run EXCEPT ![r] = y] /\ UNCHANGED <<tables, clock>> /\ x.pc = "off"
  BY <1>1, Zenon DEF Begin
<1>3. /\ y \in RunType /\ y.kind = kind /\ y.pc = "prepare"
      /\ y.engine = x.engine /\ y.at = x.at /\ y.match = x.match /\ y.pipe = x.pipe
      /\ y.sent = x.sent /\ y.ing = x.ing /\ y.cur = x.cur /\ y.pairs = x.pairs
      /\ y.stored = x.stored
  <2>1. y \in RunType
    BY <1>1, RunUpdates
  <2>2. DOMAIN x = {"kind", "pc", "engine", "at", "match", "pipe", "sent", "ing",
                   "cur", "pairs", "stored"}
    BY <1>1, RunUpdates
  <2> QED
    BY ONLY <2>1, <2>2
<1> HIDE DEF x, y
<1>4. ControlOK(x) /\ x.engine = "off"
  BY <1>1, <1>2 DEF RunOK, ControlOK
<1>5. ControlOK(y)
  BY <1>2, <1>3, <1>4 DEF ControlOK, Gone
<1>6. RunOK(y, r, diffs, metrics, failures, clock)
  BY <1>1, <1>2, <1>3, <1>4, <1>5, RunnerOK
<1> QED
  BY <1>2, <1>6, RunChanges

LEMMA PrepareKeeps ==
  ASSUME RunsOK, clock \in Nat, NEW r \in Runs, Prepare(r)
  PROVE  RunsOK'
<1> DEFINE x == run[r]
           y == [run[r] EXCEPT !.pc = "running", !.engine = "info", !.ing = "read"]
<1>1. x \in RunType /\ RunOK(x, r, diffs, metrics, failures, clock) /\ DOMAIN run = Runs
  BY RunFacts
<1>2. run' = [run EXCEPT ![r] = y] /\ UNCHANGED <<tables, clock>> /\ x.pc = "prepare"
  BY <1>1, Zenon DEF Prepare
<1>3. /\ y \in RunType /\ y.pc = "running" /\ y.engine = "info" /\ y.ing = "read"
      /\ y.kind = x.kind /\ y.at = x.at /\ y.match = x.match /\ y.pipe = x.pipe
      /\ y.sent = x.sent /\ y.cur = x.cur /\ y.pairs = x.pairs
      /\ y.stored = x.stored
  BY <1>1 DEF RunType
<1> HIDE DEF x, y
<1>4. ControlOK(x) /\ x.engine = "off" /\ x.ing = "off" /\ x.sent = 0
  BY <1>1, <1>2 DEF RunOK, ControlOK
<1>5. ControlOK(y)
  BY <1>2, <1>3, <1>4 DEF ControlOK, Gone
<1>6. RunOK(y, r, diffs, metrics, failures, clock)
  BY <1>1, <1>2, <1>3, <1>4, <1>5, RunnerOK
<1> QED
  BY <1>2, <1>6, RunChanges

\* The runner has the outcome of a run.
LEMMA EndFacts ==
  ASSUME NEW x \in RunType, NEW pc \in {"ok", "error"}, NEW y, y = [x EXCEPT !.pc = pc]
  PROVE  /\ y \in RunType /\ y.pc = pc
         /\ y.engine = x.engine /\ y.ing = x.ing
         /\ y.kind = x.kind /\ y.at = x.at /\ y.match = x.match /\ y.pipe = x.pipe
         /\ y.sent = x.sent /\ y.cur = x.cur /\ y.pairs = x.pairs
         /\ y.stored = x.stored
<1>1. y \in RunType
  BY RunUpdates, Zenon
<1>2. DOMAIN x = {"kind", "pc", "engine", "at", "match", "pipe", "sent", "ing",
                 "cur", "pairs", "stored"}
  BY RunUpdates
<1> QED
  BY ONLY <1>1, <1>2, y = [x EXCEPT !.pc = pc]

LEMMA FailPrepareKeeps ==
  ASSUME RunsOK, clock \in Nat, NEW r \in Runs, FailPrepare(r)
  PROVE  RunsOK'
<1> DEFINE x == run[r]
           y == [run[r] EXCEPT !.pc = "error"]
<1>1. x \in RunType /\ RunOK(x, r, diffs, metrics, failures, clock) /\ DOMAIN run = Runs
  BY RunFacts
<1>2. run' = [run EXCEPT ![r] = y] /\ UNCHANGED <<tables, clock>> /\ x.pc = "prepare"
  BY <1>1, Zenon DEF FailPrepare
<1>3. /\ y \in RunType /\ y.pc = "error"
      /\ y.engine = x.engine /\ y.ing = x.ing
      /\ y.kind = x.kind /\ y.at = x.at /\ y.match = x.match /\ y.pipe = x.pipe
      /\ y.sent = x.sent /\ y.cur = x.cur /\ y.pairs = x.pairs
      /\ y.stored = x.stored
  BY <1>1, EndFacts
<1> HIDE DEF x, y
<1>4. ControlOK(x)
  BY <1>1 DEF RunOK
<1>5. ControlOK(y)
  BY <1>2, <1>3, <1>4 DEF ControlOK
<1>6. RunOK(y, r, diffs, metrics, failures, clock)
  BY <1>1, <1>2, <1>3, <1>4, <1>5, RunnerOK
<1> QED
  BY <1>2, <1>6, RunChanges

LEMMA ReturnKeeps ==
  ASSUME RunsOK, clock \in Nat, NEW r \in Runs, Return(r)
  PROVE  RunsOK'
<1> DEFINE x == run[r]
           good == x.ing = "eof" /\ x.engine = "exit0"
           y == [run[r] EXCEPT !.pc = IF good THEN "ok" ELSE "error"]
<1>1. x \in RunType /\ RunOK(x, r, diffs, metrics, failures, clock) /\ DOMAIN run = Runs
  BY RunFacts
<1>2. /\ run' = [run EXCEPT ![r] = y] /\ UNCHANGED <<tables, clock>> /\ x.pc = "running"
      /\ x.engine \in Gone /\ x.ing \in {"eof", "failed"}
  BY <1>1 DEF Return
<1>3. /\ y \in RunType /\ y.pc = IF good THEN "ok" ELSE "error"
      /\ y.engine = x.engine /\ y.ing = x.ing
      /\ y.kind = x.kind /\ y.at = x.at /\ y.match = x.match /\ y.pipe = x.pipe
      /\ y.sent = x.sent /\ y.cur = x.cur /\ y.pairs = x.pairs
      /\ y.stored = x.stored
  BY <1>1, EndFacts
<1> HIDE DEF x, y
<1>4. ControlOK(x)
  BY <1>1 DEF RunOK
<1>5. ControlOK(y)
  BY <1>2, <1>3, <1>4 DEF ControlOK, Gone
<1>6. RunOK(y, r, diffs, metrics, failures, clock)
  BY <1>1, <1>2, <1>3, <1>4, <1>5, RunnerOK
<1> QED
  BY <1>2, <1>6, RunChanges

-----------------------------------------------------------------------------
(* The engine.                                                             *)

\* A process that fails forgets what it computed.
LEMMA FailedOK ==
  ASSUME NEW r, NEW D, NEW M, NEW F, NEW c \in Nat,
         NEW x, RunOK(x, r, D, M, F, c), x.engine \notin Gone \cup {"off"},
         NEW code \in Failing, code = "failing" => x.kind = "sync",
         code = "exit1" /\ x.kind = "sync" => x.engine = "setup",
         NEW y \in RunType, y.engine = code,
         y.kind = x.kind, y.pc = x.pc, y.pipe = x.pipe, y.sent = x.sent,
         y.ing = x.ing, y.cur = x.cur, y.pairs = x.pairs,
         y.stored = x.stored
  PROVE  RunOK(y, r, D, M, F, c)
<1>1. ControlOK(y)
  BY DEF RunOK, ControlOK, Gone, Failing
<1>2. PipeOK(y, c)
  BY DEF RunOK, PipeOK, EventOK, Gone, Failing
<1>3. CountOK(y)
  BY DEF RunOK, CountOK, Gone, Failing
<1>4. PairsOK(y) /\ DiffsOK(y, r, D)
  BY DEF RunOK, PairsOK, DiffsOK
<1>5. ChecksumsKept(y, r, D)
  BY DEF RunOK, ChecksumsKept
<1>6. MetricOK(y, r, D, M, c)
  BY DEF RunOK, MetricOK, Following, Gone, Failing
<1>7. FailureOK(y, r, F)
  <2>1. x.sent \in Nat /\ r \notin F
    BY DEF RunOK, RunType, FailureOK, Gone
  <2>2. code = "exit1" /\ x.kind = "sync" => x.sent <= 1
    BY DEF RunOK, CountOK
  <2>3. code = "exit1" /\ x.kind = "sync" => ~ (x.sent > 1)
    BY <2>1, <2>2
  <2> QED
    BY <2>1, <2>3 DEF FailureOK
<1> QED
  BY <1>1, <1>2, <1>3, <1>4, <1>5, <1>6, <1>7 DEF RunOK

LEMMA FailedFacts ==
  ASSUME RunsOK, NEW r \in Runs, NEW code \in Failing
  PROVE  LET x == run[r]
             y == Failed(r, code)
         IN  /\ y \in RunType /\ y.engine = code
             /\ y.kind = x.kind /\ y.pc = x.pc /\ y.pipe = x.pipe /\ y.sent = x.sent
             /\ y.ing = x.ing /\ y.cur = x.cur /\ y.pairs = x.pairs
             /\ y.stored = x.stored
<1> DEFINE x == run[r]
           y == Failed(r, code)
           all == [s \in Streams |-> TRUE]
<1>1. x \in RunType
  BY RunFacts
<1>2. y = [x EXCEPT !.engine = code, !.at = 1, !.match = all]
  BY DEF Failed
<1>3. /\ all \in [Streams -> BOOLEAN] /\ 1 \in Streams
      /\ code \in {"info", "setup", "work", "source", "destination", "finish",
                  "failing"} \cup Gone
  BY StreamFacts DEF Failing, Gone
<1> HIDE DEF x, y, all
<1>4. /\ y \in RunType /\ y.engine = code
      /\ y.kind = x.kind /\ y.pc = x.pc /\ y.pipe = x.pipe /\ y.sent = x.sent
      /\ y.ing = x.ing /\ y.cur = x.cur /\ y.pairs = x.pairs
      /\ y.stored = x.stored
  BY <1>1, <1>2, <1>3 DEF RunType
<1> QED
  BY <1>4 DEF x, y

LEMMA FailedKeeps ==
  ASSUME RunsOK, clock \in Nat, NEW r \in Runs, run[r].engine \notin Gone \cup {"off"},
         NEW code \in Failing, code = "failing" => run[r].kind = "sync",
         code = "exit1" /\ run[r].kind = "sync" => run[r].engine = "setup"
  PROVE  RunOK(Failed(r, code), r, diffs, metrics, failures, clock)
<1> DEFINE x == run[r]
           y == Failed(r, code)
<1>1. RunOK(x, r, diffs, metrics, failures, clock)
  BY RunFacts
<1>2. /\ y \in RunType /\ y.engine = code
      /\ y.kind = x.kind /\ y.pc = x.pc /\ y.pipe = x.pipe /\ y.sent = x.sent
      /\ y.ing = x.ing /\ y.cur = x.cur /\ y.pairs = x.pairs
      /\ y.stored = x.stored
  BY FailedFacts
<1>3. /\ x.engine \notin Gone \cup {"off"} /\ (code = "failing" => x.kind = "sync")
      /\ code = "exit1" /\ x.kind = "sync" => x.engine = "setup"
  OBVIOUS
<1> HIDE DEF x, y
<1>4. RunOK(y, r, diffs, metrics, failures, clock)
  BY <1>1, <1>2, <1>3, FailedOK
<1> QED
  BY <1>4 DEF y

\* The half of a line in the pipe, after the process was killed.
LEMMA TornOK ==
  ASSUME NEW r, NEW D, NEW M, NEW F, NEW c \in Nat,
         NEW x, RunOK(x, r, D, M, F, c), x.engine = "killed", x.pc = "running",
         x.ing \notin {"eof", "failed"}, Len(x.pipe) < PipeCap,
         NEW y, y = [x EXCEPT !.pipe = Append(@, [kind |-> "torn"])]
  PROVE  RunOK(y, r, D, M, F, c)
<1> DEFINE e == [kind |-> "torn"]
<1>1. e \in EventType /\ e.kind = "torn"
  BY DEF EventType
<1>2. x \in RunType /\ x.pipe \in Seq(EventType)
  BY DEF RunOK, RunType
<1>3. Append(x.pipe, e) \in Seq(EventType)
  BY <1>1, <1>2, AppendProperties
<1>4. y = [x EXCEPT !.pipe = Append(x.pipe, e)]
  OBVIOUS
<1> HIDE DEF e
<1>5. /\ y \in RunType /\ y.pipe = Append(x.pipe, e)
      /\ y.engine = x.engine /\ y.at = x.at /\ y.match = x.match /\ y.pc = x.pc
      /\ y.kind = x.kind /\ y.sent = x.sent /\ y.ing = x.ing /\ y.cur = x.cur
      /\ y.pairs = x.pairs /\ y.stored = x.stored
  BY <1>2, <1>3, <1>4 DEF RunType
<1>6. /\ Len(x.pipe) \in Nat /\ Len(y.pipe) = Len(x.pipe) + 1
      /\ \A i \in 1 .. Len(x.pipe) : y.pipe[i] = x.pipe[i]
      /\ y.pipe[Len(x.pipe) + 1] = e
      /\ \A kind : Pending(x.pipe, kind) => Pending(y.pipe, kind)
  BY <1>1, <1>2, <1>5, PipeAppend
<1>7. ControlOK(y)
  BY <1>5 DEF RunOK, ControlOK
<1>8. PipeOK(y, c)
  <2>1. PipeOK(x, c) /\ x.engine \in Failing /\ x.engine # "exit0"
    BY DEF RunOK, Failing
  <2>2. \A i \in 1 .. Len(y.pipe) : EventOK(y, y.pipe[i]) /\ y.pipe[i].kind # "finished"
    <3> TAKE i \in 1 .. Len(y.pipe)
    <3>1. CASE i \in 1 .. Len(x.pipe)
      BY <1>5, <1>6, <2>1, <3>1 DEF PipeOK, EventOK
    <3>2. CASE i = Len(x.pipe) + 1
      BY <1>1, <1>5, <1>6, <3>2 DEF EventOK
    <3> QED
      BY <1>6, <3>1, <3>2
  <2>3. x.cur.kind = "finished" => FALSE
    BY <2>1, NoEventIsNone DEF PipeOK, EventOK
  <2>4. Len(y.pipe) <= PipeCap
    BY <1>6, StreamFacts
  <2> QED
    BY <1>5, <2>1, <2>2, <2>3, <2>4 DEF PipeOK, EventOK
<1>9. CountOK(y)
  BY <1>5 DEF RunOK, CountOK
<1>10. PairsOK(y) /\ DiffsOK(y, r, D) /\ ChecksumsKept(y, r, D)
  BY <1>5 DEF RunOK, PairsOK, DiffsOK, ChecksumsKept, Failing
<1>11. MetricOK(y, r, D, M, c) /\ FailureOK(y, r, F)
  BY <1>5, <1>6 DEF RunOK, MetricOK, FailureOK, Following
<1> QED
  BY <1>5, <1>7, <1>8, <1>9, <1>10, <1>11 DEF RunOK

\* Event e is emitted as the process of run x goes on to be y: what the event says is
\* true of y, and a checksum that y has emitted was emitted by x or is e.
EmitStep(x, y, e, c) ==
  /\ x.engine \notin Failing \cup {"off", "exit0"} \/ x.engine = "failing"
  /\ y.kind = x.kind /\ y.pc = x.pc /\ y.pipe = x.pipe /\ y.sent = x.sent
  /\ y.ing = x.ing /\ y.cur = x.cur /\ y.pairs = x.pairs /\ y.stored = x.stored
 
  /\ y.engine \notin {"off", "info", "failing", "killed"}
  /\ y.engine = "setup" => x.engine = "info"
  /\ y.engine \in {"finish", "exit0"} /\ y.kind = "sync" => y.at = NumStreams
  /\ EventOK(y, e) /\ e.kind # "torn" /\ (e.kind = "finished" => e.ts <= c)
  /\ y.engine = "exit0" /\ y.kind = "sync" => e.kind = "finished"
  /\ y.engine = "exit1" /\ y.kind = "sync" => e.kind = "failed"
  /\ y.engine \notin Failing =>
        /\ x.engine \notin Failing /\ y.match = x.match
        /\ \A s \in Streams : Worked(x, s) => Worked(y, s)
        /\ \A s \in Streams, side \in Sides : Emitted(y, s, side) =>
              Emitted(x, s, side) \/ (e.kind = "checksum" /\ e.stream = s /\ e.side = side)

\* What was said of x is true of y; a sync_finished was not among it.
StillTrue(x, y) ==
  \A f \in EventType : EventOK(x, f) => EventOK(y, f) /\ f.kind # "finished"

\* What does not depend on the pipe.
LEMMA EmitCommon ==
  ASSUME NEW r, NEW D \in Seq(DiffType), NEW M, NEW F, NEW c \in Nat, NEW c1 \in Nat, c <= c1,
         NEW x, RunOK(x, r, D, M, F, c), NEW e \in EventType,
         NEW y, EmitStep(x, y, e, c1)
  PROVE  /\ ControlOK(y) /\ PairsOK(y) /\ DiffsOK(y, r, D)
         /\ x.engine \notin Gone \cup {"off"} /\ x.ing # "eof"
         /\ r \notin DOMAIN M /\ r \notin F
         /\ StillTrue(x, y)
         /\ x.cur.kind # "finished"
<1>1. /\ x.engine \notin Gone \cup {"off"}
      /\ y.engine \in Failing \/ x.engine \notin Failing
  BY DEF EmitStep, Gone, Failing
<1>2. ControlOK(x) /\ x.ing # "eof"
  BY <1>1 DEF RunOK, ControlOK
<1>3. ControlOK(y)
  BY <1>1, <1>2 DEF ControlOK, EmitStep, Gone
<1>4. r \notin DOMAIN M /\ r \notin F
  BY <1>1 DEF RunOK, MetricOK, FailureOK, Gone
<1>5. ASSUME NEW f \in EventType, EventOK(x, f)
      PROVE  EventOK(y, f) /\ f.kind # "finished"
  <2>1. f.kind \notin {"finished", "failed", "torn"}
    BY <1>1, <1>5 DEF EventOK, Gone
  <2>2. f.kind = "checksum" => f.stream \in Streams
    BY EventKinds
  <2>3. ASSUME f.kind = "checksum", y.engine \notin Failing
        PROVE  Worked(y, f.stream) /\ f.digest = Digest(y, f.stream, f.side)
    BY <1>1, <1>5, <2>2, <2>3 DEF EmitStep, EventOK, Digest
  <2> QED
    BY <2>1, <2>3 DEF EventOK
<1>6. PairsOK(y)
  <2>1. x.pairs = y.pairs /\ PairsOK(x)
    BY DEF EmitStep, RunOK
  <2>2. ASSUME y.engine \notin Failing
        PROVE  /\ x.engine \notin Failing /\ y.match = x.match
               /\ \A s \in Streams : Worked(x, s) => Worked(y, s)
    BY <2>2 DEF EmitStep
  <2> QED
    BY <2>1, <2>2 DEF PairsOK, Digest
<1>7. DiffsOK(y, r, D)
  <2>1. x.match = y.match \/ y.engine \in Failing
    BY DEF EmitStep
  <2>2. ASSUME NEW i \in 1 .. Len(D), D[i].run = r, y.engine \notin Failing
        PROVE  Worked(y, D[i].stream) /\ D[i].match = y.match[D[i].stream]
    <3>1. Worked(x, D[i].stream) /\ D[i].match = x.match[D[i].stream]
      BY <1>1, <2>2 DEF RunOK, DiffsOK
    <3>2. y.match = x.match
      BY <2>1, <2>2
    <3>3. D[i].stream \in Streams
      <4>1. D[i] \in DiffType
        BY <2>2, ElementOfSeq
      <4> QED
        BY <4>1 DEF DiffType
    <3>4. Worked(y, D[i].stream)
      BY <3>1, <3>3, <2>2 DEF EmitStep
    <3> QED
      BY <3>1, <3>2, <3>4
  <2> QED
    BY <2>2 DEF DiffsOK
<1>8. x.cur.kind # "finished"
  <2>1. x.cur \in EventType \cup {NoEvent} /\ PipeOK(x, c)
    BY DEF RunOK, RunType
  <2> QED
    BY <1>1, <2>1, NoEventIsNone DEF PipeOK, EventOK, Gone
<1> QED
  BY <1>1, <1>2, <1>3, <1>4, <1>5, <1>6, <1>7, <1>8 DEF StillTrue

\* The ingester reads: the event is in the pipe.
LEMMA EmitOK ==
  ASSUME NEW r, NEW D \in Seq(DiffType), NEW M, NEW F,
         NEW c \in Nat, NEW c1 \in Nat, c <= c1,
         NEW x, RunOK(x, r, D, M, F, c), x.pc = "running", x.ing # "failed",
         Len(x.pipe) < PipeCap,
         NEW e \in EventType, NEW next \in RunType, EmitStep(x, next, e, c1),
         NEW y \in RunType, y.pipe = Append(x.pipe, e), y.sent = x.sent + 1,
         y.kind = next.kind, y.pc = next.pc, y.engine = next.engine, y.at = next.at,
         y.match = next.match, y.ing = next.ing, y.cur = next.cur,
         y.pairs = next.pairs, y.stored = next.stored
  PROVE  RunOK(y, r, D, M, F, c1)
<1> DEFINE q == Append(x.pipe, e)
<1>1. x \in RunType /\ x.pipe \in Seq(EventType) /\ x.sent \in Nat
  BY DEF RunOK, RunType
<1>2. /\ q \in Seq(EventType) /\ Len(x.pipe) \in Nat
      /\ Len(q) = Len(x.pipe) + 1
      /\ \A i \in 1 .. Len(x.pipe) : q[i] = x.pipe[i]
      /\ q[Len(x.pipe) + 1] = e
      /\ \A kind : Pending(x.pipe, kind) => Pending(q, kind)
      /\ Pending(q, e.kind)
      /\ \A s, side : InPipe(x.pipe, s, side) => InPipe(q, s, side)
      /\ e.kind = "checksum" => InPipe(q, e.stream, e.side)
  BY <1>1, PipeAppend
<1> HIDE DEF q
<1>3. /\ y \in RunType /\ y.pipe = q /\ y.sent = x.sent + 1
      /\ y.kind = next.kind /\ y.pc = next.pc /\ y.engine = next.engine /\ y.at = next.at
      /\ y.match = next.match /\ y.ing = next.ing /\ y.cur = next.cur
      /\ y.pairs = next.pairs /\ y.stored = next.stored
  BY DEF q
<1>5. /\ ControlOK(next) /\ PairsOK(next) /\ DiffsOK(next, r, D)
      /\ x.engine \notin Gone \cup {"off"} /\ x.ing # "eof"
      /\ r \notin DOMAIN M /\ r \notin F
      /\ StillTrue(x, next)
      /\ x.cur.kind # "finished"
  BY EmitCommon
<1>6. /\ next.kind = x.kind /\ next.pc = x.pc /\ next.ing = x.ing /\ next.cur = x.cur
      /\ next.pairs = x.pairs /\ next.stored = x.stored
  BY DEF EmitStep
<1>7. ControlOK(x) /\ x.ing # "off"
  BY DEF RunOK, ControlOK
<1>8. ControlOK(y)
  BY <1>3, <1>5, <1>6, <1>7 DEF ControlOK
<1>9. PairsOK(y) /\ DiffsOK(y, r, D)
  BY <1>3, <1>5 DEF PairsOK, DiffsOK, Worked, Digest
<1>10. \A f : EventOK(next, f) <=> EventOK(y, f)
  BY <1>3 DEF EventOK, Worked, Digest
<1>11. PipeOK(y, c1)
  <2>1. PipeOK(x, c) /\ x.cur \in EventType \cup {NoEvent}
    BY DEF RunOK, RunType
  <2>2. \A i \in 1 .. Len(q) :
           EventOK(y, q[i]) /\ (q[i].kind = "finished" => i = Len(q) /\ q[i].ts <= c1)
    <3> TAKE i \in 1 .. Len(q)
    <3>1. CASE i \in 1 .. Len(x.pipe)
      <4>1. q[i] = x.pipe[i] /\ x.pipe[i] \in EventType /\ EventOK(x, x.pipe[i])
        BY <1>1, <1>2, <2>1, <3>1, ElementOfSeq DEF PipeOK
      <4> QED
        BY <1>5, <1>10, <4>1 DEF StillTrue
    <3>2. CASE i = Len(x.pipe) + 1
      BY <1>2, <1>10, <3>2 DEF EmitStep
    <3> QED
      BY <1>2, <3>1, <3>2
  <2>3. Len(q) <= PipeCap
    BY <1>2, StreamFacts
  <2>4. y.cur # NoEvent => EventOK(y, y.cur) /\ y.cur.kind # "torn"
    BY <1>3, <1>5, <1>6, <1>10, <2>1 DEF PipeOK, StillTrue
  <2> QED
    BY <1>3, <1>5, <1>6, <2>2, <2>3, <2>4 DEF PipeOK
<1>12. CountOK(y)
  <2>1. x.sent = x.stored + Len(x.pipe)
    BY <1>5 DEF RunOK, CountOK, Gone
  <2>2. y.engine # "info" /\ (y.engine = "setup" => x.engine = "info" /\ x.sent = 0)
    BY <1>3 DEF EmitStep, RunOK, CountOK
  <2>3. x.stored \in Nat
    BY <1>1 DEF RunType
  <2>4. y.sent = x.sent + 1 /\ y.stored = x.stored /\ Len(y.pipe) = Len(x.pipe) + 1
    BY <1>2, <1>3, <1>6
  <2>5. Len(x.pipe) \in Nat
    BY <1>2
  <2>6. y.sent = y.stored + Len(y.pipe)
    BY ONLY <2>1, <2>3, <2>4, <2>5
  <2>7. y.engine = "setup" => y.sent <= 1
    BY <2>2, <2>4
  <2> QED
    BY <2>2, <2>6, <2>7 DEF CountOK
<1>13. ChecksumsKept(y, r, D)
  <2>1. ASSUME Following(y), y.engine \notin Failing, NEW s \in Streams, NEW side \in Sides,
               Emitted(y, s, side)
        PROVE  Kept(y, r, D, s, side)
    <3>1. Emitted(next, s, side) /\ x.engine \notin Failing /\ Following(x)
      BY <1>3, <1>6, <2>1 DEF Emitted, EmitStep, Following
    <3>2. CASE Emitted(x, s, side)
      <4>1. Kept(x, r, D, s, side)
        BY <3>1, <3>2 DEF RunOK, ChecksumsKept
      <4> QED
        BY <1>2, <1>3, <1>6, <4>1 DEF Kept, AtHand
    <3>3. CASE e.kind = "checksum" /\ e.stream = s /\ e.side = side
      BY <1>2, <1>3, <3>3 DEF Kept
    <3> QED
      BY <1>3, <2>1, <3>1, <3>2, <3>3 DEF EmitStep
  <2> QED
    BY <2>1 DEF ChecksumsKept
<1>14. MetricOK(y, r, D, M, c1)
  <2>1. y.engine = "exit0" /\ y.kind = "sync" => Pending(y.pipe, "finished")
    BY <1>2, <1>3 DEF EmitStep
  <2>2. ~ (y.ing \in {"mark", "process"} /\ y.cur.kind = "finished")
    BY <1>3, <1>5, <1>6
  <2> QED
    BY <1>5, <2>1, <2>2 DEF MetricOK
<1>15. FailureOK(y, r, F)
  <2>1. y.engine = "exit1" /\ y.kind = "sync" => Pending(y.pipe, "failed")
    BY <1>2, <1>3 DEF EmitStep
  <2> QED
    BY <1>5, <2>1 DEF FailureOK
<1> QED
  BY <1>3, <1>8, <1>9, <1>11, <1>12, <1>13, <1>14, <1>15 DEF RunOK

\* The ingester has failed: the event disappears.
LEMMA EmitUnread ==
  ASSUME NEW r, NEW D \in Seq(DiffType), NEW M, NEW F,
         NEW c \in Nat, NEW c1 \in Nat, c <= c1,
         NEW x, RunOK(x, r, D, M, F, c), x.ing = "failed",
         NEW e \in EventType, NEW y \in RunType, EmitStep(x, y, e, c1)
  PROVE  RunOK(y, r, D, M, F, c1)
<1>1. /\ ControlOK(y) /\ PairsOK(y) /\ DiffsOK(y, r, D)
      /\ r \notin DOMAIN M /\ r \notin F
  BY EmitCommon
<1>2. /\ y.pipe = x.pipe /\ y.ing = "failed" /\ y.cur = x.cur /\ y.sent = x.sent
  BY DEF EmitStep
<1>3. x.pipe = <<>> /\ x.cur = NoEvent /\ x.sent \in Nat
  BY DEF RunOK, ControlOK, RunType
<1>4. PipeOK(y, c1)
  BY <1>2, <1>3, NoEventIsNone, PipeEmpty, StreamFacts DEF PipeOK
<1>5. CountOK(y)
  BY <1>2, <1>3 DEF CountOK, EmitStep, RunOK
<1>6. ChecksumsKept(y, r, D) /\ FailureOK(y, r, F) /\ MetricOK(y, r, D, M, c1)
  BY <1>1, <1>2 DEF ChecksumsKept, FailureOK, MetricOK, Following
<1> QED
  BY <1>1, <1>4, <1>5, <1>6 DEF RunOK

\* Whatever becomes of the event, the invariant is kept.
LEMMA EmitKeeps ==
  ASSUME RunsOK, diffs \in Seq(DiffType), clock \in Nat, clock' \in Nat, clock <= clock',
         NEW r \in Runs, NEW e \in EventType, NEW next \in RunType,
         EmitStep(run[r], next, e, clock'), Emit(r, e, next)
  PROVE  RunsOK'
<1> DEFINE x == run[r]
<1>1. /\ x \in RunType /\ RunOK(x, r, diffs, metrics, failures, clock)
      /\ DOMAIN run = Runs
  BY RunFacts
<1>2. /\ diffs' = diffs /\ metrics' = metrics /\ failures' = failures
  BY DEF Emit, tables
<1>3. OthersKeep(r, diffs, metrics, failures, clock, diffs', metrics', failures', clock')
  BY <1>2, SameTables
<1>4. CASE /\ x.pc = "running" /\ x.ing # "failed" /\ Len(x.pipe) < PipeCap
           /\ run' = [run EXCEPT ![r] = [next EXCEPT !.pipe = Append(@, e), !.sent = @ + 1]]
  <2> DEFINE p == Append(x.pipe, e)
             n == x.sent + 1
             y == [next EXCEPT !.pipe = p, !.sent = n]
  <2>1. next.pipe = x.pipe /\ next.sent = x.sent
    BY DEF EmitStep
  <2>2. run' = [run EXCEPT ![r] = y]
    BY <1>4, <2>1
  <2>3. p \in Seq(EventType) /\ n \in Nat
    BY <1>1, AppendProperties DEF RunType
  <2> HIDE DEF p, n
  <2>4. /\ y \in RunType /\ y.pipe = p /\ y.sent = n
        /\ y.kind = next.kind /\ y.pc = next.pc /\ y.engine = next.engine /\ y.at = next.at
        /\ y.match = next.match /\ y.ing = next.ing /\ y.cur = next.cur
        /\ y.pairs = next.pairs /\ y.stored = next.stored
    BY <2>3 DEF RunType
  <2> HIDE DEF y
  <2>5. RunOK(y, r, diffs, metrics, failures, clock')
    BY <1>1, <1>4, <2>4, EmitOK DEF p, n
  <2>6. RunOK(y, r, diffs', metrics', failures', clock')
    BY <1>2, <2>5
  <2> QED
    BY <1>3, <2>2, <2>6, OneRunMoves
<1>5. CASE x.pc = "running" /\ x.ing = "failed" /\ run' = [run EXCEPT ![r] = next]
  <2>1. RunOK(next, r, diffs, metrics, failures, clock')
    BY <1>1, <1>5, EmitUnread
  <2>2. RunOK(next, r, diffs', metrics', failures', clock')
    BY <1>2, <2>1
  <2> QED
    BY <1>3, <1>5, <2>2, OneRunMoves
<1>6. CASE /\ x.pc = "lost" \/ x.ing = "failed"
           /\ run' = [run EXCEPT ![r] = Failed(r, "killed")]
  <2> DEFINE y == Failed(r, "killed")
  <2>1. x.engine \notin Gone \cup {"off"}
    BY DEF EmitStep, Gone, Failing
  <2>2. RunOK(y, r, diffs, metrics, failures, clock)
    BY <2>1, FailedKeeps DEF Failing
  <2>3. run' = [run EXCEPT ![r] = y]
    BY <1>6
  <2> HIDE DEF y
  <2>4. y.cur \in EventType \cup {NoEvent} /\ y.pipe \in Seq(EventType)
    BY <2>2 DEF RunOK, RunType
  <2>5. RunOK(y, r, diffs', metrics', failures', clock')
    <3>1. PipeOK(y, clock')
      <4>1. \A i \in 1 .. Len(y.pipe) : y.pipe[i].kind = "finished" => y.pipe[i].ts \in Nat
        BY <2>4, EventKinds, ElementOfSeq
      <4>2. y.cur.kind = "finished" => y.cur.ts \in Nat
        BY <2>4, EventKinds, NoEventIsNone
      <4> QED
        BY <2>2, <4>1, <4>2 DEF RunOK, PipeOK
    <3>2. r \in DOMAIN metrics => metrics[r] \in Nat /\ metrics[r] <= clock
      BY <2>2 DEF RunOK, MetricOK
    <3>3. MetricOK(y, r, diffs, metrics, clock')
      BY <2>2, <3>2 DEF RunOK, MetricOK
    <3> QED
      BY <1>2, <2>2, <3>1, <3>3 DEF RunOK
  <2> QED
    BY <1>3, <2>3, <2>5, OneRunMoves
<1> QED
  BY <1>4, <1>5, <1>6 DEF Emit

\* The next state of the process, when it only goes on.
LEMMA GotoFacts ==
  ASSUME NEW x \in RunType,
         NEW engine \in {"setup", "work", "destination", "finish", "exit0", "exit1"}
  PROVE  LET y == [x EXCEPT !.engine = engine]
         IN  /\ y \in RunType /\ y.engine = engine /\ y.at = x.at /\ y.match = x.match
             /\ y.kind = x.kind /\ y.pc = x.pc /\ y.pipe = x.pipe /\ y.sent = x.sent
             /\ y.ing = x.ing /\ y.cur = x.cur /\ y.pairs = x.pairs
             /\ y.stored = x.stored
<1> DEFINE y == [x EXCEPT !.engine = engine]
<1>1. y \in RunType
  BY RunUpdates
<1>2. DOMAIN x = {"kind", "pc", "engine", "at", "match", "pipe", "sent", "ing",
                 "cur", "pairs", "stored"}
  BY RunUpdates
<1> QED
  BY ONLY <1>1, <1>2

LEMMA EmitInfoKeeps ==
  ASSUME RunsOK, diffs \in Seq(DiffType), clock \in Nat, NEW r \in Runs, EmitInfo(r)
  PROVE  RunsOK'
<1> DEFINE x == run[r]
           y == Goto(r, "setup")
           e == [kind |-> "info"]
<1>1. x \in RunType /\ RunOK(x, r, diffs, metrics, failures, clock)
  BY RunFacts
<1>2. x.engine = "info" /\ clock' = clock /\ Emit(r, e, y)
  BY DEF EmitInfo
<1>3. /\ y \in RunType /\ y.engine = "setup" /\ y.at = x.at /\ y.match = x.match
      /\ y.kind = x.kind /\ y.pc = x.pc /\ y.pipe = x.pipe /\ y.sent = x.sent
      /\ y.ing = x.ing /\ y.cur = x.cur /\ y.pairs = x.pairs
      /\ y.stored = x.stored
  BY <1>1, GotoFacts DEF Goto
<1>4. e \in EventType /\ e.kind = "info"
  BY DEF EventType
<1> HIDE DEF y, e
<1>5. EmitStep(x, y, e, clock')
  BY <1>2, <1>3, <1>4 DEF EmitStep, EventOK, Worked, Emitted, Failing
<1> QED
  BY <1>2, <1>3, <1>4, <1>5, EmitKeeps

LEMMA EmitStartedKeeps ==
  ASSUME RunsOK, diffs \in Seq(DiffType), clock \in Nat, NEW r \in Runs, EmitStarted(r)
  PROVE  RunsOK'
<1> DEFINE x == run[r]
           y == Goto(r, "work")
           e == [kind |-> "started"]
<1>1. x \in RunType /\ RunOK(x, r, diffs, metrics, failures, clock)
  BY RunFacts
<1>2. x.engine = "setup" /\ clock' = clock /\ Emit(r, e, y)
  BY DEF EmitStarted
<1>3. /\ y \in RunType /\ y.engine = "work" /\ y.at = x.at /\ y.match = x.match
      /\ y.kind = x.kind /\ y.pc = x.pc /\ y.pipe = x.pipe /\ y.sent = x.sent
      /\ y.ing = x.ing /\ y.cur = x.cur /\ y.pairs = x.pairs
      /\ y.stored = x.stored
  BY <1>1, GotoFacts DEF Goto
<1>4. e \in EventType /\ e.kind = "started"
  BY DEF EventType
<1> HIDE DEF y, e
<1>5. EmitStep(x, y, e, clock')
  BY <1>2, <1>3, <1>4 DEF EmitStep, EventOK, Worked, Emitted, Failing
<1> QED
  BY <1>2, <1>3, <1>4, <1>5, EmitKeeps

LEMMA EmitFailedKeeps ==
  ASSUME RunsOK, diffs \in Seq(DiffType), clock \in Nat, NEW r \in Runs, EmitFailed(r)
  PROVE  RunsOK'
<1> DEFINE x == run[r]
           y == Goto(r, "exit1")
           e == [kind |-> "failed"]
<1>1. x \in RunType /\ RunOK(x, r, diffs, metrics, failures, clock)
  BY RunFacts
<1>2. x.engine = "failing" /\ clock' = clock /\ Emit(r, e, y)
  BY DEF EmitFailed
<1>3. /\ y \in RunType /\ y.engine = "exit1" /\ y.at = x.at /\ y.match = x.match
      /\ y.kind = x.kind /\ y.pc = x.pc /\ y.pipe = x.pipe /\ y.sent = x.sent
      /\ y.ing = x.ing /\ y.cur = x.cur /\ y.pairs = x.pairs
      /\ y.stored = x.stored
  BY <1>1, GotoFacts DEF Goto
<1>4. e \in EventType /\ e.kind = "failed"
  BY DEF EventType
<1>5. x.kind = "sync"
  BY <1>1, <1>2 DEF RunOK, ControlOK
<1> HIDE DEF y, e
<1>6. EmitStep(x, y, e, clock')
  BY <1>2, <1>3, <1>4, <1>5 DEF EmitStep, EventOK, Failing
<1> QED
  BY <1>2, <1>3, <1>4, <1>6, EmitKeeps

\* The checksum the process emits is the one it has computed.
LEMMA ChecksumFacts ==
  ASSUME RunsOK, NEW r \in Runs, NEW side \in Sides
  PROVE  /\ Checksum(r, side) \in EventType
         /\ Checksum(r, side).kind = "checksum" /\ Checksum(r, side).stream = run[r].at
         /\ Checksum(r, side).side = side
         /\ Checksum(r, side).digest = Digest(run[r], run[r].at, side)
<1>1. run[r] \in RunType /\ run[r].at \in Streams
  BY RunFacts DEF RunType
<1>2. Digest(run[r], run[r].at, side) \in Nat \ {0}
  <2>1. \A m, n \in Nat \ {0} : m + n \in Nat \ {0}
    OBVIOUS
  <2>2. run[r].at \in Nat \ {0} /\ NumStreams \in Nat \ {0}
    BY <1>1, StreamFacts
  <2>3. NumStreams + run[r].at \in Nat \ {0}
    BY <2>1, <2>2
  <2> QED
    BY ONLY <2>2, <2>3 DEF Digest
<1>3. Checksum(r, side) = [kind |-> "checksum", stream |-> run[r].at, side |-> side,
                           digest |-> Digest(run[r], run[r].at, side)]
  BY DEF Checksum, Digest
<1> QED
  BY <1>1, <1>2, <1>3 DEF EventType

LEMMA EmitSourceKeeps ==
  ASSUME RunsOK, diffs \in Seq(DiffType), clock \in Nat, NEW r \in Runs, EmitSource(r)
  PROVE  RunsOK'
<1> DEFINE x == run[r]
           y == Goto(r, "destination")
           e == Checksum(r, "source")
<1>1. x \in RunType /\ RunOK(x, r, diffs, metrics, failures, clock)
  BY RunFacts
<1>2. x.engine = "source" /\ clock' = clock /\ Emit(r, e, y)
  BY DEF EmitSource
<1>3. /\ y \in RunType /\ y.engine = "destination" /\ y.at = x.at /\ y.match = x.match
      /\ y.kind = x.kind /\ y.pc = x.pc /\ y.pipe = x.pipe /\ y.sent = x.sent
      /\ y.ing = x.ing /\ y.cur = x.cur /\ y.pairs = x.pairs
      /\ y.stored = x.stored
  BY <1>1, GotoFacts DEF Goto
<1>4. /\ e \in EventType /\ e.kind = "checksum" /\ e.stream = x.at /\ e.side = "source"
      /\ e.digest = Digest(x, x.at, "source")
  BY ChecksumFacts DEF Sides
<1> HIDE DEF y, e
<1>5. EventOK(y, e)
  BY <1>3, <1>4 DEF EventOK, Worked, Digest
<1>6. EmitStep(x, y, e, clock')
  BY <1>2, <1>3, <1>4, <1>5 DEF EmitStep, Worked, Emitted, Failing
<1> QED
  BY <1>2, <1>3, <1>4, <1>6, EmitKeeps

LEMMA EmitDestinationKeeps ==
  ASSUME RunsOK, diffs \in Seq(DiffType), clock \in Nat, NEW r \in Runs, EmitDestination(r)
  PROVE  RunsOK'
<1> DEFINE x == run[r]
           y == IF LastStream(r) THEN Goto(r, "finish")
                ELSE [Goto(r, "work") EXCEPT !.at = @ + 1]
           e == Checksum(r, "destination")
           last == LastStream(r)
<1>1. x \in RunType /\ RunOK(x, r, diffs, metrics, failures, clock) /\ x.at \in Streams
  BY RunFacts DEF RunType
<1>2. x.engine = "destination" /\ clock' = clock /\ Emit(r, e, y)
  BY DEF EmitDestination
<1>3. /\ y \in RunType /\ y.match = x.match
      /\ \/ /\ y.engine = "finish" /\ y.at = x.at
            /\ x.kind = "backfill" \/ x.at = NumStreams
         \/ y.engine = "work" /\ y.at = x.at + 1
      /\ y.kind = x.kind /\ y.pc = x.pc /\ y.pipe = x.pipe /\ y.sent = x.sent
      /\ y.ing = x.ing /\ y.cur = x.cur /\ y.pairs = x.pairs
      /\ y.stored = x.stored
  <2>1. CASE last
    <3> DEFINE z == Goto(r, "finish")
    <3>1. /\ z \in RunType /\ z.engine = "finish" /\ z.at = x.at /\ z.match = x.match
          /\ z.kind = x.kind /\ z.pc = x.pc /\ z.pipe = x.pipe /\ z.sent = x.sent
          /\ z.ing = x.ing /\ z.cur = x.cur /\ z.pairs = x.pairs
          /\ z.stored = x.stored
      BY <1>1, GotoFacts DEF Goto
    <3>2. y = z
      BY <2>1
    <3>3. x.kind = "backfill" \/ x.at = NumStreams
      BY <2>1 DEF LastStream
    <3> HIDE DEF z, y
    <3> QED
      BY <3>1, <3>2, <3>3
  <2>2. CASE ~ last
    <3> DEFINE z == Goto(r, "work")
    <3>1. /\ z \in RunType /\ z.engine = "work" /\ z.at = x.at /\ z.match = x.match
          /\ z.kind = x.kind /\ z.pc = x.pc /\ z.pipe = x.pipe /\ z.sent = x.sent
          /\ z.ing = x.ing /\ z.cur = x.cur /\ z.pairs = x.pairs
          /\ z.stored = x.stored
      BY <1>1, GotoFacts DEF Goto
    <3>2. y = [z EXCEPT !.at = @ + 1]
      BY <2>2
    <3> HIDE DEF z, y
    <3>3. x.at + 1 \in Streams
      BY <1>1, <2>2, StreamFacts DEF LastStream, Streams
    <3>4. y = [z EXCEPT !.at = x.at + 1]
      BY <3>1, <3>2
    <3> QED
      BY <2>2, <3>1, <3>3, <3>4 DEF RunType
  <2> QED
    BY <2>1, <2>2
<1>4. /\ e \in EventType /\ e.kind = "checksum" /\ e.stream = x.at /\ e.side = "destination"
      /\ e.digest = Digest(x, x.at, "destination")
  BY ChecksumFacts DEF Sides
<1>5. \A s \in Streams : s \in Nat
  BY StreamFacts
<1> HIDE DEF y, e, last
<1>6. EventOK(y, e)
  BY <1>1, <1>3, <1>4, <1>5 DEF EventOK, Worked, Digest
<1>7. \A s \in Streams : Worked(x, s) => Worked(y, s)
  BY <1>1, <1>2, <1>3, <1>5 DEF Worked
<1>8. \A s \in Streams, side \in Sides :
         Emitted(y, s, side) => Emitted(x, s, side) \/ (e.stream = s /\ e.side = side)
  BY <1>1, <1>2, <1>3, <1>4, <1>5 DEF Emitted, Sides
<1>9. EmitStep(x, y, e, clock')
  BY <1>2, <1>3, <1>4, <1>6, <1>7, <1>8 DEF EmitStep, Failing
<1> QED
  BY <1>2, <1>3, <1>4, <1>9, EmitKeeps

LEMMA EmitFinishedKeeps ==
  ASSUME RunsOK, diffs \in Seq(DiffType), clock \in Nat, NEW r \in Runs, EmitFinished(r)
  PROVE  RunsOK'
<1> DEFINE x == run[r]
           y == Goto(r, "exit0")
           e == [kind |-> "finished", ts |-> clock + 1]
<1>1. x \in RunType /\ RunOK(x, r, diffs, metrics, failures, clock)
  BY RunFacts
<1>2. x.engine = "finish" /\ x.kind = "sync" /\ clock' = clock + 1 /\ Emit(r, e, y)
  BY DEF EmitFinished
<1>3. /\ y \in RunType /\ y.engine = "exit0" /\ y.at = x.at /\ y.match = x.match
      /\ y.kind = x.kind /\ y.pc = x.pc /\ y.pipe = x.pipe /\ y.sent = x.sent
      /\ y.ing = x.ing /\ y.cur = x.cur /\ y.pairs = x.pairs
      /\ y.stored = x.stored
  BY <1>1, GotoFacts DEF Goto
<1>4. e \in EventType /\ e.kind = "finished" /\ e.ts <= clock'
  BY <1>2 DEF EventType
<1>5. x.at = NumStreams
  BY <1>1, <1>2 DEF RunOK, ControlOK
<1> HIDE DEF y, e
<1>6. EmitStep(x, y, e, clock')
  BY <1>2, <1>3, <1>4, <1>5 DEF EmitStep, EventOK, Worked, Emitted, Failing
<1>7. clock' \in Nat /\ clock <= clock'
  BY <1>2
<1> QED
  BY <1>2, <1>3, <1>4, <1>6, <1>7, EmitKeeps

LEMMA EmitVerifiedKeeps ==
  ASSUME RunsOK, diffs \in Seq(DiffType), clock \in Nat, NEW r \in Runs, EmitVerified(r)
  PROVE  RunsOK'
<1>1. PICK same \in BOOLEAN :
        /\ clock' = clock
        /\ Emit(r, [kind |-> "verified", match |-> same],
                IF same THEN Goto(r, "exit0") ELSE Failed(r, "exit1"))
  BY DEF EmitVerified
<1> DEFINE x == run[r]
           y == IF same THEN Goto(r, "exit0") ELSE Failed(r, "exit1")
           e == [kind |-> "verified", match |-> same]
<1>2. x \in RunType /\ RunOK(x, r, diffs, metrics, failures, clock)
  BY RunFacts
<1>3. x.engine = "finish" /\ x.kind = "backfill"
  BY DEF EmitVerified
<1>4. /\ y \in RunType
      /\ \/ y.engine = "exit0" /\ y.at = x.at /\ y.match = x.match
         \/ y.engine = "exit1"
      /\ y.kind = x.kind /\ y.pc = x.pc /\ y.pipe = x.pipe /\ y.sent = x.sent
      /\ y.ing = x.ing /\ y.cur = x.cur /\ y.pairs = x.pairs
      /\ y.stored = x.stored
  <2>1. CASE same
    <3> DEFINE z == Goto(r, "exit0")
    <3>1. /\ z \in RunType /\ z.engine = "exit0" /\ z.at = x.at /\ z.match = x.match
          /\ z.kind = x.kind /\ z.pc = x.pc /\ z.pipe = x.pipe /\ z.sent = x.sent
          /\ z.ing = x.ing /\ z.cur = x.cur /\ z.pairs = x.pairs
          /\ z.stored = x.stored
      BY <1>2, GotoFacts DEF Goto
    <3>2. y = z
      BY <2>1
    <3> HIDE DEF z, y
    <3> QED
      BY <3>1, <3>2
  <2>2. CASE ~ same
    <3> DEFINE z == Failed(r, "exit1")
    <3>1. "exit1" \in Failing
      BY DEF Failing
    <3>2. /\ z \in RunType /\ z.engine = "exit1"
          /\ z.kind = x.kind /\ z.pc = x.pc /\ z.pipe = x.pipe /\ z.sent = x.sent
          /\ z.ing = x.ing /\ z.cur = x.cur /\ z.pairs = x.pairs
          /\ z.stored = x.stored
      BY <3>1, FailedFacts
    <3>3. y = z
      BY <2>2
    <3> HIDE DEF z, y
    <3> QED
      BY <3>2, <3>3
  <2> QED
    BY <2>1, <2>2
<1>5. e \in EventType /\ e.kind = "verified"
  BY DEF EventType
<1>6. Emit(r, e, y)
  BY <1>1
<1> HIDE DEF y, e
<1>7. EmitStep(x, y, e, clock')
  BY <1>3, <1>4, <1>5 DEF EmitStep, EventOK, Worked, Emitted, Failing
<1> QED
  BY <1>1, <1>4, <1>5, <1>6, <1>7, EmitKeeps

\* A stream is read, written and closed: nothing has been said of it yet.
LEMMA WorkStreamKeeps ==
  ASSUME RunsOK, diffs \in Seq(DiffType), clock \in Nat, NEW r \in Runs, WorkStream(r)
  PROVE  RunsOK'
<1>1. PICK same \in BOOLEAN :
        run' = [run EXCEPT ![r].engine = "source", ![r].match[run[r].at] = same]
  BY DEF WorkStream
<1> DEFINE x == run[r]
           match == [run[r].match EXCEPT ![run[r].at] = same]
           y == [run[r] EXCEPT !.engine = "source", !.match = match]
<1>2. /\ x \in RunType /\ RunOK(x, r, diffs, metrics, failures, clock)
      /\ x.at \in Streams /\ x.match \in [Streams -> BOOLEAN]
  BY RunFacts DEF RunType
<1>3. x.engine = "work" /\ UNCHANGED <<tables, clock>>
  BY DEF WorkStream
<1>4. run' = [run EXCEPT ![r] = y]
  <2>1. x.match = run[r].match /\ r \in DOMAIN run
    BY RunFacts
  <2> QED
    BY <1>1, <1>2, <2>1 DEF RunType
<1>5. /\ match \in [Streams -> BOOLEAN]
      /\ \A s \in Streams : s # x.at => match[s] = x.match[s]
  BY <1>2
<1> HIDE DEF match
<1>6. /\ y \in RunType /\ y.engine = "source" /\ y.at = x.at /\ y.match = match
      /\ y.kind = x.kind /\ y.pc = x.pc /\ y.pipe = x.pipe /\ y.sent = x.sent
      /\ y.ing = x.ing /\ y.cur = x.cur /\ y.pairs = x.pairs
      /\ y.stored = x.stored
  BY <1>2, <1>5 DEF RunType
<1> HIDE DEF x, y
<1>7. \A s \in Streams : Worked(x, s) => s # x.at
  <2>1. x.at \in Nat
    BY <1>2, StreamFacts
  <2>2. ~ (x.at < x.at)
    BY <2>1
  <2> QED
    BY <1>3, <2>2 DEF Worked
<1>8. \A s \in Streams : Worked(x, s) => Worked(y, s) /\ y.match[s] = x.match[s]
  BY <1>5, <1>6, <1>7 DEF Worked
<1>9. ControlOK(y)
  BY <1>2, <1>3, <1>6 DEF RunOK, ControlOK, Gone
<1>10. \A f \in EventType : EventOK(x, f) => EventOK(y, f) /\ f.kind # "finished"
  BY <1>3, <1>6, <1>8, EventKinds DEF EventOK, Digest, Failing
<1>11. PipeOK(y, clock)
  <2>1. /\ PipeOK(x, clock) /\ x.cur \in EventType \cup {NoEvent}
        /\ \A i \in 1 .. Len(x.pipe) : x.pipe[i] \in EventType
    BY <1>2, ElementOfSeq DEF RunOK, RunType
  <2>2. x.cur.kind # "finished"
    BY <1>10, <2>1, NoEventIsNone DEF PipeOK
  <2> QED
    BY <1>6, <1>10, <2>1, <2>2 DEF PipeOK
<1>12. CountOK(y)
  BY <1>2, <1>3, <1>6 DEF RunOK, CountOK
<1>13. PairsOK(y)
  BY <1>2, <1>3, <1>6, <1>8 DEF RunOK, PairsOK, Digest, Failing
<1>14. DiffsOK(y, r, diffs)
  <2>1. \A i \in 1 .. Len(diffs) : diffs[i].stream \in Streams
    <3> TAKE i \in 1 .. Len(diffs)
    <3>1. diffs[i] \in DiffType
      BY ElementOfSeq
    <3> QED
      BY <3>1 DEF DiffType
  <2> QED
    BY <1>2, <1>3, <1>6, <1>8, <2>1 DEF RunOK, DiffsOK, Failing
<1>15. ChecksumsKept(y, r, diffs)
  BY <1>2, <1>3, <1>6 DEF RunOK, ChecksumsKept, Following, Emitted, Kept, AtHand, Failing
<1>16. MetricOK(y, r, diffs, metrics, clock) /\ FailureOK(y, r, failures)
  BY <1>2, <1>3, <1>6 DEF RunOK, MetricOK, FailureOK, Following
<1>17. RunOK(y, r, diffs, metrics, failures, clock)
  BY <1>6, <1>9, <1>11, <1>12, <1>13, <1>14, <1>15, <1>16 DEF RunOK
<1> QED
  BY <1>3, <1>4, <1>17, RunChanges

\* The process fails without another event, or goes on to report it.
LEMMA FailKeeps ==
  ASSUME RunsOK, clock \in Nat, NEW r \in Runs,
         FailSetup(r) \/ FailStream(r) \/ FailVerify(r)
  PROVE  RunsOK'
<1> DEFINE x == run[r]
<1>1. ASSUME NEW code \in Failing, x.engine \notin Gone \cup {"off"},
             code = "failing" => x.kind = "sync",
             code = "exit1" /\ x.kind = "sync" => x.engine = "setup",
             run' = [run EXCEPT ![r] = Failed(r, code)], UNCHANGED <<tables, clock>>
      PROVE  RunsOK'
  <2> DEFINE y == Failed(r, code)
  <2>1. RunOK(y, r, diffs, metrics, failures, clock)
    BY <1>1, FailedKeeps
  <2>2. run' = [run EXCEPT ![r] = y]
    BY <1>1
  <2> HIDE DEF y
  <2> QED
    BY <1>1, <2>1, <2>2, RunChanges
<1>2. "exit1" \in Failing /\ "failing" \in Failing
  BY DEF Failing
<1>3. CASE FailSetup(r)
  BY <1>1, <1>2, <1>3 DEF FailSetup, Gone
<1>4. CASE FailStream(r)
  <2>1. CASE x.kind = "sync"
    BY <1>1, <1>2, <1>4, <2>1 DEF FailStream, Gone
  <2>2. CASE x.kind # "sync"
    BY <1>1, <1>2, <1>4, <2>2 DEF FailStream, Gone
  <2> QED
    BY <2>1, <2>2
<1>5. CASE FailVerify(r)
  BY <1>1, <1>2, <1>5 DEF FailVerify, Gone
<1> QED
  BY <1>3, <1>4, <1>5

LEMMA KillKeeps ==
  ASSUME RunsOK, clock \in Nat, NEW r \in Runs, Kill(r)
  PROVE  RunsOK'
<1>1. PICK part \in {<<>>, <<[kind |-> "torn"]>>} :
        /\ part # <<>> => run[r].pc = "running" /\ run[r].ing # "failed"
                          /\ Len(run[r].pipe) < PipeCap
        /\ run' = [run EXCEPT ![r] = [Failed(r, "killed") EXCEPT !.pipe = @ \o part]]
  BY DEF Kill
<1> DEFINE x == run[r]
           z == Failed(r, "killed")
           y == [z EXCEPT !.pipe = @ \o part]
<1>2. x.engine \notin Gone \cup {"off"} /\ UNCHANGED <<tables, clock>>
  BY DEF Kill
<1>3. RunOK(z, r, diffs, metrics, failures, clock) /\ z \in RunType /\ z.pipe \in Seq(EventType)
  <2>1. RunOK(z, r, diffs, metrics, failures, clock)
    BY <1>2, FailedKeeps DEF Failing
  <2> QED
    BY <2>1 DEF RunOK, RunType
<1>4. /\ z.engine = "killed" /\ z.pc = x.pc /\ z.ing = x.ing /\ z.pipe = x.pipe
  BY FailedFacts DEF Failing
<1>5. run' = [run EXCEPT ![r] = y]
  BY <1>1
<1>6. x.ing # "eof"
  BY <1>2, RunFacts DEF RunOK, ControlOK
<1>7. CASE part = <<>>
  <2>1. z.pipe \o part = z.pipe
    BY <1>3, <1>7, ConcatEmptySeq
  <2>2. y = z
    BY <1>3, <2>1 DEF RunType
  <2> HIDE DEF y, z
  <2> QED
    BY <1>2, <1>3, <1>5, <2>2, RunChanges
<1>8. CASE part = <<[kind |-> "torn"]>>
  <2>1. part # <<>>
    BY <1>8
  <2>2. y = [z EXCEPT !.pipe = Append(@, [kind |-> "torn"])]
    <3>1. [kind |-> "torn"] \in EventType
      BY DEF EventType
    <3>2. z.pipe \o part = Append(z.pipe, [kind |-> "torn"])
      BY <1>3, <1>8, <3>1, AppendIsConcat
    <3> QED
      BY <3>2
  <2> HIDE DEF z, y
  <2>3. RunOK(y, r, diffs, metrics, failures, clock)
    BY <1>1, <1>3, <1>4, <1>6, <2>1, <2>2, TornOK
  <2> QED
    BY <1>2, <1>5, <2>3, RunChanges
<1> QED
  BY <1>1, <1>7, <1>8

-----------------------------------------------------------------------------
(* The control plane restarts.                                             *)

LEMMA LostOK ==
  ASSUME NEW r, NEW D, NEW M, NEW F, NEW c \in Nat,
         NEW x, RunOK(x, r, D, M, F, c), x.pc \in {"prepare", "running"},
         NEW y \in RunType, y.pc = "lost", y.ing = "off", y.sent = 0, y.stored = 0,
         y.pipe = <<>>, y.cur = NoEvent, y.pairs = [s \in Streams |-> Unpaired],
         y.kind = x.kind, y.engine = x.engine, y.at = x.at, y.match = x.match
  PROVE  RunOK(y, r, D, M, F, c)
<1>1. ControlOK(y)
  BY DEF RunOK, ControlOK
<1>2. PipeOK(y, c)
  BY PipeEmpty, NoEventIsNone, StreamFacts DEF PipeOK
<1>3. CountOK(y)
  BY PipeEmpty DEF CountOK
<1>4. PairsOK(y)
  BY DEF PairsOK, Unpaired, Sides
<1>5. DiffsOK(y, r, D)
  BY DEF RunOK, DiffsOK, Worked
<1>6. ChecksumsKept(y, r, D)
  BY DEF ChecksumsKept, Following
<1>7. MetricOK(y, r, D, M, c) /\ FailureOK(y, r, F)
  BY DEF RunOK, MetricOK, FailureOK, Following
<1> QED
  BY <1>1, <1>2, <1>3, <1>4, <1>5, <1>6, <1>7 DEF RunOK

LEMMA DroppedFacts ==
  ASSUME RunsOK, NEW r \in Runs
  PROVE  LET x == run[r]
             y == Dropped(r)
         IN  /\ y \in RunType /\ y.pipe = <<>> /\ y.cur = NoEvent
             /\ y.pairs = [s \in Streams |-> Unpaired]
             /\ y.kind = x.kind /\ y.pc = x.pc /\ y.engine = x.engine /\ y.at = x.at
             /\ y.match = x.match /\ y.sent = x.sent /\ y.ing = x.ing
             /\ y.stored = x.stored
<1> DEFINE x == run[r]
           y == Dropped(r)
           none == [s \in Streams |-> Unpaired]
           nothing == <<>>
<1>1. x \in RunType
  BY RunFacts
<1>2. y = [x EXCEPT !.pipe = nothing, !.cur = NoEvent, !.pairs = none]
  BY DEF Dropped
<1>3. /\ nothing \in Seq(EventType) /\ none \in [Streams -> [Sides -> Nat]]
      /\ NoEvent \in EventType \cup {NoEvent}
  BY EmptySeq DEF Unpaired, Sides
<1> HIDE DEF x, y, none, nothing
<1>4. /\ y \in RunType /\ y.pipe = nothing /\ y.cur = NoEvent /\ y.pairs = none
      /\ y.kind = x.kind /\ y.pc = x.pc /\ y.engine = x.engine /\ y.at = x.at
      /\ y.match = x.match /\ y.sent = x.sent /\ y.ing = x.ing
      /\ y.stored = x.stored
  BY <1>1, <1>2, <1>3 DEF RunType
<1> QED
  BY <1>4 DEF x, y, none, nothing

LEMMA RestartKeeps ==
  ASSUME RunsOK, clock \in Nat, Restart
  PROVE  RunsOK'
<1>1. /\ diffs' = diffs /\ metrics' = metrics /\ failures' = failures /\ clock' = clock
      /\ run' = [r \in Runs |->
                 IF run[r].pc \in {"prepare", "running"}
                 THEN [Dropped(r) EXCEPT !.pc = "lost", !.ing = "off", !.sent = 0,
                                         !.stored = 0]
                 ELSE run[r]]
  BY DEF Restart, tables
<1>2. ASSUME NEW r \in Runs
      PROVE  RunOK(run'[r], r, diffs, metrics, failures, clock)
  <2> DEFINE x == run[r]
             z == Dropped(r)
             y == [z EXCEPT !.pc = "lost", !.ing = "off", !.sent = 0, !.stored = 0]
  <2>1. RunOK(x, r, diffs, metrics, failures, clock)
    BY RunFacts
  <2>2. CASE x.pc \in {"prepare", "running"}
    <3>1. run'[r] = y
      BY <1>1, <2>2
    <3>2. /\ z \in RunType /\ z.pipe = <<>> /\ z.cur = NoEvent
          /\ z.pairs = [s \in Streams |-> Unpaired]
          /\ z.kind = x.kind /\ z.pc = x.pc /\ z.engine = x.engine /\ z.at = x.at
          /\ z.match = x.match /\ z.sent = x.sent /\ z.ing = x.ing
          /\ z.stored = x.stored
      BY DroppedFacts
    <3> HIDE DEF z
    <3>3. /\ y \in RunType /\ y.pc = "lost" /\ y.ing = "off" /\ y.sent = 0 /\ y.stored = 0
          /\ y.pipe = z.pipe /\ y.cur = z.cur /\ y.pairs = z.pairs
          /\ y.kind = z.kind /\ y.engine = z.engine /\ y.at = z.at
          /\ y.match = z.match
      BY <3>2 DEF RunType
    <3> HIDE DEF x, y
    <3>4. RunOK(y, r, diffs, metrics, failures, clock)
      BY <2>1, <2>2, <3>2, <3>3, LostOK
    <3> QED
      BY <3>1, <3>4
  <2>3. CASE x.pc \notin {"prepare", "running"}
    BY <1>1, <2>1, <2>3
  <2> QED
    BY <2>2, <2>3
<1>3. run' = [r \in Runs |-> run'[r]]
  BY <1>1
<1> QED
  BY <1>1, <1>2, <1>3 DEF RunsOK

-----------------------------------------------------------------------------
(* The ingester.                                                           *)

\* The ingester goes from one step to the next, with its event or without one.
LEMMA IngestOK ==
  ASSUME NEW r, NEW D, NEW M, NEW F, NEW F1, NEW c \in Nat,
         NEW x, RunOK(x, r, D, M, F, c), NEW y \in RunType, ControlOK(y),
         y.kind = x.kind, y.pc = x.pc, y.engine = x.engine, y.at = x.at, y.match = x.match,
         y.pipe = x.pipe, y.sent = x.sent, y.pairs = x.pairs, y.stored = x.stored,
         x.ing # "failed", y.ing \notin {"failed", "derive", "mark"},
         y.cur = x.cur \/ y.cur = NoEvent,
         x.ing = "derive" => x.cur.kind \notin {"checksum", "finished"},
         x.cur.kind = "failed" /\ y.cur = NoEvent => r \in F1,
         r \in F => r \in F1, r \in F1 => r \in F \/ x.cur.kind = "failed"
  PROVE  RunOK(y, r, D, M, F1, c)
<1>1. \A f : EventOK(x, f) <=> EventOK(y, f)
  BY DEF EventOK, Worked, Digest
<1>2. PipeOK(y, c)
  BY <1>1, NoEventIsNone DEF RunOK, PipeOK
<1>3. CountOK(y) /\ PairsOK(y) /\ DiffsOK(y, r, D)
  BY DEF RunOK, CountOK, PairsOK, DiffsOK, Worked, Digest
<1>4. ChecksumsKept(y, r, D)
  BY DEF RunOK, ChecksumsKept, Following, Emitted, Kept, AtHand
<1>5. MetricOK(y, r, D, M, c)
  <2>1. x.cur.kind = "finished" => r \in DOMAIN M
    <3>1. x.cur.kind = "finished" => x.ing \in {"mark", "process"}
      BY NoEventIsNone DEF RunOK, RunType, ControlOK
    <3> QED
      BY <3>1 DEF RunOK, MetricOK
  <2>2. y.ing \in {"mark", "process"} /\ y.cur.kind = "finished" =>
           r \in DOMAIN M /\ M[r] = y.cur.ts
    <3>1. x.cur.kind = "finished" => M[r] = x.cur.ts
      <4>1. x.cur.kind = "finished" => x.ing \in {"mark", "process"}
        BY NoEventIsNone DEF RunOK, RunType, ControlOK
      <4> QED
        BY <4>1 DEF RunOK, MetricOK
    <3> QED
      BY <2>1, <3>1, NoEventIsNone
  <2>3. MetricOK(x, r, D, M, c)
    BY DEF RunOK
  <2> QED
    BY <2>1, <2>2, <2>3 DEF MetricOK, Following
<1>6. FailureOK(y, r, F1)
  <2>1. x.cur.kind = "failed" => x.engine = "exit1"
    BY NoEventIsNone DEF RunOK, PipeOK, EventOK
  <2>2. FailureOK(x, r, F)
    BY DEF RunOK
  <2> QED
    BY <2>1, <2>2 DEF FailureOK, Following
<1> QED
  BY <1>2, <1>3, <1>4, <1>5, <1>6 DEF RunOK

LEMMA EndOfEventsKeeps ==
  ASSUME RunsOK, clock \in Nat, NEW r \in Runs, EndOfEvents(r)
  PROVE  RunsOK'
<1> DEFINE x == run[r]
           y == [run[r] EXCEPT !.ing = "eof"]
<1>1. x \in RunType /\ RunOK(x, r, diffs, metrics, failures, clock) /\ DOMAIN run = Runs
  BY RunFacts
<1>2. /\ run' = [run EXCEPT ![r] = y] /\ UNCHANGED <<tables, clock>>
      /\ x.ing = "read" /\ x.pipe = <<>> /\ x.engine \in Gone
  BY <1>1, Zenon DEF EndOfEvents
<1>3. /\ y \in RunType /\ y.ing = "eof" /\ y.engine = x.engine /\ y.pc = x.pc
      /\ y.kind = x.kind /\ y.at = x.at /\ y.match = x.match /\ y.pipe = x.pipe
      /\ y.sent = x.sent /\ y.cur = x.cur /\ y.pairs = x.pairs /\ y.stored = x.stored
  BY <1>1 DEF RunType
<1> HIDE DEF x, y
<1>4. ControlOK(y)
  BY <1>1, <1>2, <1>3 DEF RunOK, ControlOK
<1>5. x.cur = NoEvent
  BY <1>1, <1>2 DEF RunOK, ControlOK
<1>6. RunOK(y, r, diffs, metrics, failures, clock)
  BY <1>1, <1>2, <1>3, <1>4, <1>5, IngestOK, NoEventIsNone
<1> QED
  BY <1>2, <1>6, RunChanges

LEMMA MarkSyncedKeeps ==
  ASSUME RunsOK, clock \in Nat, NEW r \in Runs, MarkSynced(r)
  PROVE  RunsOK' /\ clock' = clock /\ metrics' = metrics
         /\ r \in DOMAIN metrics /\ last_sync' = metrics[r]
         /\ metrics[r] \in Nat /\ metrics[r] <= clock
<1> DEFINE x == run[r]
           y == [run[r] EXCEPT !.ing = "process"]
<1>1. x \in RunType /\ RunOK(x, r, diffs, metrics, failures, clock) /\ DOMAIN run = Runs
  BY RunFacts
<1>2. /\ run' = [run EXCEPT ![r] = y] /\ diffs' = diffs /\ metrics' = metrics
      /\ failures' = failures /\ clock' = clock
      /\ x.ing = "mark" /\ last_sync' = x.cur.ts
  BY <1>1, Zenon DEF MarkSynced
<1>3. /\ y \in RunType /\ y.ing = "process" /\ y.engine = x.engine /\ y.pc = x.pc
     
      /\ y.kind = x.kind /\ y.at = x.at /\ y.match = x.match /\ y.pipe = x.pipe
      /\ y.sent = x.sent /\ y.cur = x.cur /\ y.pairs = x.pairs /\ y.stored = x.stored
  BY <1>1 DEF RunType
<1> HIDE DEF x, y
<1>4. ControlOK(y)
  BY <1>1, <1>2, <1>3 DEF RunOK, ControlOK
<1>5. x.cur # NoEvent /\ x.cur.kind = "finished"
  BY <1>1, <1>2 DEF RunOK, ControlOK
<1>6. RunOK(y, r, diffs, metrics, failures, clock)
  BY <1>1, <1>2, <1>3, <1>4, <1>5, IngestOK
<1>7. OthersKeep(r, diffs, metrics, failures, clock, diffs', metrics', failures', clock')
  BY <1>2, SameTables
<1>8. RunOK(y, r, diffs', metrics', failures', clock')
  BY <1>2, <1>6
<1>9. /\ r \in DOMAIN metrics /\ metrics[r] = x.cur.ts
      /\ metrics[r] \in Nat /\ metrics[r] <= clock
  BY <1>1, <1>2, <1>5 DEF RunOK, MetricOK
<1>10. RunsOK'
  BY <1>2, <1>7, <1>8, OneRunMoves
<1> QED
  BY <1>2, <1>9, <1>10

LEMMA ProcessKeeps ==
  ASSUME RunsOK, clock \in Nat, NEW r \in Runs, Process(r)
  PROVE  RunsOK'
<1> DEFINE x == run[r]
           y == [run[r] EXCEPT !.ing = "read", !.cur = NoEvent]
<1>1. x \in RunType /\ RunOK(x, r, diffs, metrics, failures, clock) /\ DOMAIN run = Runs
  BY RunFacts
<1>2. /\ run' = [run EXCEPT ![r] = y] /\ diffs' = diffs /\ metrics' = metrics
      /\ clock' = clock /\ x.ing = "process"
      /\ failures' = IF x.cur.kind = "failed" THEN failures \cup {r} ELSE failures
  BY <1>1, Zenon DEF Process
<1>3. /\ y \in RunType /\ y.ing = "read" /\ y.cur = NoEvent
      /\ y.engine = x.engine /\ y.pc = x.pc
      /\ y.kind = x.kind /\ y.at = x.at /\ y.match = x.match /\ y.pipe = x.pipe
      /\ y.sent = x.sent /\ y.pairs = x.pairs /\ y.stored = x.stored
  BY <1>1 DEF RunType
<1> HIDE DEF x, y
<1>4. ControlOK(y)
  BY <1>1, <1>2, <1>3 DEF RunOK, ControlOK
<1>5. /\ x.cur.kind = "failed" => r \in failures'
      /\ r \in failures => r \in failures'
      /\ r \in failures' => r \in failures \/ x.cur.kind = "failed"
      /\ \A q \in Runs \ {r} : q \in failures' <=> q \in failures
  BY <1>2
<1>6. RunOK(y, r, diffs, metrics, failures', clock)
  BY <1>1, <1>2, <1>3, <1>4, <1>5, IngestOK
<1>7. OthersKeep(r, diffs, metrics, failures, clock, diffs', metrics', failures', clock')
  BY <1>2, <1>5 DEF OthersKeep
<1>8. RunOK(y, r, diffs', metrics', failures', clock')
  BY <1>2, <1>6
<1> QED
  BY <1>2, <1>7, <1>8, OneRunMoves

\* The ingester gives up: what it holds is gone, and so is the claim to have it all.
LEMMA FailIngestKeeps ==
  ASSUME RunsOK, clock \in Nat, NEW r \in Runs, FailIngest(r)
  PROVE  RunsOK'
<1> DEFINE x == run[r]
           z == Dropped(r)
           y == [z EXCEPT !.ing = "failed"]
<1>1. x \in RunType /\ RunOK(x, r, diffs, metrics, failures, clock) /\ DOMAIN run = Runs
  BY RunFacts
<1>2. /\ run' = [run EXCEPT ![r] = y] /\ UNCHANGED <<tables, clock>>
      /\ x.ing \in {"read", "derive", "mark"}
  BY DEF FailIngest
<1>3. /\ z \in RunType /\ z.pipe = <<>> /\ z.cur = NoEvent
      /\ z.pairs = [s \in Streams |-> Unpaired]
      /\ z.kind = x.kind /\ z.pc = x.pc /\ z.engine = x.engine /\ z.at = x.at
      /\ z.match = x.match /\ z.sent = x.sent /\ z.ing = x.ing
      /\ z.stored = x.stored
  BY DroppedFacts
<1> HIDE DEF z
<1>4. /\ y \in RunType /\ y.ing = "failed" /\ y.pipe = <<>> /\ y.cur = NoEvent
      /\ y.pairs = [s \in Streams |-> Unpaired]
      /\ y.kind = x.kind /\ y.pc = x.pc /\ y.engine = x.engine /\ y.at = x.at
      /\ y.match = x.match /\ y.sent = x.sent
      /\ y.stored = x.stored
  BY <1>3 DEF RunType
<1> HIDE DEF x, y
<1>5. ControlOK(y)
  BY <1>1, <1>2, <1>4 DEF RunOK, ControlOK
<1>6. PipeOK(y, clock)
  BY <1>4, PipeEmpty, NoEventIsNone, StreamFacts DEF PipeOK
<1>7. CountOK(y) /\ DiffsOK(y, r, diffs)
  BY <1>1, <1>4 DEF RunOK, CountOK, DiffsOK, Worked
<1>8. PairsOK(y)
  BY <1>4 DEF PairsOK, Unpaired, Sides
<1>9. ChecksumsKept(y, r, diffs)
  BY <1>4 DEF ChecksumsKept, Following
<1>10. MetricOK(y, r, diffs, metrics, clock) /\ FailureOK(y, r, failures)
  BY <1>1, <1>4 DEF RunOK, MetricOK, FailureOK, Following
<1>11. RunOK(y, r, diffs, metrics, failures, clock)
  BY <1>4, <1>5, <1>6, <1>7, <1>8, <1>9, <1>10 DEF RunOK
<1> QED
  BY <1>2, <1>11, RunChanges

\* The next event is taken from the pipe, by a record that stores it and has it at hand,
\* or skips the half of a line.
LEMMA TakeOK ==
  ASSUME NEW r, NEW D, NEW M, NEW F, NEW c \in Nat,
         NEW x, RunOK(x, r, D, M, F, c), x.ing = "read", x.pipe # <<>>,
         NEW y \in RunType, y.pipe = Tail(x.pipe),
         y.kind = x.kind, y.pc = x.pc, y.engine = x.engine, y.at = x.at, y.match = x.match,
         y.sent = x.sent, y.pairs = x.pairs,
         \/ /\ Head(x.pipe).kind = "torn"
            /\ y.ing = "read" /\ y.cur = x.cur /\ y.stored = x.stored
         \/ /\ Head(x.pipe).kind # "torn"
            /\ y.ing = IF Head(x.pipe).kind \in {"checksum", "finished"} THEN "derive"
                        ELSE "process"
            /\ y.cur = Head(x.pipe) /\ y.stored = x.stored + 1
  PROVE  RunOK(y, r, D, M, F, c)
<1> DEFINE e == Head(x.pipe)
           q == Tail(x.pipe)
<1>1. /\ x \in RunType /\ x.pipe \in Seq(EventType) /\ x.sent \in Nat /\ x.stored \in Nat
      /\ ControlOK(x) /\ PipeOK(x, c)
  BY DEF RunOK, RunType
<1>2. /\ e \in EventType /\ e = x.pipe[1] /\ 1 \in 1 .. Len(x.pipe)
      /\ q \in Seq(EventType) /\ Len(q) \in Nat /\ Len(x.pipe) = Len(q) + 1
      /\ \A i \in 1 .. Len(q) : i + 1 \in 1 .. Len(x.pipe) /\ q[i] = x.pipe[i + 1]
      /\ \A kind : Pending(x.pipe, kind) => e.kind = kind \/ Pending(q, kind)
      /\ \A s, side : InPipe(x.pipe, s, side) =>
            InPipe(q, s, side) \/ (e.kind = "checksum" /\ e.stream = s /\ e.side = side)
  BY <1>1, PipeTail
<1>3. /\ y.pipe = q
      /\ \/ e.kind = "torn" /\ y.ing = "read" /\ y.cur = x.cur /\ y.stored = x.stored
         \/ /\ e.kind # "torn" /\ y.cur = e /\ y.stored = x.stored + 1
            /\ y.ing = IF e.kind \in {"checksum", "finished"} THEN "derive" ELSE "process"
  OBVIOUS
<1> HIDE DEF e, q
<1>4. x.cur = NoEvent /\ x.ing # "failed" /\ x.ing # "off" /\ x.pc # "lost"
  BY <1>1 DEF ControlOK
<1>5. \A f : EventOK(x, f) <=> EventOK(y, f)
  BY DEF EventOK, Worked, Digest
<1>6. EventOK(y, e) /\ (e.kind = "finished" => Len(x.pipe) = 1 /\ e.ts <= c)
  BY <1>1, <1>2, <1>5 DEF PipeOK
<1>7. e # NoEvent
  BY <1>2, NoEventIsNone
<1>8. ControlOK(y)
  BY <1>1, <1>3, <1>4, <1>7 DEF ControlOK
<1>9. PipeOK(y, c)
  <2>1. \A i \in 1 .. Len(q) :
           EventOK(y, q[i]) /\ (q[i].kind = "finished" => i = Len(q) /\ q[i].ts <= c)
    <3> TAKE i \in 1 .. Len(q)
    <3>1. /\ EventOK(x, x.pipe[i + 1]) /\ q[i] = x.pipe[i + 1]
          /\ x.pipe[i + 1].kind = "finished" =>
                i + 1 = Len(x.pipe) /\ x.pipe[i + 1].ts <= c
      BY <1>1, <1>2 DEF PipeOK
    <3> QED
      BY <1>2, <1>5, <3>1
  <2>2. Len(q) <= PipeCap
    BY <1>1, <1>2, StreamFacts DEF PipeOK
  <2>3. e.kind = "finished" => q = <<>>
    BY <1>2, <1>6, EmptySeq
  <2> QED
    BY <1>3, <1>4, <1>6, <2>1, <2>2, <2>3, NoEventIsNone DEF PipeOK
<1>10. CountOK(y)
  <2>1. CountOK(x)
    BY DEF RunOK
  <2>2. e.kind = "torn" => y.engine = "killed"
    BY <1>6 DEF EventOK
  <2>3. x.engine # "killed" => y.sent = y.stored + Len(y.pipe)
    <3>1. x.engine # "killed" => x.sent = x.stored + (Len(q) + 1)
      BY <1>2, <1>4, <2>1 DEF CountOK
    <3>2. x.engine # "killed" => y.stored = x.stored + 1
      BY <1>3, <2>2
    <3> QED
      BY <1>1, <1>2, <1>3, <3>1, <3>2
  <2> QED
    BY <2>1, <2>3 DEF CountOK
<1>11. PairsOK(y) /\ DiffsOK(y, r, D)
  BY DEF RunOK, PairsOK, DiffsOK, Worked, Digest
<1>12. ChecksumsKept(y, r, D)
  <2>1. ASSUME Following(y), y.engine \notin Failing, NEW s \in Streams, NEW side \in Sides,
               Emitted(y, s, side)
        PROVE  Kept(y, r, D, s, side)
    <3>1. Kept(x, r, D, s, side)
      BY <1>4, <2>1 DEF RunOK, ChecksumsKept, Following, Emitted
    <3>2. InPipe(x.pipe, s, side) => InPipe(y.pipe, s, side) \/ AtHand(y, s, side)
      BY <1>2, <1>3 DEF AtHand
    <3>3. ~ AtHand(x, s, side)
      BY DEF AtHand
    <3> QED
      BY <3>1, <3>2, <3>3 DEF Kept
  <2> QED
    BY <2>1 DEF ChecksumsKept
<1>13. MetricOK(y, r, D, M, c)
  <2>1. MetricOK(x, r, D, M, c)
    BY DEF RunOK
  <2>2. r \notin DOMAIN M
    BY <2>1 DEF MetricOK
  <2>3. /\ y.ing \in {"mark", "process"} => y.cur.kind # "finished"
        /\ Pending(x.pipe, "finished") => Pending(y.pipe, "finished") \/ y.cur.kind = "finished"
        /\ x.cur.kind # "finished"
    BY <1>2, <1>3, <1>4, NoEventIsNone
  <2> QED
    BY <1>4, <2>1, <2>2, <2>3 DEF MetricOK, Following
<1>14. FailureOK(y, r, F)
  <2>1. /\ Pending(x.pipe, "failed") => Pending(y.pipe, "failed") \/ y.cur.kind = "failed"
        /\ x.cur.kind # "failed"
    BY <1>2, <1>3, <1>4, NoEventIsNone
  <2> QED
    BY <1>4, <2>1 DEF RunOK, FailureOK, Following
<1> QED
  BY <1>8, <1>9, <1>10, <1>11, <1>12, <1>13, <1>14 DEF RunOK

LEMMA InsertKeeps ==
  ASSUME RunsOK, clock \in Nat, NEW r \in Runs, Insert(r)
  PROVE  RunsOK'
<1> DEFINE x == run[r]
           e == Head(x.pipe)
           q == Tail(x.pipe)
           n == x.stored + 1
           skip == [x EXCEPT !.pipe = q]
           ing == IF e.kind \in {"checksum", "finished"} THEN "derive" ELSE "process"
           take == [x EXCEPT !.pipe = q, !.cur = e, !.stored = n, !.ing = ing]
<1>1. /\ x \in RunType /\ RunOK(x, r, diffs, metrics, failures, clock) /\ DOMAIN run = Runs
      /\ x.pipe \in Seq(EventType) /\ x.stored \in Nat
  BY RunFacts DEF RunType
<1>2. x.ing = "read" /\ x.pipe # <<>> /\ UNCHANGED <<tables, clock>>
  BY DEF Insert
<1>3. e \in EventType /\ q \in Seq(EventType) /\ n \in Nat /\ ing \in {"derive", "process"}
  BY <1>1, <1>2, PipeTail
<1>4. run' = [run EXCEPT ![r] = IF e.kind = "torn" THEN skip ELSE take]
  BY Zenon DEF Insert
<1>5. CASE e.kind = "torn"
  <2> DEFINE y == skip
  <2>1. run' = [run EXCEPT ![r] = y]
    <3> HIDE DEF e, skip, take
    <3> QED
      BY <1>5, <1>4
  <2> HIDE DEF q, n, e
  <2>2. /\ y \in RunType /\ y.pipe = q /\ y.ing = x.ing /\ y.cur = x.cur
        /\ y.engine = x.engine /\ y.pc = x.pc
        /\ y.kind = x.kind /\ y.at = x.at /\ y.match = x.match
        /\ y.sent = x.sent /\ y.pairs = x.pairs /\ y.stored = x.stored
    BY <1>1, <1>3 DEF RunType
  <2> HIDE DEF y, x
  <2>3. y.pipe = Tail(x.pipe) /\ Head(x.pipe).kind = "torn"
    BY <1>5, <2>2 DEF q, e
  <2>4. RunOK(y, r, diffs, metrics, failures, clock)
    BY <1>1, <1>2, <2>2, <2>3, TakeOK
  <2> QED
    BY <1>2, <2>1, <2>4, RunChanges
<1>6. CASE e.kind # "torn"
  <2> DEFINE y == take
  <2>1. run' = [run EXCEPT ![r] = y]
    <3> HIDE DEF e, skip, take
    <3> QED
      BY <1>6, <1>4
  <2> HIDE DEF q, n, e, ing
  <2>2. /\ y \in RunType /\ y.pipe = q /\ y.ing = ing /\ y.cur = e
        /\ y.engine = x.engine /\ y.pc = x.pc
        /\ y.kind = x.kind /\ y.at = x.at /\ y.match = x.match
        /\ y.sent = x.sent /\ y.pairs = x.pairs /\ y.stored = n
    BY <1>1, <1>3 DEF RunType
  <2> HIDE DEF y, x
  <2>3. /\ y.pipe = Tail(x.pipe) /\ Head(x.pipe).kind # "torn"
        /\ y.cur = Head(x.pipe) /\ y.stored = x.stored + 1
        /\ y.ing = IF Head(x.pipe).kind \in {"checksum", "finished"} THEN "derive"
                   ELSE "process"
    BY <1>6, <2>2 DEF q, e, n, ing
  <2>4. RunOK(y, r, diffs, metrics, failures, clock)
    BY <1>1, <1>2, <2>2, <2>3, TakeOK
  <2> QED
    BY <1>2, <2>1, <2>4, RunChanges
<1> QED
  BY <1>5, <1>6

LEMMA RecordMetricKeeps ==
  ASSUME RunsOK, clock \in Nat, NEW r \in Runs, RecordMetric(r)
  PROVE  /\ RunsOK' /\ clock' = clock /\ last_sync' = last_sync
         /\ DOMAIN metrics' = DOMAIN metrics \cup {r}
         /\ r \notin DOMAIN metrics
         /\ \A q \in DOMAIN metrics : metrics'[q] = metrics[q]
<1> DEFINE x == run[r]
           y == [run[r] EXCEPT !.ing = "mark"]
<1>1. x \in RunType /\ RunOK(x, r, diffs, metrics, failures, clock) /\ DOMAIN run = Runs
  BY RunFacts
<1>2. /\ run' = [run EXCEPT ![r] = y] /\ diffs' = diffs /\ failures' = failures
      /\ clock' = clock /\ last_sync' = last_sync
      /\ x.ing = "derive" /\ x.cur.kind = "finished"
      /\ metrics' = [q \in DOMAIN metrics \cup {r} |->
                       IF q = r THEN x.cur.ts ELSE metrics[q]]
  BY <1>1, Zenon DEF RecordMetric
<1>3. /\ y \in RunType /\ y.ing = "mark" /\ y.engine = x.engine /\ y.pc = x.pc
      /\ y.kind = x.kind /\ y.at = x.at /\ y.match = x.match /\ y.pipe = x.pipe
      /\ y.sent = x.sent /\ y.cur = x.cur /\ y.pairs = x.pairs /\ y.stored = x.stored
  BY <1>1 DEF RunType
<1>4. /\ x.cur \in EventType \cup {NoEvent}
      /\ ControlOK(x) /\ PipeOK(x, clock) /\ MetricOK(x, r, diffs, metrics, clock)
      /\ ChecksumsKept(x, r, diffs)
  BY <1>1 DEF RunOK, RunType
<1> HIDE DEF x, y
<1>5. /\ x.cur # NoEvent /\ x.cur \in EventType /\ x.cur.ts \in Nat /\ x.cur.ts <= clock
      /\ x.pipe = <<>> /\ x.engine = "exit0" /\ x.kind = "sync" /\ x.at = NumStreams
      /\ Following(x)
  <2>1. x.cur # NoEvent /\ x.cur \in EventType
    BY <1>2, <1>4, NoEventIsNone
  <2>2. x.cur.ts \in Nat
    BY <1>2, <2>1, EventKinds
  <2>3. x.pipe = <<>> /\ x.cur.ts <= clock /\ x.engine = "exit0" /\ x.kind = "sync"
    BY <1>2, <1>4, <2>1 DEF PipeOK, EventOK
  <2> QED
    BY <1>2, <1>4, <2>1, <2>2, <2>3 DEF ControlOK, Following
<1>6. r \notin DOMAIN metrics
  BY <1>2, <1>4 DEF MetricOK
<1>7. \A s \in Streams : InDiffs(r, diffs, s)
  <2> TAKE s \in Streams
  <2>1. x.pairs[s]["source"] = 0 \/ x.pairs[s]["destination"] = 0
    BY <1>1 DEF RunOK, PairsOK
  <2>2. \A side \in Sides : Emitted(x, s, side)
    BY <1>5, StreamFacts DEF Emitted, Streams
  <2>3. \A side \in Sides : Kept(x, r, diffs, s, side)
    BY <1>4, <1>5, <2>2 DEF ChecksumsKept, Failing
  <2>4. \A side \in Sides : ~ InPipe(x.pipe, s, side) /\ ~ AtHand(x, s, side)
    BY <1>2, <1>5, PipeEmpty DEF AtHand
  <2> QED
    BY <2>1, <2>3, <2>4 DEF Kept, Sides
<1>8. /\ DOMAIN metrics' = DOMAIN metrics \cup {r} /\ metrics'[r] = x.cur.ts
      /\ \A q \in DOMAIN metrics : metrics'[q] = metrics[q]
      /\ \A q \in Runs \ {r} : q \in DOMAIN metrics' <=> q \in DOMAIN metrics
  BY <1>2, <1>6
<1>9. ControlOK(y)
  BY <1>2, <1>3, <1>4, <1>5 DEF ControlOK
<1>10. PipeOK(y, clock) /\ CountOK(y) /\ PairsOK(y) /\ DiffsOK(y, r, diffs)
  BY <1>1, <1>2, <1>3 DEF RunOK, PipeOK, EventOK, CountOK, PairsOK, DiffsOK, Worked, Digest
<1>11. ChecksumsKept(y, r, diffs)
  BY <1>7 DEF ChecksumsKept, Kept
<1>12. MetricOK(y, r, diffs, metrics', clock)
  BY <1>3, <1>5, <1>7, <1>8 DEF MetricOK
<1>13. FailureOK(y, r, failures)
  BY <1>1, <1>2, <1>3 DEF RunOK, FailureOK, Following
<1>14. RunOK(y, r, diffs', metrics', failures', clock')
  BY <1>2, <1>3, <1>9, <1>10, <1>11, <1>12, <1>13 DEF RunOK
<1>15. OthersKeep(r, diffs, metrics, failures, clock, diffs', metrics', failures', clock')
  BY <1>2, <1>8 DEF OthersKeep
<1>16. RunsOK'
  BY <1>2, <1>14, <1>15, OneRunMoves
<1> QED
  BY <1>2, <1>6, <1>8, <1>16

\* What Compare does to the run x of r and to the diffs D: the checksum at hand joins
\* pair, and when both sides are there the verdict is written and the pair forgotten.
Compares(r, x, y, s, side, pair, both, D, D1) ==
  /\ s = x.cur.stream /\ side = x.cur.side
  /\ pair = [x.pairs[s] EXCEPT ![side] = x.cur.digest]
  /\ both \in BOOLEAN /\ (both <=> pair["source"] # 0 /\ pair["destination"] # 0)
  /\ D1 = IF both THEN Append(D, [run |-> r, stream |-> s,
                                  match |-> pair["source"] = pair["destination"]])
          ELSE D
  /\ y \in RunType /\ y.ing = "process"
  /\ y.pairs = [x.pairs EXCEPT ![s] = IF both THEN Unpaired ELSE pair]
  /\ y.kind = x.kind /\ y.pc = x.pc /\ y.engine = x.engine /\ y.at = x.at
  /\ y.match = x.match /\ y.pipe = x.pipe /\ y.sent = x.sent /\ y.cur = x.cur
  /\ y.stored = x.stored

\* A checksum is paired: it waits for the other side, or the two are compared.
LEMMA CompareOK ==
  ASSUME NEW r \in Runs, NEW D \in Seq(DiffType), NEW M, NEW F, NEW c \in Nat,
         NEW x, RunOK(x, r, D, M, F, c), x.ing = "derive", x.cur.kind = "checksum",
         NEW s, NEW side, NEW pair, NEW both, NEW D1, NEW y,
         Compares(r, x, y, s, side, pair, both, D, D1)
  PROVE  /\ RunOK(y, r, D1, M, F, c) /\ D1 \in Seq(DiffType)
         /\ OthersKeep(r, D, M, F, c, D1, M, F, c)
<1> /\ s = x.cur.stream /\ side = x.cur.side
    /\ both \in BOOLEAN /\ (both <=> pair["source"] # 0 /\ pair["destination"] # 0)
    /\ y \in RunType /\ y.ing = "process"
    /\ y.kind = x.kind /\ y.pc = x.pc /\ y.engine = x.engine /\ y.at = x.at
    /\ y.match = x.match /\ y.pipe = x.pipe /\ y.sent = x.sent /\ y.cur = x.cur
    /\ y.stored = x.stored
  BY Zenon DEF Compares
<1>1. /\ x \in RunType /\ x.pairs \in [Streams -> [Sides -> Nat]]
      /\ x.cur \in EventType \cup {NoEvent} /\ x.match \in [Streams -> BOOLEAN]
      /\ ControlOK(x) /\ PipeOK(x, c) /\ PairsOK(x) /\ DiffsOK(x, r, D)
      /\ ChecksumsKept(x, r, D) /\ MetricOK(x, r, D, M, c)
  BY DEF RunOK, RunType
<1>2. x.cur # NoEvent /\ x.cur \in EventType
  BY <1>1, NoEventIsNone
<1>3. s \in Streams /\ side \in Sides /\ x.cur.digest \in Nat \ {0}
  BY <1>2, EventKinds
<1>4. x.engine \notin Failing => Worked(x, s) /\ x.cur.digest = Digest(x, s, side)
  BY <1>1, <1>2 DEF PipeOK, EventOK
<1>5. /\ pair \in [Sides -> Nat] /\ pair[side] # 0 /\ pair[side] = x.cur.digest
      /\ \A d \in Sides \ {side} : pair[d] = x.pairs[s][d]
  <2>1. pair = [x.pairs[s] EXCEPT ![side] = x.cur.digest]
    BY Zenon DEF Compares
  <2>2. x.pairs[s] \in [Sides -> Nat]
    BY <1>1, <1>3
  <2> QED
    BY ONLY <1>3, <2>1, <2>2
<1>6. \A d \in Sides : pair[d] # 0 /\ x.engine \notin Failing =>
         Worked(x, s) /\ pair[d] = Digest(x, s, d)
  BY <1>1, <1>3, <1>4, <1>5 DEF PairsOK
<1> DEFINE m == pair["source"] = pair["destination"]
           diff == [run |-> r, stream |-> s, match |-> m]
<1>7. both /\ x.engine \notin Failing => Worked(x, s) /\ m = x.match[s]
  <2>1. ASSUME both, x.engine \notin Failing
        PROVE  Worked(x, s) /\ m = x.match[s]
    <3>1. /\ pair["source"] = s /\ Worked(x, s)
          /\ pair["destination"] = IF x.match[s] THEN s ELSE NumStreams + s
      BY <1>6, <2>1 DEF Digest, Sides
    <3>2. x.match[s] \in BOOLEAN /\ s \in Nat \ {0} /\ NumStreams \in Nat \ {0}
      BY <1>1, <1>3, StreamFacts
    <3>3. CASE x.match[s] = TRUE
      BY <3>1, <3>2, <3>3
    <3>4. CASE x.match[s] = FALSE
      <4>1. pair["destination"] = NumStreams + s
        BY <3>1, <3>4
      <4>2. pair["source"] # pair["destination"]
        BY <3>1, <3>2, <4>1
      <4> QED
        BY <3>1, <3>4, <4>2
    <3> QED
      BY <3>2, <3>3, <3>4
  <2> QED
    BY <2>1
<1>8. diff \in DiffType /\ diff.run = r /\ diff.stream = s /\ diff.match = m
  BY <1>3 DEF DiffType
<1> HIDE DEF m
<1>9. /\ D1 \in Seq(DiffType)
      /\ \A q, t : InDiffs(q, D, t) => InDiffs(q, D1, t)
      /\ both => InDiffs(r, D1, s)
      /\ \A i \in 1 .. Len(D1) : (i \in 1 .. Len(D) /\ D1[i] = D[i]) \/ (both /\ D1[i] = diff)
  <2>1. CASE both
    <3>1. D1 = Append(D, diff)
      BY <2>1 DEF m, Compares
    <3> HIDE DEF diff
    <3>2. /\ Append(D, diff) \in Seq(DiffType) /\ Len(D) \in Nat
          /\ Len(Append(D, diff)) = Len(D) + 1
          /\ \A i \in 1 .. Len(D) : Append(D, diff)[i] = D[i]
          /\ Append(D, diff)[Len(D) + 1] = diff
          /\ \A q, t : InDiffs(q, D, t) => InDiffs(q, Append(D, diff), t)
          /\ InDiffs(diff.run, Append(D, diff), diff.stream)
      BY <1>8, DiffsAppend
    <3>3. D1 \in Seq(DiffType) /\ (\A q, t : InDiffs(q, D, t) => InDiffs(q, D1, t))
      BY <3>1, <3>2
    <3>4. InDiffs(r, D1, s)
      BY <1>8, <3>1, <3>2
    <3>5. \A i \in 1 .. Len(D1) : (i \in 1 .. Len(D) /\ D1[i] = D[i]) \/ D1[i] = diff
      <4> TAKE i \in 1 .. Len(D1)
      <4>1. i \in 1 .. Len(D) \/ i = Len(D) + 1
        BY <3>1, <3>2
      <4> QED
        BY <3>1, <3>2, <4>1
    <3> QED
      BY <2>1, <3>3, <3>4, <3>5
  <2>2. CASE ~ both
    <3>1. D1 = D
      BY <2>2 DEF Compares
    <3> QED
      BY <2>2, <3>1
  <2> QED
    BY <2>1, <2>2
<1> HIDE DEF diff
<1>10. OthersKeep(r, D, M, F, c, D1, M, F, c)
  <2>1. ASSUME NEW q \in Runs \ {r}, NEW z, DiffsOK(z, q, D)
        PROVE  DiffsOK(z, q, D1)
    <3>1. ASSUME NEW i \in 1 .. Len(D1), D1[i].run = q, z.engine \notin Failing
          PROVE  Worked(z, D1[i].stream) /\ D1[i].match = z.match[D1[i].stream]
      <4>1. i \in 1 .. Len(D) /\ D1[i] = D[i]
        BY <1>8, <1>9, <3>1
      <4> QED
        BY <2>1, <3>1, <4>1 DEF DiffsOK
    <3> QED
      BY <3>1 DEF DiffsOK
  <2>2. \A q \in Runs \ {r} : \A t \in Streams : InDiffs(q, D, t) => InDiffs(q, D1, t)
    BY <1>9
  <2> QED
    BY <2>1, <2>2 DEF OthersKeep
<1>11. ControlOK(y)
  BY <1>1, <1>2 DEF ControlOK
<1>12. PipeOK(y, c) /\ CountOK(y)
  BY DEF RunOK, PipeOK, EventOK, CountOK, Worked, Digest
<1>13. y.pairs[s] = (IF both THEN Unpaired ELSE pair) /\ \A t \in Streams \ {s} : y.pairs[t] = x.pairs[t]
  <2>1. y.pairs = [x.pairs EXCEPT ![s] = IF both THEN Unpaired ELSE pair]
    BY Zenon DEF Compares
  <2> QED
    BY ONLY <1>1, <1>3, <2>1
<1>14. PairsOK(y)
  <2>1. ASSUME NEW t \in Streams, t # s
        PROVE  /\ y.pairs[t]["source"] = 0 \/ y.pairs[t]["destination"] = 0
               /\ \A d \in Sides : y.pairs[t][d] # 0 /\ y.engine \notin Failing =>
                     Worked(y, t) /\ y.pairs[t][d] = Digest(y, t, d)
    BY <1>1, <1>13, <2>1 DEF PairsOK, Worked, Digest
  <2>2. /\ y.pairs[s]["source"] = 0 \/ y.pairs[s]["destination"] = 0
        /\ \A d \in Sides : y.pairs[s][d] # 0 /\ y.engine \notin Failing =>
              Worked(y, s) /\ y.pairs[s][d] = Digest(y, s, d)
    <3>1. CASE both
      BY <1>13, <3>1 DEF Unpaired, Sides
    <3>2. CASE ~ both
      BY <1>6, <1>13, <3>2 DEF Worked, Digest
    <3> QED
      BY <3>1, <3>2
  <2> QED
    BY <2>1, <2>2 DEF PairsOK
<1>15. DiffsOK(y, r, D1)
  <2>1. ASSUME NEW i \in 1 .. Len(D1), D1[i].run = r, y.engine \notin Failing
        PROVE  Worked(y, D1[i].stream) /\ D1[i].match = y.match[D1[i].stream]
    <3>1. CASE i \in 1 .. Len(D) /\ D1[i] = D[i]
      BY <1>1, <2>1, <3>1 DEF DiffsOK, Worked
    <3>2. CASE both /\ D1[i] = diff
      BY <1>7, <1>8, <2>1, <3>2 DEF Worked
    <3> QED
      BY <1>9, <3>1, <3>2
  <2> QED
    BY <2>1 DEF DiffsOK
<1>16. ChecksumsKept(y, r, D1)
  <2>1. ASSUME Following(y), y.engine \notin Failing, NEW t \in Streams, NEW d \in Sides,
               Emitted(y, t, d)
        PROVE  Kept(y, r, D1, t, d)
    <3>1. Kept(x, r, D, t, d)
      BY <1>1, <2>1 DEF ChecksumsKept, Following, Emitted
    <3>2. CASE t = s /\ both
      BY <1>9, <3>2 DEF Kept
    <3>3. CASE t = s /\ ~ both /\ d = side
      BY <1>5, <1>13, <3>3 DEF Kept
    <3>4. CASE t = s /\ ~ both /\ d # side
      <4>1. ~ AtHand(x, t, d) /\ y.pairs[t][d] = x.pairs[t][d]
        BY <1>5, <1>13, <3>4 DEF AtHand
      <4> QED
        BY <1>9, <3>1, <4>1 DEF Kept
    <3>5. CASE t # s
      <4>1. ~ AtHand(x, t, d) /\ y.pairs[t][d] = x.pairs[t][d]
        BY <1>13, <3>5 DEF AtHand
      <4> QED
        BY <1>9, <3>1, <4>1 DEF Kept
    <3> QED
      BY <3>2, <3>3, <3>4, <3>5
  <2> QED
    BY <2>1 DEF ChecksumsKept
<1>17. MetricOK(y, r, D1, M, c)
  BY <1>1, <1>9 DEF MetricOK, Following
<1>18. FailureOK(y, r, F)
  BY DEF RunOK, FailureOK, Following
<1> QED
  BY <1>9, <1>10, <1>11, <1>12, <1>14, <1>15, <1>16, <1>17, <1>18 DEF RunOK

LEMMA CompareKeeps ==
  ASSUME RunsOK, diffs \in Seq(DiffType), clock \in Nat, NEW r \in Runs, Compare(r)
  PROVE  RunsOK' /\ diffs' \in Seq(DiffType)
<1> DEFINE x == run[r]
           s == x.cur.stream
           side == x.cur.side
           pair == [x.pairs[s] EXCEPT ![side] = x.cur.digest]
           both == pair["source"] # 0 /\ pair["destination"] # 0
           after == IF both THEN Unpaired ELSE pair
           pairs == [x.pairs EXCEPT ![s] = after]
           y == [x EXCEPT !.ing = "process", !.pairs = pairs]
           diff == [run |-> r, stream |-> s, match |-> pair["source"] = pair["destination"]]
<1>1. /\ x \in RunType /\ RunOK(x, r, diffs, metrics, failures, clock) /\ DOMAIN run = Runs
      /\ x.pairs \in [Streams -> [Sides -> Nat]] /\ x.cur \in EventType \cup {NoEvent}
  BY RunFacts DEF RunType
<1>2. /\ metrics' = metrics /\ failures' = failures /\ clock' = clock
      /\ x.ing = "derive" /\ x.cur.kind = "checksum"
      /\ diffs' = IF both THEN Append(diffs, diff) ELSE diffs
      /\ run' = [run EXCEPT ![r].ing = "process", ![r].pairs[s] = after]
  BY Zenon DEF Compare
<1>3. s \in Streams /\ side \in Sides /\ x.cur.digest \in Nat \ {0}
  BY <1>1, <1>2, EventKinds, NoEventIsNone
<1>4. pair \in [Sides -> Nat]
  BY <1>1, <1>3
<1>5. after \in [Sides -> Nat]
  <2> HIDE DEF pair
  <2> QED
    BY <1>4 DEF Unpaired, Sides
<1> HIDE DEF after
<1>6. pairs \in [Streams -> [Sides -> Nat]]
  BY <1>1, <1>3, <1>5
<1>7. run' = [run EXCEPT ![r] = y]
  BY <1>1, <1>2 DEF RunType
<1> HIDE DEF pairs
<1>8. /\ y \in RunType /\ y.ing = "process" /\ y.pairs = pairs
      /\ y.kind = x.kind /\ y.pc = x.pc /\ y.engine = x.engine /\ y.at = x.at
      /\ y.match = x.match /\ y.pipe = x.pipe /\ y.sent = x.sent /\ y.cur = x.cur
      /\ y.stored = x.stored
  BY <1>1, <1>6 DEF RunType
<1>9. both \in BOOLEAN /\ (both <=> pair["source"] # 0 /\ pair["destination"] # 0)
  OBVIOUS
<1>10. y.pairs = [x.pairs EXCEPT ![s] = IF both THEN Unpaired ELSE pair]
  BY <1>8 DEF pairs, after
<1>11. Compares(r, x, y, s, side, pair, both, diffs, diffs')
  <2>1. s = x.cur.stream /\ side = x.cur.side /\ pair = [x.pairs[s] EXCEPT ![side] = x.cur.digest]
    OBVIOUS
  <2>2. diffs' = IF both THEN Append(diffs, [run |-> r, stream |-> s,
                                             match |-> pair["source"] = pair["destination"]])
                 ELSE diffs
    BY <1>2 DEF diff
  <2> HIDE DEF x, y, both, pair, s, side
  <2> QED
    BY <2>1, <2>2, <1>8, <1>9, <1>10 DEF Compares
<1>12. RunOK(x, r, diffs, metrics, failures, clock) /\ x.ing = "derive" /\ x.cur.kind = "checksum"
  BY <1>1, <1>2
<1> HIDE DEF x, y, both, pair, s, side
<1>13. /\ RunOK(y, r, diffs', metrics, failures, clock) /\ diffs' \in Seq(DiffType)
       /\ OthersKeep(r, diffs, metrics, failures, clock, diffs', metrics, failures, clock)
  BY <1>11, <1>12, CompareOK
<1>14. RunsOK'
  BY <1>2, <1>7, <1>13, OneRunMoves
<1> QED
  BY <1>13, <1>14

-----------------------------------------------------------------------------
(* The invariant, and what follows from it.                                *)

LEMMA InitInv == Init => Inv
<1> SUFFICES ASSUME Init PROVE Inv
  OBVIOUS
<1> DEFINE x == Unused
           nothing == <<>>
           all == [s \in Streams |-> TRUE]
           none == [s \in Streams |-> Unpaired]
<1>1. /\ nothing \in Seq(EventType) /\ all \in [Streams -> BOOLEAN]
      /\ none \in [Streams -> [Sides -> Nat]]
      /\ x = [kind |-> "none", pc |-> "off", engine |-> "off", at |-> 1,
              match |-> all, pipe |-> nothing, sent |-> 0,
              ing |-> "off", cur |-> NoEvent, pairs |-> none,
              stored |-> 0]
  BY EmptySeq DEF Unused, Unpaired, Sides
<1> HIDE DEF x, nothing, all, none
<1>2. /\ x \in RunType /\ x.pc = "off" /\ x.engine = "off" /\ x.at = 1 /\ x.pipe = nothing
      /\ x.sent = 0 /\ x.stored = 0 /\ x.ing = "off" /\ x.cur = NoEvent /\ x.pairs = none
      /\ x.kind = "none"
  BY <1>1, StreamFacts DEF RunType
<1>3. x.pipe = <<>> /\ \A s \in Streams, side \in Sides : x.pairs[s][side] = 0
  BY <1>2 DEF nothing, none, Unpaired, Sides
<1>4. Len(diffs) = 0 /\ diffs \in Seq(DiffType)
  BY EmptySeq DEF Init
<1>5. ASSUME NEW r \in Runs PROVE RunOK(x, r, diffs, metrics, failures, clock)
  <2>1. ControlOK(x) /\ CountOK(x) /\ PairsOK(x)
    BY <1>2, <1>3, PipeEmpty DEF ControlOK, CountOK, PairsOK, Sides
  <2>2. PipeOK(x, clock)
    BY <1>2, <1>3, PipeEmpty, NoEventIsNone, StreamFacts DEF PipeOK
  <2>3. DiffsOK(x, r, diffs)
    BY <1>4 DEF DiffsOK
  <2>4. ChecksumsKept(x, r, diffs)
    <3>1. \A s \in Streams, side \in Sides : ~ Emitted(x, s, side)
      BY <1>2, StreamFacts DEF Emitted
    <3> QED
      BY <3>1 DEF ChecksumsKept
  <2>5. MetricOK(x, r, diffs, metrics, clock) /\ FailureOK(x, r, failures)
    BY <1>2 DEF Init, MetricOK, FailureOK
  <2> QED
    BY <1>2, <2>1, <2>2, <2>3, <2>4, <2>5 DEF RunOK
<1>6. run = [r \in Runs |-> x]
  BY DEF Init, x
<1> QED
  BY <1>4, <1>5, <1>6 DEF Init, Inv, LastSyncOK

\* The metrics, last_sync_at and the clock: only the ingester of a finished sync and
\* its engine change them.
TablesOK ==
  /\ DOMAIN metrics \subseteq Runs /\ failures \subseteq Runs
  /\ clock \in Nat /\ LastSyncOK

LEMMA TablesStay ==
  ASSUME TablesOK, UNCHANGED <<metrics, failures, last_sync>>,
         clock' = clock \/ clock' = clock + 1
  PROVE  TablesOK' /\ clock' \in Nat /\ clock <= clock'
BY DEF TablesOK, LastSyncOK

LEMMA InvParts == Inv <=> RunsOK /\ diffs \in Seq(DiffType) /\ TablesOK
BY DEF Inv, RunsOK, TablesOK

LEMMA NextInv == Inv /\ [Next]_vars => Inv'
<1> SUFFICES ASSUME Inv, [Next]_vars PROVE Inv'
  OBVIOUS
<1>1. RunsOK /\ diffs \in Seq(DiffType) /\ TablesOK /\ clock \in Nat
  BY InvParts DEF TablesOK
<1>2. ASSUME RunsOK', diffs' \in Seq(DiffType), TablesOK' PROVE Inv'
  BY <1>2 DEF Inv, RunsOK, TablesOK
<1>3. ASSUME RunsOK', UNCHANGED <<tables, clock>> PROVE Inv'
  BY <1>1, <1>2, <1>3, TablesStay DEF tables
<1>14. ASSUME NEW r \in Runs, StartJob(r) \/ EndJob(r) PROVE Inv'
  BY <1>1, <1>2, <1>14 DEF StartJob, EndJob, UpdateJob, tables, RunsOK, TablesOK, LastSyncOK
<1>4. ASSUME NEW r \in Runs, StartSync(r) \/ LaunchBackfill(r) \/ Prepare(r) \/ FailPrepare(r)
                              \/ Return(r)
      PROVE  Inv'
  <2>1. RunsOK'
    BY <1>1, <1>4, BeginKeeps, PrepareKeeps, FailPrepareKeeps, ReturnKeeps
       DEF StartSync, LaunchBackfill
  <2>2. UNCHANGED <<tables, clock>>
    BY <1>4 DEF StartSync, LaunchBackfill, Begin, Prepare, FailPrepare, Return
  <2> QED
    BY <1>3, <2>1, <2>2
<1>5. ASSUME NEW r \in Runs, FailSetup(r) \/ FailStream(r) \/ FailVerify(r) \/ WorkStream(r)
                              \/ Kill(r)
      PROVE  Inv'
  <2>1. RunsOK'
    BY <1>1, <1>5, FailKeeps, WorkStreamKeeps, KillKeeps
  <2>2. UNCHANGED <<tables, clock>>
    BY <1>5 DEF FailSetup, FailStream, FailVerify, WorkStream, Kill
  <2> QED
    BY <1>3, <2>1, <2>2
<1>6. ASSUME NEW r \in Runs, EmitInfo(r) \/ EmitStarted(r) \/ EmitFailed(r) \/ EmitSource(r)
                              \/ EmitDestination(r) \/ EmitFinished(r) \/ EmitVerified(r)
      PROVE  Inv'
  <2>1. RunsOK'
    BY <1>1, <1>6, EmitInfoKeeps, EmitStartedKeeps, EmitFailedKeeps, EmitSourceKeeps,
       EmitDestinationKeeps, EmitFinishedKeeps, EmitVerifiedKeeps
  <2>2. UNCHANGED tables /\ (clock' = clock \/ clock' = clock + 1)
    BY <1>6 DEF EmitInfo, EmitStarted, EmitFailed, EmitSource, EmitDestination,
       EmitFinished, EmitVerified, Emit
  <2> QED
    BY <1>1, <1>2, <2>1, <2>2, TablesStay DEF tables
<1>7. ASSUME NEW r \in Runs, Insert(r) \/ EndOfEvents(r) \/ FailIngest(r)
      PROVE  Inv'
  <2>1. RunsOK'
    BY <1>1, <1>7, InsertKeeps, EndOfEventsKeeps, FailIngestKeeps
  <2>2. UNCHANGED <<tables, clock>>
    BY <1>7 DEF Insert, EndOfEvents, FailIngest
  <2> QED
    BY <1>3, <2>1, <2>2
<1>8. ASSUME NEW r \in Runs, Compare(r) PROVE Inv'
  <2>1. RunsOK' /\ diffs' \in Seq(DiffType)
    BY <1>1, <1>8, CompareKeeps
  <2>2. UNCHANGED <<metrics, failures, last_sync, clock>>
    BY <1>8 DEF Compare
  <2> QED
    BY <1>1, <1>2, <2>1, <2>2, TablesStay
<1>9. ASSUME NEW r \in Runs, RecordMetric(r) PROVE Inv'
  <2>1. /\ RunsOK' /\ clock' = clock /\ last_sync' = last_sync
        /\ DOMAIN metrics' = DOMAIN metrics \cup {r}
        /\ r \notin DOMAIN metrics
        /\ \A q \in DOMAIN metrics : metrics'[q] = metrics[q]
    BY <1>1, <1>9, RecordMetricKeeps
  <2>2. diffs' = diffs /\ failures' = failures
    BY <1>9 DEF RecordMetric
  <2>3. TablesOK'
    BY <1>1, <2>1, <2>2 DEF TablesOK, LastSyncOK
  <2> QED
    BY <1>1, <1>2, <2>1, <2>2, <2>3
<1>10. ASSUME NEW r \in Runs, MarkSynced(r) PROVE Inv'
  <2>1. /\ RunsOK' /\ clock' = clock /\ metrics' = metrics
        /\ r \in DOMAIN metrics /\ last_sync' = metrics[r]
        /\ metrics[r] \in Nat /\ metrics[r] <= clock
    BY <1>1, <1>10, MarkSyncedKeeps
  <2>2. diffs' = diffs /\ failures' = failures
    BY <1>10 DEF MarkSynced
  <2>3. TablesOK'
    BY <1>1, <2>1, <2>2 DEF TablesOK, LastSyncOK
  <2> QED
    BY <1>1, <1>2, <2>1, <2>2, <2>3
<1>11. ASSUME NEW r \in Runs, Process(r) PROVE Inv'
  <2>1. RunsOK'
    BY <1>1, <1>11, ProcessKeeps
  <2>2. UNCHANGED <<diffs, metrics, last_sync, clock>> /\ failures' \subseteq failures \cup {r}
    BY <1>11 DEF Process
  <2>3. TablesOK'
    BY <1>1, <2>2 DEF TablesOK, LastSyncOK
  <2> QED
    BY <1>1, <1>2, <2>1, <2>2, <2>3
<1>12. CASE Restart
  <2>1. RunsOK' /\ UNCHANGED <<tables, clock>>
    BY <1>1, <1>12, RestartKeeps DEF Restart
  <2> QED
    BY <1>3, <2>1
<1>13. CASE UNCHANGED vars
  BY <1>1, <1>13, <1>2 DEF vars, tables, RunsOK, TablesOK, LastSyncOK
<1> QED
  BY <1>4, <1>5, <1>6, <1>7, <1>8, <1>9, <1>10, <1>11, <1>12, <1>13,
     <1>14 DEF Next, Progress, Engine, Ingest

\* Compared is InDiffs.
LEMMA ComparedIs ==
  ASSUME diffs \in Seq(DiffType), NEW r \in Runs
  PROVE  /\ Compared(r) \subseteq Streams
         /\ \A s : s \in Compared(r) <=> InDiffs(r, diffs, s)
<1>1. DOMAIN diffs = 1 .. Len(diffs) /\ \A i \in 1 .. Len(diffs) : diffs[i] \in DiffType
  BY ElementOfSeq
<1>2. \A s : s \in Compared(r) <=> \E i \in DOMAIN diffs : diffs[i].run = r /\ diffs[i].stream = s
  BY Zenon DEF Compared, Range
<1>3. \A s : s \in Compared(r) <=> InDiffs(r, diffs, s)
  BY <1>1, <1>2 DEF InDiffs
<1>4. ASSUME NEW s \in Compared(r) PROVE s \in Streams
  <2>1. PICK i \in 1 .. Len(diffs) : diffs[i].stream = s
    BY <1>3 DEF InDiffs
  <2> QED
    BY <1>1, <2>1 DEF DiffType
<1> QED
  BY <1>3, <1>4

\* What the ingester has at the end of the events: an empty pipe, and nothing at hand.
LEMMA AtTheEnd ==
  ASSUME NEW x, NEW c, ControlOK(x), PipeOK(x, c), x.ing = "eof"
  PROVE  /\ Len(x.pipe) = 0 /\ x.cur.kind = "none" /\ x.pc # "lost"
         /\ \A kind : ~ Pending(x.pipe, kind)
         /\ \A s, side : ~ InPipe(x.pipe, s, side) /\ ~ AtHand(x, s, side)
<1>1. x.pipe = <<>> /\ x.cur = NoEvent /\ x.pc # "lost"
  BY DEF ControlOK
<1>2. x.cur.kind = "none"
  BY <1>1, NoEventIsNone
<1>3. \A s, side : ~ AtHand(x, s, side)
  BY DEF AtHand
<1> QED
  BY <1>1, <1>2, <1>3, PipeEmpty

\* A checksum of either side that was emitted is compared when the events have ended.
LEMMA AllPaired ==
  ASSUME NEW r \in Runs, NEW x, NEW D, NEW c, ControlOK(x), PipeOK(x, c), PairsOK(x),
         ChecksumsKept(x, r, D), x.ing = "eof", x.engine \notin Failing,
         NEW s \in Streams, \A side \in Sides : Emitted(x, s, side)
  PROVE  InDiffs(r, D, s)
<1>1. Following(x)
  BY AtTheEnd DEF Following
<1>2. Kept(x, r, D, s, "source") /\ Kept(x, r, D, s, "destination")
  BY <1>1 DEF ChecksumsKept, Sides
<1>3. x.pairs[s]["source"] = 0 \/ x.pairs[s]["destination"] = 0
  BY DEF PairsOK
<1> QED
  BY <1>2, <1>3, AtTheEnd DEF Kept

LEMMA RunSucceeded ==
  ASSUME Inv, NEW r \in Runs, run[r].pc = "ok"
  PROVE  /\ run[r].stored = run[r].sent
         /\ run[r].kind = "sync" => r \in DOMAIN metrics /\ Compared(r) = Streams
         /\ run[r].kind = "backfill" => Compared(r) # {}
<1> DEFINE x == run[r]
<1>1. /\ RunOK(x, r, diffs, metrics, failures, clock) /\ diffs \in Seq(DiffType)
      /\ x.pc = "ok"
  BY DEF Inv
<1> HIDE DEF x
<1>2. /\ x \in RunType /\ ControlOK(x) /\ PipeOK(x, clock) /\ CountOK(x) /\ PairsOK(x)
      /\ ChecksumsKept(x, r, diffs) /\ MetricOK(x, r, diffs, metrics, clock)
  BY <1>1 DEF RunOK
<1>3. x.engine = "exit0" /\ x.ing = "eof" /\ x.engine \notin Failing
  BY <1>1, <1>2 DEF ControlOK, Failing
<1>4. /\ Len(x.pipe) = 0 /\ x.cur.kind = "none" /\ x.pc # "lost"
      /\ \A kind : ~ Pending(x.pipe, kind)
  BY <1>2, <1>3, AtTheEnd
<1>5. x.stored = x.sent
  <2>1. x.stored \in Nat /\ x.sent = x.stored + Len(x.pipe)
    BY <1>2, <1>3 DEF CountOK, RunType
  <2> QED
    BY <1>4, <2>1
<1>6. x.kind = "sync" => r \in DOMAIN metrics /\ Compared(r) = Streams
  <2>1. x.kind = "sync" => r \in DOMAIN metrics
    BY <1>2, <1>3, <1>4 DEF MetricOK, Following
  <2>2. r \in DOMAIN metrics => \A s \in Streams : InDiffs(r, diffs, s)
    BY <1>2 DEF MetricOK
  <2> QED
    BY <1>1, <2>1, <2>2, ComparedIs
<1>7. Compared(r) # {}
  <2>1. x.at \in Streams
    BY <1>2 DEF RunType
  <2>2. \A side \in Sides : Emitted(x, x.at, side)
    BY <1>3 DEF Emitted
  <2>3. InDiffs(r, diffs, x.at)
    BY <1>2, <1>3, <2>1, <2>2, AllPaired
  <2> QED
    BY <1>1, <2>3, ComparedIs
<1> QED
  BY <1>5, <1>6, <1>7 DEF x

LEMMA MetricStands ==
  ASSUME Inv, NEW r \in DOMAIN metrics
  PROVE  /\ r \in Runs /\ Compared(r) = Streams /\ r \notin failures
         /\ \A s \in Streams : InDiffs(r, diffs, s)
         /\ DiffsOK(run[r], r, diffs) /\ run[r].engine \notin Failing
<1> DEFINE x == run[r]
<1>1. /\ r \in Runs /\ RunOK(x, r, diffs, metrics, failures, clock)
      /\ diffs \in Seq(DiffType)
  BY DEF Inv
<1> HIDE DEF x
<1>2. /\ x.engine = "exit0" /\ \A s \in Streams : InDiffs(r, diffs, s)
      /\ DiffsOK(x, r, diffs)
  BY <1>1 DEF RunOK, MetricOK
<1>3. r \notin failures
  BY <1>1, <1>2 DEF RunOK, FailureOK
<1>4. Compared(r) = Streams
  BY <1>1, <1>2, ComparedIs
<1> QED
  BY <1>1, <1>2, <1>3, <1>4 DEF x, Failing

LEMMA BadgeOfRun ==
  ASSUME Inv, NEW r \in DOMAIN metrics, diffs[Len(diffs)].run = r
  PROVE  Badge <=> \A s \in Streams : run[r].match[s]
<1>1. /\ r \in Runs /\ \A s \in Streams : InDiffs(r, diffs, s)
  BY MetricStands
<1>2. \A i \in 1 .. Len(diffs) : diffs[i].run = r => diffs[i].match = run[r].match[diffs[i].stream]
  BY MetricStands DEF DiffsOK
<1>3. diffs \in Seq(DiffType) /\ Len(diffs) \in Nat
  BY LenProperties DEF Inv
<1>4. DOMAIN diffs = 1 .. Len(diffs) /\ \A i \in 1 .. Len(diffs) : diffs[i].stream \in Streams
  <2>1. \A i \in 1 .. Len(diffs) : diffs[i] \in DiffType
    BY <1>3, ElementOfSeq
  <2> QED
    BY <1>3, <2>1 DEF DiffType
<1>5. diffs # <<>>
  <2>1. PICK i \in 1 .. Len(diffs) : diffs[i].run = r
    BY <1>1, StreamFacts DEF InDiffs
  <2> QED
    BY <2>1, PipeEmpty
<1>6. Badge <=> \A i \in 1 .. Len(diffs) : diffs[i].run = r => diffs[i].match
  <2>1. Badge <=> \A d \in Range(diffs) : d.run = r => d.match
    BY <1>5 DEF Badge
  <2>2. Range(diffs) = {diffs[i] : i \in 1 .. Len(diffs)}
    BY <1>4 DEF Range
  <2> QED
    BY <2>1, <2>2
<1>7. ASSUME \A s \in Streams : run[r].match[s], NEW i \in 1 .. Len(diffs), diffs[i].run = r
      PROVE  diffs[i].match
  BY <1>2, <1>4, <1>7
<1>8. ASSUME \A i \in 1 .. Len(diffs) : diffs[i].run = r => diffs[i].match, NEW s \in Streams
      PROVE  run[r].match[s]
  <2>1. PICK i \in 1 .. Len(diffs) : diffs[i].run = r /\ diffs[i].stream = s
    BY <1>1 DEF InDiffs
  <2> QED
    BY <1>2, <1>8, <2>1
<1> QED
  BY <1>6, <1>7, <1>8

LEMMA FailureReached ==
  ASSUME Inv, NEW r \in Runs, run[r].kind = "sync", run[r].engine = "exit1",
         run[r].ing = "eof", run[r].sent > 1
  PROVE  r \in failures
<1> DEFINE x == run[r]
<1>1. /\ RunOK(x, r, diffs, metrics, failures, clock) /\ x.kind = "sync"
      /\ x.engine = "exit1" /\ x.ing = "eof" /\ x.sent > 1
  BY DEF Inv
<1> HIDE DEF x
<1>2. ControlOK(x) /\ PipeOK(x, clock) /\ FailureOK(x, r, failures)
  BY <1>1 DEF RunOK
<1> QED
  BY <1>1, <1>2, AtTheEnd DEF FailureOK, Following

-----------------------------------------------------------------------------
(* The theorems.                                                           *)

\* Events, tables and both processes of every run stay related as Inv says, whatever
\* fails, dies or restarts.
THEOREM InvariantHolds == Spec => []Inv
BY InitInv, NextInv, PTL DEF Spec

\* A sync with a metric has compared every stream and has not failed, and last_sync_at
\* is the time of such a sync.
THEOREM SyncedIsCompared == Spec => []SyncedMeansCompared
<1>1. Inv => SyncedMeansCompared
  BY MetricStands DEF Inv, LastSyncOK, SyncedMeansCompared
<1> QED
  BY <1>1, InvariantHolds, PTL

\* The badge of a pipeline whose newest comparison is of a complete sync is green
\* exactly when the engine computed equal digests for every stream.
THEOREM BadgeIsTrue == Spec => []BadgeTellsTruth
<1>1. Inv => BadgeTellsTruth
  BY BadgeOfRun DEF BadgeTellsTruth
<1> QED
  BY <1>1, InvariantHolds, PTL

-----------------------------------------------------------------------------
(* What is past stays: the tables, and the runs that are over.             *)

Over == {"ok", "error", "lost"}

\* A run that is over has no ingester left.
Quiet == \A r \in Runs : run[r].pc # "running" => run[r].ing \in {"off", "eof", "failed"}

\* What a step may do to a run, x, by the ingester (1), the engine (2), the runner (3 to
\* 5) or a restart (6).
RunStep(x, y) ==
  \/ x.ing \notin {"off", "eof", "failed"} /\ y.pc = x.pc
  \/ y.pc = x.pc /\ y.ing = x.ing /\ y.stored = x.stored
  \/ x.pc = "off" /\ y.pc = "prepare" /\ y.ing = x.ing
  \/ x.pc = "prepare" /\ (y.pc = "running" \/ (y.pc = "error" /\ y.ing = x.ing))
  \/ /\ x.pc = "running" /\ x.ing \in {"eof", "failed"} /\ y.ing = x.ing
     /\ y.pc \in {"ok", "error"}
  \/ x.pc \in {"prepare", "running"} /\ y.pc = "lost" /\ y.ing = "off"

OneRunSteps(r) == RunStep(run[r], run'[r]) /\ \A q \in Runs \ {r} : run'[q] = run[q]

Fields == {"kind", "pc", "engine", "at", "match", "pipe", "sent", "ing", "cur", "pairs",
           "stored"}

LEMMA RunFields ==
  ASSUME RunsOK, NEW r \in Runs
  PROVE  run[r] \in RunType /\ DOMAIN run = Runs /\ DOMAIN run[r] = Fields
BY RunFacts, RunUpdates DEF Fields

LEMMA RunnerSteps ==
  ASSUME RunsOK, NEW r \in Runs,
         StartSync(r) \/ LaunchBackfill(r) \/ StartJob(r) \/ Prepare(r) \/ FailPrepare(r)
            \/ Return(r) \/ EndJob(r)
  PROVE  OneRunSteps(r)
<1> DEFINE x == run[r]
<1>1. x \in RunType /\ DOMAIN run = Runs /\ DOMAIN x = Fields
  BY RunFields
<1>2. ASSUME NEW kind, Begin(r, kind) PROVE OneRunSteps(r)
  <2> DEFINE y == [x EXCEPT !.kind = kind, !.pc = "prepare"]
  <2>1. run' = [run EXCEPT ![r] = y] /\ x.pc = "off"
    BY <1>1, <1>2, Zenon DEF Begin
  <2>2. y.pc = "prepare" /\ y.ing = x.ing
    BY ONLY <1>1 DEF Fields
  <2> HIDE DEF y
  <2> QED
    BY <1>1, <2>1, <2>2 DEF OneRunSteps, RunStep
<1>3. ASSUME Prepare(r) PROVE OneRunSteps(r)
  <2> DEFINE y == [x EXCEPT !.pc = "running", !.engine = "info", !.ing = "read"]
  <2>1. run' = [run EXCEPT ![r] = y] /\ x.pc = "prepare"
    BY <1>1, <1>3, Zenon DEF Prepare
  <2>2. y.pc = "running"
    BY ONLY <1>1 DEF Fields
  <2> HIDE DEF y
  <2>3. run'[r] = y /\ \A q \in Runs \ {r} : run'[q] = run[q]
    BY <1>1, <2>1
  <2>4. RunStep(x, y)
    BY <2>1, <2>2 DEF RunStep
  <2> QED
    BY <2>3, <2>4 DEF OneRunSteps
<1>4. ASSUME FailPrepare(r) PROVE OneRunSteps(r)
  <2> DEFINE y == [x EXCEPT !.pc = "error"]
  <2>1. run' = [run EXCEPT ![r] = y] /\ x.pc = "prepare"
    BY <1>4 DEF FailPrepare
  <2>2. y.pc = "error" /\ y.ing = x.ing
    BY <1>1, EndFacts
  <2> HIDE DEF y
  <2> QED
    BY <1>1, <2>1, <2>2 DEF OneRunSteps, RunStep
<1>5. ASSUME Return(r) PROVE OneRunSteps(r)
  <2> DEFINE good == [x EXCEPT !.pc = "ok"]
             bad == [x EXCEPT !.pc = "error"]
  <2>1. /\ run' = [run EXCEPT ![r] = good] \/ run' = [run EXCEPT ![r] = bad]
        /\ x.pc = "running" /\ x.ing \in {"eof", "failed"}
    BY <1>1, <1>5 DEF Return
  <2>2. good.pc = "ok" /\ good.ing = x.ing
    BY <1>1, EndFacts
  <2>3. bad.pc = "error" /\ bad.ing = x.ing
    BY <1>1, EndFacts
  <2> HIDE DEF good, bad
  <2> QED
    BY <1>1, <2>1, <2>2, <2>3 DEF OneRunSteps, RunStep
<1>6. ASSUME StartJob(r) \/ EndJob(r) PROVE OneRunSteps(r)
  BY <1>6 DEF StartJob, EndJob, UpdateJob, OneRunSteps, RunStep
<1> QED
  BY <1>2, <1>3, <1>4, <1>5, <1>6 DEF StartSync, LaunchBackfill

\* A record of the engine's making: all but what is the runner's and the ingester's.
EngineOf(x, y) == y.pc = x.pc /\ y.ing = x.ing /\ y.stored = x.stored

LEMMA EngineStep ==
  ASSUME RunsOK, NEW r \in Runs, NEW y, run' = [run EXCEPT ![r] = y], EngineOf(run[r], y)
  PROVE  OneRunSteps(r)
<1>1. DOMAIN run = Runs
  BY RunFields
<1> QED
  BY <1>1 DEF OneRunSteps, RunStep, EngineOf

LEMMA EmitSteps ==
  ASSUME RunsOK, NEW r \in Runs, NEW e, NEW next, DOMAIN next = Fields,
         EngineOf(run[r], next), Emit(r, e, next)
  PROVE  OneRunSteps(r)
<1> DEFINE y == [next EXCEPT !.pipe = Append(@, e), !.sent = @ + 1]
           z == Failed(r, "killed")
<1>1. \/ run' = [run EXCEPT ![r] = y] \/ run' = [run EXCEPT ![r] = next]
      \/ run' = [run EXCEPT ![r] = z]
  BY Zenon DEF Emit
<1>2. EngineOf(run[r], y)
  BY DEF EngineOf, Fields
<1>3. EngineOf(run[r], z)
  BY FailedFacts, Zenon DEF EngineOf, Failing
<1> HIDE DEF y, z
<1> QED
  BY <1>1, <1>2, <1>3, EngineStep

\* Where the process goes on, and what it leaves when it fails.
LEMMA EngineRecords ==
  ASSUME RunsOK, NEW r \in Runs
  PROVE  /\ \A pc : DOMAIN Goto(r, pc) = Fields /\ EngineOf(run[r], Goto(r, pc))
         /\ \A pc : LET y == [Goto(r, pc) EXCEPT !.at = @ + 1]
                    IN  DOMAIN y = Fields /\ EngineOf(run[r], y)
         /\ \A code \in Failing : /\ DOMAIN Failed(r, code) = Fields
                                  /\ EngineOf(run[r], Failed(r, code))
<1> DEFINE x == run[r]
<1>1. DOMAIN x = Fields
  BY RunFields
<1>2. ASSUME NEW pc PROVE DOMAIN Goto(r, pc) = Fields /\ EngineOf(run[r], Goto(r, pc))
  BY <1>1 DEF Goto, EngineOf, Fields
<1>3. ASSUME NEW pc
      PROVE  LET y == [Goto(r, pc) EXCEPT !.at = @ + 1]
             IN  DOMAIN y = Fields /\ EngineOf(run[r], y)
  <2> DEFINE z == Goto(r, pc)
  <2>1. DOMAIN z = Fields /\ EngineOf(x, z)
    BY <1>2
  <2> HIDE DEF z, x
  <2>2. LET y == [z EXCEPT !.at = @ + 1] IN DOMAIN y = Fields /\ EngineOf(x, y)
    BY ONLY <2>1 DEF EngineOf, Fields
  <2> QED
    BY <2>2 DEF z, x
<1>4. ASSUME NEW code \in Failing
      PROVE  DOMAIN Failed(r, code) = Fields /\ EngineOf(run[r], Failed(r, code))
  BY FailedFacts, RunUpdates, Zenon DEF EngineOf, Fields
<1> QED
  BY <1>2, <1>3, <1>4

LEMMA EngineSteps ==
  ASSUME RunsOK, NEW r \in Runs, Engine(r) \/ Kill(r)
  PROVE  OneRunSteps(r)
<1>1. /\ DOMAIN run = Runs /\ DOMAIN run[r] = Fields
      /\ \A pc : DOMAIN Goto(r, pc) = Fields /\ EngineOf(run[r], Goto(r, pc))
      /\ \A code \in Failing : DOMAIN Failed(r, code) = Fields
                               /\ EngineOf(run[r], Failed(r, code))
      /\ {"failing", "exit1", "killed"} = Failing
  BY RunFields, EngineRecords DEF Failing
<1>2. ASSUME EmitInfo(r) \/ EmitStarted(r) \/ EmitFailed(r) \/ EmitSource(r)
               \/ EmitFinished(r)
      PROVE  OneRunSteps(r)
  <2>1. \E e, pc : Emit(r, e, Goto(r, pc))
    BY <1>2 DEF EmitInfo, EmitStarted, EmitFailed, EmitSource, EmitFinished
  <2> QED
    BY <1>1, <2>1, EmitSteps
<1>3. ASSUME EmitDestination(r) PROVE OneRunSteps(r)
  <2> DEFINE y == [Goto(r, "work") EXCEPT !.at = @ + 1]
  <2>1. DOMAIN y = Fields /\ EngineOf(run[r], y)
    BY EngineRecords
  <2>2. \E e : Emit(r, e, Goto(r, "finish")) \/ Emit(r, e, y)
    BY <1>3 DEF EmitDestination
  <2> HIDE DEF y
  <2> QED
    BY <1>1, <2>1, <2>2, EmitSteps
<1>4. ASSUME EmitVerified(r) PROVE OneRunSteps(r)
  <2>1. \E e : Emit(r, e, Goto(r, "exit0")) \/ Emit(r, e, Failed(r, "exit1"))
    BY <1>4 DEF EmitVerified
  <2> QED
    BY <1>1, <2>1, EmitSteps
<1>5. ASSUME FailSetup(r) \/ FailStream(r) \/ FailVerify(r) PROVE OneRunSteps(r)
  <2>1. \E code \in Failing : run' = [run EXCEPT ![r] = Failed(r, code)]
    BY <1>1, <1>5 DEF FailSetup, FailStream, FailVerify
  <2> QED
    BY <1>1, <2>1, EngineStep
<1>6. ASSUME WorkStream(r) PROVE OneRunSteps(r)
  <2>1. PICK same \in BOOLEAN :
          run' = [run EXCEPT ![r].engine = "source", ![r].match[run[r].at] = same]
    BY <1>6 DEF WorkStream
  <2> DEFINE match == [run[r].match EXCEPT ![run[r].at] = same]
             y == [run[r] EXCEPT !.engine = "source", !.match = match]
  <2>2. run' = [run EXCEPT ![r] = y]
    BY <1>1, <2>1 DEF Fields
  <2> HIDE DEF match
  <2>3. EngineOf(run[r], y)
    BY <1>1 DEF EngineOf, Fields
  <2> HIDE DEF y
  <2> QED
    BY <2>2, <2>3, EngineStep
<1>7. ASSUME Kill(r) PROVE OneRunSteps(r)
  <2> DEFINE z == Failed(r, "killed")
  <2>1. PICK part : run' = [run EXCEPT ![r] = [z EXCEPT !.pipe = @ \o part]]
    BY <1>7 DEF Kill
  <2> DEFINE y == [z EXCEPT !.pipe = @ \o part]
  <2>2. DOMAIN z = Fields /\ EngineOf(run[r], z)
    BY <1>1
  <2> HIDE DEF z
  <2>3. EngineOf(run[r], y)
    BY <2>2 DEF EngineOf, Fields
  <2> HIDE DEF y
  <2>4. run' = [run EXCEPT ![r] = y]
    BY <2>1 DEF y
  <2> QED
    BY <2>3, <2>4, EngineStep
<1> QED
  BY <1>2, <1>3, <1>4, <1>5, <1>6, <1>7 DEF Engine

LEMMA IngestSteps ==
  ASSUME RunsOK, NEW r \in Runs, Ingest(r) \/ FailIngest(r)
  PROVE  OneRunSteps(r) /\ run[r].ing \notin {"off", "eof", "failed"}
<1> DEFINE x == run[r]
<1>1. x \in RunType /\ DOMAIN run = Runs /\ DOMAIN x = Fields
  BY RunFields
<1>2. x.ing \notin {"off", "eof", "failed"}
  BY DEF Ingest, Insert, Compare, RecordMetric, MarkSynced, Process,
         EndOfEvents, FailIngest
<1>3. ASSUME NEW y, run' = [run EXCEPT ![r] = y], y.pc = x.pc
      PROVE  OneRunSteps(r)
  BY <1>1, <1>2, <1>3 DEF OneRunSteps, RunStep
<1>4. ASSUME Insert(r) PROVE OneRunSteps(r)
  <2> DEFINE skip == [x EXCEPT !.pipe = Tail(x.pipe)]
             ing == IF Head(x.pipe).kind \in {"checksum", "finished"} THEN "derive"
                    ELSE "process"
             take == [x EXCEPT !.pipe = Tail(x.pipe), !.cur = Head(x.pipe),
                               !.stored = x.stored + 1, !.ing = ing]
  <2>1. run' = [run EXCEPT ![r] = skip] \/ run' = [run EXCEPT ![r] = take]
    BY <1>1, <1>4, Zenon DEF Insert
  <2>2. skip.pc = x.pc /\ take.pc = x.pc
    BY ONLY <1>1 DEF Fields
  <2> HIDE DEF skip, take
  <2> QED
    BY <1>3, <2>1, <2>2
<1>5. ASSUME Compare(r) PROVE OneRunSteps(r)
  <2>1. PICK s, after : run' = [run EXCEPT ![r].ing = "process", ![r].pairs[s] = after]
    BY <1>5, Zenon DEF Compare
  <2> DEFINE pairs == [x.pairs EXCEPT ![s] = after]
             y == [x EXCEPT !.ing = "process", !.pairs = pairs]
  <2>2. run' = [run EXCEPT ![r] = y]
    BY <1>1, <2>1 DEF Fields
  <2> HIDE DEF pairs
  <2>3. y.pc = x.pc
    BY ONLY <1>1 DEF Fields
  <2> HIDE DEF y
  <2> QED
    BY <1>3, <2>2, <2>3
<1>6. ASSUME RecordMetric(r) \/ MarkSynced(r) \/ EndOfEvents(r)
      PROVE  OneRunSteps(r)
  <2>1. PICK ing : run' = [run EXCEPT ![r].ing = ing]
    BY <1>6, Zenon DEF RecordMetric, MarkSynced, EndOfEvents
  <2> DEFINE y == [x EXCEPT !.ing = ing]
  <2>2. run' = [run EXCEPT ![r] = y]
    BY <1>1, <2>1
  <2>3. y.pc = x.pc
    BY ONLY <1>1 DEF Fields
  <2> HIDE DEF y
  <2> QED
    BY <1>3, <2>2, <2>3
<1>7. ASSUME Process(r) PROVE OneRunSteps(r)
  <2> DEFINE y == [x EXCEPT !.ing = "read", !.cur = NoEvent]
  <2>1. run' = [run EXCEPT ![r] = y]
    BY <1>1, <1>7, Zenon DEF Process
  <2>2. y.pc = x.pc
    BY ONLY <1>1 DEF Fields
  <2> HIDE DEF y
  <2> QED
    BY <1>3, <2>1, <2>2
<1>8. ASSUME FailIngest(r) PROVE OneRunSteps(r)
  <2> DEFINE z == Dropped(r)
             y == [z EXCEPT !.ing = "failed"]
  <2>1. run' = [run EXCEPT ![r] = y]
    BY <1>8 DEF FailIngest
  <2>2. z \in RunType /\ z.pc = x.pc
    BY DroppedFacts, Zenon
  <2>3. DOMAIN z = Fields
    BY <2>2, RunUpdates DEF Fields
  <2> HIDE DEF z
  <2>4. y.pc = x.pc
    BY <2>2, <2>3 DEF Fields
  <2> HIDE DEF y
  <2> QED
    BY <1>3, <2>1, <2>4
<1> QED
  BY <1>2, <1>4, <1>5, <1>6, <1>7, <1>8 DEF Ingest

LEMMA RestartSteps ==
  ASSUME RunsOK, Restart
  PROVE  \A r \in Runs : RunStep(run[r], run'[r])
<1> TAKE r \in Runs
<1> DEFINE x == run[r]
           z == Dropped(r)
           y == [z EXCEPT !.pc = "lost", !.ing = "off", !.sent = 0, !.stored = 0]
<1>1. run'[r] = IF x.pc \in {"prepare", "running"} THEN y ELSE x
  BY DEF Restart
<1>2. z \in RunType
  BY DroppedFacts
<1>3. DOMAIN z = Fields
  BY <1>2, RunUpdates DEF Fields
<1> HIDE DEF z
<1>4. y.pc = "lost" /\ y.ing = "off"
  BY <1>3 DEF Fields
<1> HIDE DEF y, x
<1>5. RunStep(x, run'[r])
  BY <1>1, <1>4 DEF RunStep
<1> QED
  BY <1>5 DEF x

LEMMA EveryRunSteps ==
  ASSUME RunsOK, [Next]_vars
  PROVE  \A r \in Runs : RunStep(run[r], run'[r])
<1>1. \A x : RunStep(x, x)
  BY DEF RunStep
<1>2. CASE \E q \in Runs : OneRunSteps(q)
  BY <1>1, <1>2 DEF OneRunSteps
<1>3. CASE Restart
  BY <1>3, RestartSteps
<1>4. CASE UNCHANGED vars
  BY <1>1, <1>4 DEF vars
<1>5. ASSUME Next PROVE Restart \/ \E q \in Runs : OneRunSteps(q)
  BY <1>5, RunnerSteps, EngineSteps, IngestSteps DEF Next, Progress
<1> QED
  BY <1>2, <1>3, <1>4, <1>5

LEMMA QuietStays ==
  ASSUME Inv, Quiet, [Next]_vars
  PROVE  Quiet'
<1>1. \A r \in Runs : /\ RunStep(run[r], run'[r])
                      /\ run[r].pc = "prepare" => run[r].ing = "off"
  BY EveryRunSteps, InvParts, RunFacts DEF RunOK, ControlOK
<1> QED
  BY <1>1 DEF Quiet, RunStep

-----------------------------------------------------------------------------
(* The backfill jobs, and the failures the rules did not hear of.          *)

JobType == [status : {"none", "queued", "running", "succeeded", "failed"},
            todo : {"none", "start", "end"}]

\* What job j of run x says is so; it is settled when nothing is left to do, unless an
\* UPDATE failed or the control plane restarted.
JobOK(x, j, t) ==
  /\ j.status = "succeeded" => x.pc = "ok"
  /\ j.status = "failed" => x.pc = "error"
  /\ j.todo = "none" => j.status \in {"none", "succeeded", "failed"} \/ t > 0

RecordsOK ==
  /\ jobs \in [Runs -> JobType] /\ troubles \in Nat
  /\ \A r \in Runs : JobOK(run[r], jobs[r], troubles)
  /\ unheard \subseteq failures /\ (unheard # {} => troubles > 0)

\* Troubles only mount up, and unheard grows with one of them.
LEMMA TroublesMount ==
  ASSUME RecordsOK, [Next]_vars
  PROVE  /\ troubles' \in Nat /\ troubles <= troubles'
         /\ unheard' \subseteq failures' /\ (unheard' # {} => troubles' > 0)
<1>1. /\ troubles \in Nat /\ unheard \subseteq failures /\ (unheard # {} => troubles > 0)
  BY DEF RecordsOK
<1>2. ASSUME UNCHANGED <<failures, unheard>>, troubles' = troubles \/ troubles' = troubles + 1
      PROVE  /\ troubles' \in Nat /\ troubles <= troubles'
             /\ unheard' \subseteq failures' /\ (unheard' # {} => troubles' > 0)
  BY <1>1, <1>2
<1>3. ASSUME NEW r \in Runs, Process(r)
      PROVE  /\ troubles' \in Nat /\ troubles <= troubles'
             /\ unheard' \subseteq failures' /\ (unheard' # {} => troubles' > 0)
  <2>1. /\ failures' = failures \cup {r} \/ failures' = failures
        /\ \/ UNCHANGED <<unheard, troubles>> /\ failures \subseteq failures'
           \/ /\ troubles' = troubles + 1 /\ unheard' = unheard \cup {r}
              /\ failures' = failures \cup {r}
    BY <1>3 DEF Process
  <2> QED
    BY <1>1, <2>1
<1>4. ASSUME NEW r \in Runs, Ingest(r), ~ Process(r)
      PROVE  UNCHANGED <<failures, unheard, troubles>>
  BY <1>4 DEF Ingest, Insert, Compare, RecordMetric, MarkSynced, EndOfEvents, tables
<1>5. ASSUME NEW r \in Runs, StartSync(r) \/ LaunchBackfill(r) \/ Prepare(r)
                               \/ FailPrepare(r) \/ Return(r) \/ Kill(r) \/ FailIngest(r)
                               \/ StartJob(r) \/ EndJob(r)
      PROVE  UNCHANGED <<failures, unheard>> /\ (troubles' = troubles \/ troubles' = troubles + 1)
  BY <1>5 DEF StartSync, LaunchBackfill, Begin, Prepare, FailPrepare, Return, Kill,
              FailIngest, StartJob, EndJob, UpdateJob, tables
<1>6. ASSUME NEW r \in Runs, Engine(r) PROVE UNCHANGED <<failures, unheard, troubles>>
  BY <1>6 DEF Engine, EmitInfo, FailSetup, EmitStarted, WorkStream, FailStream, EmitFailed,
              EmitSource, EmitDestination, EmitFinished, EmitVerified, FailVerify, Emit, tables
<1>7. Restart => UNCHANGED <<failures, unheard>> /\ troubles' = troubles + 1
  BY DEF Restart, tables
<1>8. UNCHANGED vars => UNCHANGED <<failures, unheard, troubles>>
  BY DEF vars, tables
<1> QED
  BY <1>2, <1>3, <1>4, <1>5, <1>6, <1>7, <1>8 DEF Next, Progress

\* What a step does to the jobs: a backfill starts one, its goroutine updates it, and a
\* restart forgets what was left to do.
JobStep(x, j, j1, t, t1) ==
  \/ j1 = j
  \/ x.pc = "off" /\ j1 = [status |-> "queued", todo |-> "start"]
  \/ /\ j.todo = "start"
     /\ j1 = [status |-> "running", todo |-> "end"] \/ j1 = [j EXCEPT !.todo = "end"]
  \/ /\ j.todo = "end" /\ x.pc \in {"ok", "error"}
     /\ \/ j1 = [status |-> IF x.pc = "ok" THEN "succeeded" ELSE "failed", todo |-> "none"]
        \/ j1 = [j EXCEPT !.todo = "none"] /\ t1 = t + 1
  \/ j1 = [j EXCEPT !.todo = "none"] /\ t1 = t + 1

LEMMA JobSteps ==
  ASSUME RecordsOK, [Next]_vars
  PROVE  \A r \in Runs : JobStep(run[r], jobs[r], jobs'[r], troubles, troubles')
<1>1. jobs \in [Runs -> JobType]
  BY DEF RecordsOK
<1>2. jobs' = jobs => \A r \in Runs : JobStep(run[r], jobs[r], jobs'[r], troubles, troubles')
  BY DEF JobStep
<1>3. ASSUME NEW q \in Runs, LaunchBackfill(q)
      PROVE  \A r \in Runs : JobStep(run[r], jobs[r], jobs'[r], troubles, troubles')
  BY <1>1, <1>3 DEF LaunchBackfill, Begin, JobStep
<1>4. ASSUME NEW q \in Runs, StartJob(q)
      PROVE  \A r \in Runs : JobStep(run[r], jobs[r], jobs'[r], troubles, troubles')
  BY <1>1, <1>4 DEF StartJob, UpdateJob, JobStep, JobType
<1>5. ASSUME NEW q \in Runs, EndJob(q)
      PROVE  \A r \in Runs : JobStep(run[r], jobs[r], jobs'[r], troubles, troubles')
  BY <1>1, <1>5 DEF EndJob, UpdateJob, JobStep, JobType
<1>6. ASSUME Restart
      PROVE  \A r \in Runs : JobStep(run[r], jobs[r], jobs'[r], troubles, troubles')
  BY <1>6 DEF Restart, JobStep
<1>7. ASSUME NEW r \in Runs, StartSync(r) \/ Prepare(r) \/ FailPrepare(r) \/ Return(r)
                               \/ Kill(r) \/ FailIngest(r) \/ Ingest(r)
      PROVE  jobs' = jobs
  BY <1>7 DEF StartSync, Prepare, FailPrepare, Return, Kill, FailIngest, Ingest, Insert,
              Compare, RecordMetric, MarkSynced, Process, EndOfEvents
<1>8. ASSUME NEW r \in Runs, Engine(r) PROVE jobs' = jobs
  BY <1>8 DEF Engine, EmitInfo, FailSetup, EmitStarted, WorkStream, FailStream, EmitFailed,
              EmitSource, EmitDestination, EmitFinished, EmitVerified, FailVerify, Emit
<1>9. UNCHANGED vars => jobs' = jobs
  BY DEF vars
<1> QED
  BY <1>2, <1>3, <1>4, <1>5, <1>6, <1>7, <1>8, <1>9 DEF Next, Progress

LEMMA JobsTyped ==
  ASSUME RecordsOK, [Next]_vars
  PROVE  jobs' \in [Runs -> JobType]
<1>1. jobs \in [Runs -> JobType]
  BY DEF RecordsOK
<1>2. jobs' = jobs \/ jobs' = [r \in Runs |-> jobs'[r]]
  <2>1. ASSUME NEW r \in Runs, LaunchBackfill(r) \/ StartJob(r) \/ EndJob(r)
        PROVE  jobs' = [q \in Runs |-> jobs'[q]]
    BY <1>1, <2>1 DEF LaunchBackfill, StartJob, EndJob, UpdateJob
  <2>2. Restart => jobs' = [r \in Runs |-> jobs'[r]]
    BY DEF Restart
  <2>3. ASSUME NEW r \in Runs, StartSync(r) \/ Prepare(r) \/ FailPrepare(r) \/ Return(r)
                                 \/ Kill(r) \/ FailIngest(r) \/ Ingest(r)
        PROVE  jobs' = jobs
    BY <2>3 DEF StartSync, Prepare, FailPrepare, Return, Kill, FailIngest, Ingest, Insert,
                Compare, RecordMetric, MarkSynced, Process, EndOfEvents
  <2>4. ASSUME NEW r \in Runs, Engine(r) PROVE jobs' = jobs
    BY <2>4 DEF Engine, EmitInfo, FailSetup, EmitStarted, WorkStream, FailStream, EmitFailed,
                EmitSource, EmitDestination, EmitFinished, EmitVerified, FailVerify, Emit
  <2>5. UNCHANGED vars => jobs' = jobs
    BY DEF vars
  <2> QED
    BY <2>1, <2>2, <2>3, <2>4, <2>5 DEF Next, Progress
<1>3. ASSUME NEW r \in Runs PROVE jobs'[r] \in JobType
  <2>1. JobStep(run[r], jobs[r], jobs'[r], troubles, troubles') /\ jobs[r] \in JobType
    BY <1>1, JobSteps
  <2> QED
    BY <2>1 DEF JobStep, JobType
<1> QED
  BY <1>1, <1>2, <1>3

\* The job of a run that is over moves only while its goroutine has an UPDATE to do.
LEMMA JobsMove ==
  ASSUME RecordsOK, [Next]_vars
  PROVE  \A r \in Runs : run[r].pc # "off" /\ jobs[r].todo = "none" => jobs'[r] = jobs[r]
<1> TAKE r \in Runs
<1>1. JobStep(run[r], jobs[r], jobs'[r], troubles, troubles') /\ jobs[r] \in JobType
  BY JobSteps DEF RecordsOK
<1>2. jobs[r].todo = "none" => [jobs[r] EXCEPT !.todo = "none"] = jobs[r]
  BY <1>1 DEF JobType
<1> QED
  BY <1>1, <1>2 DEF JobStep

LEMMA RecordsStay ==
  ASSUME Inv, RecordsOK, [Next]_vars
  PROVE  RecordsOK'
<1>1. ASSUME NEW r \in Runs PROVE JobOK(run'[r], jobs'[r], troubles')
  <2>1. /\ JobOK(run[r], jobs[r], troubles) /\ jobs[r] \in JobType /\ troubles \in Nat
        /\ troubles' \in Nat /\ troubles <= troubles'
    BY TroublesMount DEF RecordsOK
  <2>2. RunStep(run[r], run'[r])
    BY EveryRunSteps, InvParts
  <2>3. JobStep(run[r], jobs[r], jobs'[r], troubles, troubles')
    BY JobSteps
  <2>4. run[r].pc \in {"ok", "error"} => run'[r].pc = run[r].pc
    BY <2>2 DEF RunStep
  <2> DEFINE p == run[r].pc
             p1 == run'[r].pc
             j == jobs[r]
             j1 == jobs'[r]
             t == troubles
             t1 == troubles'
  <2>5. \/ j1 = j
        \/ j1.status = j.status /\ j1.todo = "end"
        \/ j1.status \in {"queued", "running"} /\ j1.todo # "none"
        \/ /\ p \in {"ok", "error"} /\ j1.todo = "none"
           /\ j1.status = IF p = "ok" THEN "succeeded" ELSE "failed"
        \/ j1.status = j.status /\ t1 > 0
    BY <2>1, <2>3 DEF JobStep, JobType
  <2>6. /\ j.status = "succeeded" => p = "ok"
        /\ j.status = "failed" => p = "error"
        /\ j.todo = "none" => j.status \in {"none", "succeeded", "failed"} \/ t > 0
    BY <2>1 DEF JobOK
  <2>7. t > 0 => t1 > 0
    BY <2>1
  <2>8. p \in {"ok", "error"} => p1 = p
    BY <2>4
  <2> HIDE DEF p, p1, j, j1, t, t1
  <2>9. /\ j1.status = "succeeded" => p1 = "ok"
        /\ j1.status = "failed" => p1 = "error"
        /\ j1.todo = "none" => j1.status \in {"none", "succeeded", "failed"} \/ t1 > 0
    BY ONLY <2>5, <2>6, <2>7, <2>8
  <2> QED
    BY <2>9 DEF JobOK, p1, j1, t1
<1> QED
  BY <1>1, JobsTyped, TroublesMount DEF RecordsOK

\* Whatever fails or restarts, jobs and the rules' failures are recorded as RecordsOK says.
THEOREM RecordsHold == Spec => []RecordsOK
<1>1. Init => RecordsOK
  BY DEF Init, RecordsOK, JobOK, JobType, NoJob
<1> QED
  BY <1>1, RecordsStay, InvariantHolds, PTL DEF Spec

\* The runs' phases and the jobs are the runner's and the API's, the pipe is within its
\* capacity, and last_sync_at is a time that has passed.
THEOREM TypesHold == Spec => []TypeOK
<1>1. Inv /\ RecordsOK => TypeOK
  <2> SUFFICES ASSUME Inv, RecordsOK PROVE TypeOK
    OBVIOUS
  <2>1. ASSUME NEW r \in Runs
        PROVE  /\ run[r].pc \in {"off", "prepare", "running", "ok", "error", "lost"}
               /\ run[r].at \in Streams /\ Len(run[r].pipe) <= PipeCap
    <3> DEFINE x == run[r]
    <3>1. x \in RunType /\ PipeOK(x, clock)
      BY DEF Inv, RunOK
    <3> HIDE DEF x
    <3>2. /\ x.pc \in {"off", "prepare", "running", "ok", "error", "lost"}
          /\ x.at \in Streams /\ Len(x.pipe) <= PipeCap
      BY <3>1 DEF RunType, PipeOK
    <3> QED
      BY <3>2 DEF x
  <2>2. ASSUME NEW r \in Runs
        PROVE  /\ jobs[r].status \in {"none", "queued", "running", "succeeded", "failed"}
               /\ jobs[r].todo \in {"none", "start", "end"}
    <3>1. jobs[r] \in JobType
      BY DEF RecordsOK
    <3> QED
      BY <3>1 DEF JobType
  <2>3. /\ DOMAIN metrics \subseteq Runs /\ failures \subseteq Runs /\ unheard \subseteq failures
        /\ last_sync \in 0 .. clock
    BY DEF Inv, LastSyncOK, RecordsOK
  <2> QED
    BY <2>1, <2>2, <2>3 DEF TypeOK
<1> QED
  BY <1>1, InvariantHolds, RecordsHold, PTL

\* A run reported as a success, by its return or by its job: every event of the engine
\* is stored, a sync has its metric and a comparison of every stream, a backfill a
\* comparison.  Its job says so, or its UPDATE is still to come, or something failed.
THEOREM SuccessesAreAccounted == Spec => []SuccessIsAccounted
<1>1. Inv /\ RecordsOK => SuccessIsAccounted
  <2> SUFFICES ASSUME Inv, RecordsOK PROVE SuccessIsAccounted
    OBVIOUS
  <2>1. ASSUME NEW r \in Runs, run[r].pc = "ok" \/ jobs[r].status = "succeeded"
        PROVE  /\ run[r].pc = "ok" /\ jobs[r].status # "failed"
               /\ jobs[r].status \in {"none", "succeeded"} \/ jobs[r].todo # "none"
                    \/ troubles > 0
    BY <2>1 DEF RecordsOK, JobOK
  <2> QED
    BY <2>1, RunSucceeded DEF SuccessIsAccounted
<1> QED
  BY <1>1, InvariantHolds, RecordsHold, PTL

\* When a sync that failed returns and its events were read to the end, the failure was
\* handed to the rules; the rules that did not see it could not be loaded or evaluated.
THEOREM FailuresAreSeen == Spec => []FailureIsSeen
<1>1. Inv /\ RecordsOK => FailureIsSeen
  BY FailureReached DEF RecordsOK, FailureIsSeen
<1> QED
  BY <1>1, InvariantHolds, RecordsHold, PTL

-----------------------------------------------------------------------------
(* What a step adds to the tables.                                         *)

\* A comparison, metric or failure that a step adds to the tables.
TablesGrow(r) ==
  /\ diffs' = diffs \/ \E d \in DiffType : d.run = r /\ diffs' = Append(diffs, d)
  /\ \A q \in DOMAIN metrics : q \in DOMAIN metrics' /\ metrics'[q] = metrics[q]
  /\ DOMAIN metrics' \subseteq DOMAIN metrics \cup {r}
  /\ failures \subseteq failures' /\ failures' \subseteq failures \cup {r}

LEMMA IngestGrows ==
  ASSUME Inv, NEW r \in Runs, Ingest(r)
  PROVE  TablesGrow(r)
<1>1. RunsOK /\ clock \in Nat
  BY InvParts DEF TablesOK
<1>2. CASE Compare(r)
  <2> DEFINE x == run[r]
             s == x.cur.stream
             pair == [x.pairs[s] EXCEPT ![x.cur.side] = x.cur.digest]
             d == [run |-> r, stream |-> s, match |-> pair["source"] = pair["destination"]]
  <2>1. /\ x.cur.kind = "checksum" /\ x.cur \in EventType \cup {NoEvent}
    BY <1>1, <1>2, RunFacts DEF Compare, RunType
  <2>2. s \in Streams
    BY <2>1, EventKinds, NoEventIsNone
  <2>3. diffs' = diffs \/ diffs' = Append(diffs, d)
    BY <1>2, Zenon DEF Compare
  <2>4. d \in DiffType /\ d.run = r
    BY <2>2 DEF DiffType
  <2>5. metrics' = metrics /\ failures' = failures
    BY <1>2 DEF Compare
  <2> HIDE DEF d
  <2> QED
    BY <2>3, <2>4, <2>5 DEF TablesGrow
<1>3. CASE RecordMetric(r)
  BY <1>1, <1>3, RecordMetricKeeps DEF TablesGrow, RecordMetric
<1>4. CASE Insert(r) \/ MarkSynced(r) \/ Process(r) \/ EndOfEvents(r)
  BY <1>4 DEF TablesGrow, Insert, MarkSynced, Process, EndOfEvents, tables
<1> QED
  BY <1>2, <1>3, <1>4 DEF Ingest

LEMMA OthersLeaveTables ==
  ASSUME [Next]_vars, \A r \in Runs : ~ Ingest(r)
  PROVE  UNCHANGED <<diffs, metrics, failures>>
<1>1. ASSUME NEW r \in Runs, StartSync(r) \/ LaunchBackfill(r) \/ Prepare(r)
                               \/ FailPrepare(r) \/ Return(r) \/ Kill(r) \/ FailIngest(r)
                               \/ StartJob(r) \/ EndJob(r)
      PROVE  UNCHANGED tables
  BY <1>1 DEF StartSync, LaunchBackfill, Begin, Prepare, FailPrepare, Return, Kill,
              FailIngest, StartJob, EndJob, UpdateJob
<1>2. ASSUME NEW r \in Runs, Engine(r) PROVE UNCHANGED tables
  BY <1>2 DEF Engine, EmitInfo, FailSetup, EmitStarted, WorkStream, FailStream, EmitFailed,
              EmitSource, EmitDestination, EmitFinished, EmitVerified, FailVerify, Emit
<1>3. Restart => UNCHANGED tables
  BY DEF Restart
<1> QED
  BY <1>1, <1>2, <1>3 DEF Next, Progress, vars, tables

\* A run that is over keeps its outcome, and its job too when no UPDATE is left to do;
\* no ingester stores for it.  Comparisons, metrics and failures are only added, each
\* while its run is in progress.
OutcomesAreFinal ==
  /\ \A r \in Runs : run[r].pc \in Over =>
        /\ run'[r].pc = run[r].pc /\ (jobs[r].todo = "none" => jobs'[r] = jobs[r])
        /\ run'[r].ing = run[r].ing /\ run'[r].stored = run[r].stored
  /\ Len(diffs) <= Len(diffs') /\ \A i \in 1 .. Len(diffs) : diffs'[i] = diffs[i]
  /\ \A i \in Len(diffs) + 1 .. Len(diffs') : run[diffs'[i].run].pc = "running"
  /\ \A r \in DOMAIN metrics : r \in DOMAIN metrics' /\ metrics'[r] = metrics[r]
  /\ \A r \in DOMAIN metrics' \ DOMAIN metrics : run[r].pc = "running"
  /\ failures \subseteq failures'
  /\ \A r \in failures' \ failures : run[r].pc = "running"

LEMMA StepIsFinal ==
  ASSUME Inv, Quiet, RecordsOK, [Next]_vars
  PROVE  OutcomesAreFinal
<1>1. RunsOK /\ diffs \in Seq(DiffType) /\ Len(diffs) \in Nat
  BY InvParts, LenProperties
<1>2. \A r \in Runs : run[r].pc \in Over =>
        /\ run'[r].pc = run[r].pc
        /\ run'[r].ing = run[r].ing /\ run'[r].stored = run[r].stored
  BY <1>1, EveryRunSteps DEF Quiet, RunStep, Over
<1>5. \A r \in Runs : run[r].pc \in Over /\ jobs[r].todo = "none" => jobs'[r] = jobs[r]
  BY JobsMove DEF Over
<1>3. CASE \A r \in Runs : ~ Ingest(r)
  BY <1>1, <1>2, <1>3, <1>5, OthersLeaveTables DEF OutcomesAreFinal
<1>4. ASSUME NEW r \in Runs, Ingest(r) PROVE OutcomesAreFinal
  <2>1. run[r].pc = "running"
    BY <1>1, <1>4, IngestSteps DEF Quiet
  <2>2. TablesGrow(r)
    BY <1>4, IngestGrows
  <2>3. /\ Len(diffs) <= Len(diffs') /\ \A i \in 1 .. Len(diffs) : diffs'[i] = diffs[i]
        /\ \A i \in Len(diffs) + 1 .. Len(diffs') : diffs'[i].run = r
    <3>1. CASE diffs' = diffs
      BY <1>1, <3>1
    <3>2. ASSUME NEW d \in DiffType, d.run = r, diffs' = Append(diffs, d)
          PROVE  <2>3!1
      BY <1>1, <3>2, DiffsAppend
    <3> QED
      BY <2>2, <3>1, <3>2 DEF TablesGrow
  <2> QED
    BY <1>2, <1>5, <2>1, <2>2, <2>3 DEF OutcomesAreFinal, TablesGrow
<1> QED
  BY <1>3, <1>4

\* Whatever fails or overlaps, outcomes, metrics and comparisons stand once they are
\* recorded, and nothing is recorded for a run that has returned or was lost.
THEOREM HistoryStands == Spec => [][OutcomesAreFinal]_vars
<1>1. Init => Quiet
  BY DEF Init, Unused, Quiet
<1>2. Inv /\ Quiet /\ [Next]_vars => Quiet'
  BY QuietStays
<1>3. Inv /\ Quiet /\ RecordsOK /\ [Next]_vars => OutcomesAreFinal
  BY StepIsFinal
<1>4. Spec => []Quiet
  BY <1>1, <1>2, InvariantHolds, PTL DEF Spec
<1> QED
  BY <1>3, <1>4, InvariantHolds, RecordsHold, PTL DEF Spec

-----------------------------------------------------------------------------
(***************************************************************************)
(* The scheduler that starts the runs (Scheduler), for any pipelines,      *)
(* slots and bounds: types, the agreement of the in-flight marks with the  *)
(* runs in progress and, from it, that scheduled runs never overlap.       *)
(* Without manual runs and without restarts no two sync processes of a     *)
(* pipeline overlap at all; the model checker shows that each of the two   *)
(* breaks that.  Backfill jobs, which start processes of the same pipeline *)
(* whatever is in progress, are RunOutcome's.                              *)
(***************************************************************************)
CONSTANTS ManualRuns, MaxFails, MaxRestarts

S == INSTANCE Scheduler

\* What Scheduler assumes of its constants.
SchedulerBounds == ManualRuns \in BOOLEAN /\ MaxFails \in Nat /\ MaxRestarts \in Nat

\* The scheduler's run in slot s is in progress and waited for.
Held(s) == by[s] = "scheduler" /\ stage[s] \in Attended

\* A pipeline has at most one scheduled run in progress.
OneHeld == \A s, t \in Slots : s # t /\ Held(s) /\ Held(t) => pipe[s] # pipe[t]

MarkInv == S!TypeOK /\ OneHeld /\ MarksMatchRuns

-----------------------------------------------------------------------------
(* Type correctness.                                                       *)

LEMMA InitTypeOK == ASSUME SchedulerBounds PROVE S!Init => S!TypeOK
BY SchedulerBounds DEF SchedulerBounds, S!Init, S!TypeOK, S!Stages

LEMMA NextTypeOK ==
  ASSUME SchedulerBounds, S!TypeOK, [S!Next]_(S!vars)
  PROVE  S!TypeOK'
<1> USE SchedulerBounds DEF SchedulerBounds, S!TypeOK, S!Stages
<1>1. ASSUME NEW p \in Pipelines, S!Age(p) PROVE S!TypeOK'
  BY <1>1 DEF S!Age, S!run
<1>2. ASSUME NEW p \in Pipelines, NEW to \in {"active", "paused", "archived"},
             S!SetStatus(p, to)
      PROVE  S!TypeOK'
  BY <1>2 DEF S!SetStatus, S!run
<1>3. ASSUME S!Tick PROVE S!TypeOK'
  BY <1>3 DEF S!Tick, S!run, S!table
<1>4. ASSUME NEW p \in Pipelines, S!Skip(p) PROVE S!TypeOK'
  BY <1>4 DEF S!Skip, S!run, S!table
<1>5. ASSUME NEW p \in Pipelines, NEW s \in Slots, S!Trigger(p, s) \/ S!RunNow(p, s)
      PROVE  S!TypeOK'
  BY <1>5 DEF S!Trigger, S!RunNow, S!Spawn, S!table
<1>6. ASSUME NEW s \in Slots, S!Load(s) \/ S!StartSync(s) \/ S!Exit(s) \/ S!OrphanDies(s)
      PROVE  S!TypeOK'
  BY <1>6 DEF S!Load, S!StartSync, S!Exit, S!OrphanDies, S!table
<1>7. ASSUME NEW s \in Slots, S!SyncFinished(s) PROVE S!TypeOK'
  BY <1>7 DEF S!SyncFinished
<1>8. ASSUME NEW s \in Slots, S!FailRun(s) PROVE S!TypeOK'
  BY <1>8 DEF S!FailRun, S!table
<1>9. ASSUME NEW s \in Slots, S!Return(s) PROVE S!TypeOK'
  BY <1>9 DEF S!Return, S!table
<1>10. ASSUME S!Restart PROVE S!TypeOK'
  BY <1>10 DEF S!Restart, S!table
<1>11. ASSUME UNCHANGED S!vars PROVE S!TypeOK'
  BY <1>11 DEF S!vars, S!table, S!run
<1> QED
  BY <1>1, <1>2, <1>3, <1>4, <1>5, <1>6, <1>7, <1>8, <1>9, <1>10, <1>11
     DEF S!Next, S!Loop, S!Users, S!RunStep

(***************************************************************************)
(* Every reachable state of the scheduler, its runs and the pipelines      *)
(* table is well typed.                                                    *)
(***************************************************************************)
THEOREM ScheduleTypesHold == ASSUME SchedulerBounds PROVE S!Spec => []S!TypeOK
BY SchedulerBounds, InitTypeOK, NextTypeOK, PTL DEF S!Spec

-----------------------------------------------------------------------------
(* Marks and runs.                                                         *)

LEMMA InitMarkInv == ASSUME SchedulerBounds PROVE S!Init => MarkInv
BY SchedulerBounds, InitTypeOK DEF S!Init, MarkInv, OneHeld, MarksMatchRuns, Held, Attended

\* Nothing a step may do to a run matters that leaves it held, or not held.
LEMMA SameHeld ==
  ASSUME S!TypeOK, MarkInv, UNCHANGED <<running, pipe>>,
         \A s \in Slots : Held(s)' <=> Held(s)
  PROVE  OneHeld' /\ MarksMatchRuns'
BY DEF MarkInv, OneHeld, MarksMatchRuns, Held

LEMMA TriggerMarks ==
  ASSUME MarkInv, NEW p \in Pipelines, NEW s \in Slots, S!Trigger(p, s)
  PROVE  OneHeld' /\ MarksMatchRuns'
<1> USE DEF MarkInv
<1>1. /\ running' = running \cup {p}
      /\ pipe'[s] = p /\ Held(s)' /\ ~Held(s)
      /\ \A t \in Slots \ {s} : pipe'[t] = pipe[t] /\ (Held(t)' <=> Held(t))
  BY DEF S!Trigger, S!Spawn, S!TypeOK, Held, Attended
<1>2. \A t \in Slots : Held(t) => pipe[t] \in running
  BY DEF MarksMatchRuns, Held
<1>3. \A t \in Slots : Held(t) => pipe[t] # p
  BY <1>2 DEF S!Trigger
<1>4. OneHeld'
  BY <1>1, <1>3 DEF OneHeld
<1>5. MarksMatchRuns'
  BY <1>1 DEF MarksMatchRuns, Held
<1> QED
  BY <1>4, <1>5

LEMMA ReturnMarks ==
  ASSUME MarkInv, NEW s \in Slots, S!Return(s)
  PROVE  OneHeld' /\ MarksMatchRuns'
<1> USE DEF MarkInv
<1>1. /\ pipe' = pipe /\ ~Held(s)'
      /\ \A t \in Slots \ {s} : Held(t)' <=> Held(t)
  BY DEF S!Return, S!TypeOK, Held, Attended
<1>2. CASE by[s] = "scheduler"
  <2>1. Held(s) /\ running' = running \ {pipe[s]}
    BY <1>2 DEF S!Return, Held, Attended
  <2>2. \A t \in Slots \ {s} : Held(t) => pipe[t] # pipe[s]
    BY <2>1 DEF OneHeld
  <2> QED
    BY <1>1, <2>1, <2>2 DEF OneHeld, MarksMatchRuns, Held
<1>3. CASE by[s] # "scheduler"
  <2>1. ~Held(s) /\ running' = running
    BY <1>3 DEF S!Return, Held
  <2> QED
    BY <1>1, <2>1, SameHeld
<1> QED
  BY <1>2, <1>3

LEMMA NextMarkInv ==
  ASSUME SchedulerBounds, MarkInv, [S!Next]_(S!vars)
  PROVE  MarkInv'
<1> DEFINE Goal == OneHeld' /\ MarksMatchRuns'
<1>0. S!TypeOK
  BY DEF MarkInv
<1>1. ASSUME UNCHANGED <<running, S!run>> PROVE Goal
  BY <1>0, <1>1, SameHeld DEF S!run, Held
<1>2. ASSUME NEW p \in Pipelines, NEW s \in Slots, S!Trigger(p, s) PROVE Goal
  BY <1>2, TriggerMarks
<1>3. ASSUME NEW p \in Pipelines, NEW s \in Slots, S!RunNow(p, s) PROVE Goal
  <2>1. /\ running' = running /\ ~Held(s) /\ ~Held(s)'
        /\ \A t \in Slots \ {s} : pipe'[t] = pipe[t] /\ (Held(t)' <=> Held(t))
    BY <1>0, <1>3 DEF S!RunNow, S!Spawn, S!TypeOK, Held, Attended
  <2> QED
    BY <2>1 DEF MarkInv, OneHeld, MarksMatchRuns, Held
<1>4. ASSUME NEW s \in Slots,
             S!Load(s) \/ S!StartSync(s) \/ S!SyncFinished(s) \/ S!Exit(s) \/ S!FailRun(s)
                     \/ S!OrphanDies(s)
      PROVE  Goal
  <2>1. UNCHANGED <<running, pipe, by>>
    BY <1>4 DEF S!Load, S!StartSync, S!SyncFinished, S!Exit, S!FailRun, S!OrphanDies
  <2>2. \A t \in Slots : Held(t)' <=> Held(t)
    BY <1>0, <1>4 DEF S!Load, S!StartSync, S!SyncFinished, S!Exit, S!FailRun, S!OrphanDies,
                      Held, Attended, S!TypeOK
  <2> QED
    BY <1>0, <2>1, <2>2, SameHeld
<1>5. ASSUME NEW s \in Slots, S!Return(s) PROVE Goal
  BY <1>5, ReturnMarks
<1>6. ASSUME S!Restart PROVE Goal
  <2>1. running' = {} /\ \A s \in Slots : ~Held(s)'
    BY <1>6 DEF S!Restart, Held, Attended
  <2> QED
    BY <2>1 DEF OneHeld, MarksMatchRuns, Held
<1>7. Goal
  BY <1>1, <1>2, <1>3, <1>4, <1>5, <1>6
     DEF S!Next, S!Loop, S!Users, S!RunStep, S!Tick, S!Skip, S!Age, S!SetStatus, S!vars
<1> QED
  BY <1>0, <1>7, SchedulerBounds, NextTypeOK DEF MarkInv

LEMMA MarkInvInvariant == ASSUME SchedulerBounds PROVE S!Spec => []MarkInv
BY SchedulerBounds, InitMarkInv, NextMarkInv, PTL DEF S!Spec

(***************************************************************************)
(* Scheduler.running is exactly the set of pipelines with a scheduled run  *)
(* in progress: deferring clearRunning in the run's own goroutine neither  *)
(* leaks a mark nor drops another run's.                                   *)
(***************************************************************************)
THEOREM MarksAreExact == ASSUME SchedulerBounds PROVE S!Spec => []MarksMatchRuns
<1>1. MarkInv => MarksMatchRuns
  BY DEF MarkInv
<1> QED
  BY <1>1, SchedulerBounds, MarkInvInvariant, PTL

(***************************************************************************)
(* Two sync processes of one pipeline that the scheduler started and waits *)
(* for are never alive together, whatever users and restarts do.           *)
(***************************************************************************)
THEOREM ScheduledRunsNeverOverlap ==
  ASSUME SchedulerBounds
  PROVE  S!Spec => []ScheduledNeverOverlap
<1>1. MarkInv => ScheduledNeverOverlap
  <2> SUFFICES ASSUME MarkInv, NEW s \in Slots, NEW t \in Slots, Overlap(s, t),
                      \A x \in {s, t} : by[x] # "api" /\ stage[x] # "orphan"
               PROVE  FALSE
    BY DEF ScheduledNeverOverlap
  <2>1. Held(s) /\ Held(t)
    BY DEF MarkInv, S!TypeOK, Overlap, Alive, Held, Attended
  <2> QED
    BY <2>1 DEF MarkInv, OneHeld, Overlap
<1> QED
  BY <1>1, SchedulerBounds, MarkInvInvariant, PTL

-----------------------------------------------------------------------------
(* A control plane that is never restarted and whose users start nothing.  *)

Undisturbed == ManualRuns = FALSE /\ MaxRestarts = 0

OnlyScheduled == \A s \in Slots : by[s] = "scheduler" /\ stage[s] # "orphan"

LEMMA NextOnlyScheduled ==
  ASSUME Undisturbed, S!TypeOK, OnlyScheduled, [S!Next]_(S!vars)
  PROVE  OnlyScheduled'
<1> USE DEF OnlyScheduled
<1>1. ASSUME UNCHANGED S!run PROVE OnlyScheduled'
  BY <1>1 DEF S!run
<1>2. ASSUME NEW p \in Pipelines, NEW s \in Slots, S!Trigger(p, s) PROVE OnlyScheduled'
  BY <1>2 DEF S!Trigger, S!Spawn, S!TypeOK
<1>3. ASSUME NEW p \in Pipelines, NEW s \in Slots, S!RunNow(p, s) PROVE OnlyScheduled'
  BY <1>3, Undisturbed DEF S!RunNow, Undisturbed
<1>4. ASSUME NEW s \in Slots, S!RunStep(s) PROVE OnlyScheduled'
  BY <1>4 DEF S!RunStep, S!Load, S!StartSync, S!SyncFinished, S!Exit, S!FailRun, S!Return,
              S!OrphanDies, S!TypeOK
<1>5. ASSUME S!Restart PROVE OnlyScheduled'
  BY <1>5, Undisturbed DEF S!Restart, Undisturbed, S!TypeOK
<1> QED
  BY <1>1, <1>2, <1>3, <1>4, <1>5 DEF S!Next, S!Loop, S!Users, S!Tick, S!Skip, S!Age, S!SetStatus, S!vars

(***************************************************************************)
(* With the scheduler alone, and no restart, a pipeline never has two sync *)
(* processes: the promise of scheduler.go, under the conditions it needs.  *)
(***************************************************************************)
THEOREM UndisturbedNeverOverlaps ==
  ASSUME SchedulerBounds, Undisturbed
  PROVE  S!Spec => []NeverOverlap
<1>1. S!Init => OnlyScheduled
  BY DEF S!Init, OnlyScheduled
<1>2. MarkInv /\ OnlyScheduled /\ [S!Next]_(S!vars) => OnlyScheduled'
  BY Undisturbed, NextOnlyScheduled DEF MarkInv
<1>3. MarkInv /\ OnlyScheduled => NeverOverlap
  BY DEF MarkInv, S!TypeOK, OneHeld, Held, OnlyScheduled, NeverOverlap, Overlap, Alive, Attended
<1> QED
  BY <1>1, <1>2, <1>3, SchedulerBounds, MarkInvInvariant, PTL DEF S!Spec

=============================================================================
