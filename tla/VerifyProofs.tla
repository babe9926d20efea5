---------------------------- MODULE VerifyProofs ----------------------------
(***************************************************************************)
(* Proofs about Verify, for any ids, slices, formats, thresholds, clock    *)
(* resolution and bounds: what the destination shows of a row is the       *)
(* newest version flushed or one the sync has yet to tell again            *)
(* (NewestVersionWins), the verdict of a quiet verification is right       *)
(* (VerdictIsRight), a backfill reconciles its slice (BackfillCorrects),   *)
(* and the drill-down names the offending ids and no others                *)
(* (DrillDownIsExact).  Inv carries the first three; the last has an       *)
(* invariant of its own, DrillInv, that needs nothing but the types.       *)
(***************************************************************************)
EXTENDS Verify, FiniteSetTheorems, SequenceTheorems, WellFoundedInduction, TLAPS

Rec == [id : Ids, ver : Nat \ {0}, op : {"r", "u", "d"}, at : Nat, part : Nat]
Delivery == Ids \X (Nat \ {0}) \X {"u", "d"}
Change == Ids \X {"u", "d"}
Phases == {"off", "writing", "flushing", "closing", "flushed", "verifying"}

ProcType(last) ==
    [pc : Phases, view : SUBSET Delivery, pending : Seq(Rec), part : 0 .. last,
     slice : SUBSET Ids, upto : Nat, lost : SUBSET Ids]

Types ==
    /\ format \in Formats
    /\ ver \in [Ids -> Nat \ {0}] /\ live \subseteq Ids
    /\ changes \in Seq(Change) /\ saved \in 0 .. Len(changes)
    /\ dest \in Seq(Rec) /\ torn \subseteq 1 .. opened /\ tail \in BOOLEAN
    /\ proc \in [Procs -> ProcType(opened)]
    /\ now \in Nat /\ opened \in Nat /\ runs \in Nat /\ stops \in Nat
    /\ overlapped \in BOOLEAN

VerifyTypes ==
    /\ DOMAIN v = {"pc", "by", "unread", "src", "dst", "work", "ranges", "samples",
                   "match", "steady", "since"}
    /\ v.pc \in {"idle", "source", "bisect", "done", "error"}
    /\ v.by \in {"verify", "backfill"}
    /\ v.unread \subseteq Chunks
    /\ v.match \in BOOLEAN /\ v.steady \in BOOLEAN /\ v.since \in BOOLEAN

\* Version n is one of id i, of the source's first state or of its log.
Told(i, n) == n = 1 \/ (n - 1 \in DOMAIN changes /\ changes[n - 1][1] = i)

\* The log has the last version of every id.
LogInv ==
    /\ \A i \in Ids : Told(i, ver[i])
    /\ \A n \in DOMAIN changes : n + 1 <= ver[changes[n][1]]

\* The rows on disk are the source's and of the past, and every id has one.
DestInv ==
    /\ \A n \in DOMAIN dest :
          dest[n].at <= now /\ dest[n].part <= opened /\ Told(dest[n].id, dest[n].ver)
    /\ \A i \in Ids : \E n \in DOMAIN dest : dest[n].id = i

LastRow(n) == \A m \in DOMAIN dest : dest[m].id = dest[n].id => m <= n
Newest(n) == \A m \in DOMAIN dest : dest[m].id = dest[n].id => dest[m].ver <= dest[n].ver

\* As long as writers do not overlap, rows stand in the order of their times and of
\* their part-files, and the last row of an id is its newest or a version that the sync
\* has yet to tell again.
OrderInv ==
    ~ overlapped =>
        /\ \A p, q \in Procs : p # q => proc[p].pc = "off" \/ proc[q].pc = "off"
        /\ \A m, n \in DOMAIN dest : m < n =>
              dest[m].at <= dest[n].at /\ dest[m].part <= dest[n].part
        /\ \A n \in DOMAIN dest : LastRow(n) => Newest(n) \/ dest[n].ver > saved + 1

\* What a writer holds, to be written or written, is the source's and in the order of
\* its versions.
HeldInv(x) ==
    /\ x.part >= 1
    /\ \A r \in x.view : Told(r[1], r[2])
    /\ \A k \in DOMAIN x.pending :
          /\ Told(x.pending[k].id, x.pending[k].ver)
          /\ x.pending[k].at <= now /\ x.pending[k].part = x.part
          /\ \A r \in x.view : x.pending[k].ver <= r[2]
    /\ \A k, l \in DOMAIN x.pending : k < l =>
          x.pending[k].at <= x.pending[l].at /\ x.pending[k].ver <= x.pending[l].ver

\* What is on disk was written before, and is of no later version than what the writer
\* holds, unless the sync tells that again.
AfterInv(x) ==
    \A n \in DOMAIN dest :
        /\ dest[n].part < x.part
        /\ \A r \in x.view : dest[n].id = r[1] => dest[n].ver <= r[2] \/ r[2] > saved + 1
        /\ \A k \in DOMAIN x.pending :
              /\ dest[n].at <= x.pending[k].at
              /\ dest[n].id = x.pending[k].id =>
                    dest[n].ver <= x.pending[k].ver \/ x.pending[k].ver > saved + 1

Writing(p) == proc[p].pc \in {"writing", "flushing", "closing"}

WriterInv ==
    \A p \in Procs :
        /\ Writing(p) => HeldInv(proc[p])
        /\ Writing(p) /\ ~ overlapped => AfterInv(proc[p])
        /\ proc[p].pc \in {"flushing", "closing"} => proc[p].view = {}

\* A writer that is not writing holds nothing.
RestInv == \A p \in Procs : ~ Writing(p) => proc[p].pending = <<>>

Holds(x, i, n) ==
    \/ \E r \in x.view : r[1] = i /\ r[2] = n
    \/ \E k \in DOMAIN x.pending : x.pending[k].id = i /\ x.pending[k].ver = n

\* A sync holds every change after the saved position up to its own, until they are on
\* disk; then the last row of every id is its newest.
SyncInv ==
    LET x == proc["sync"] IN
    /\ x.pc # "verifying"
    /\ x.pc # "off" => saved <= x.upto /\ x.upto <= Len(changes)
    /\ Writing("sync") =>
          /\ \A r \in x.view : r[2] <= x.upto + 1
          /\ \A k \in DOMAIN x.pending : x.pending[k].ver <= x.upto + 1
    /\ x.pc \in {"writing", "flushing"} =>
          \A n \in saved + 1 .. x.upto : Holds(x, changes[n][1], n + 1)
    /\ x.pc # "off" /\ ~ overlapped => \A n \in DOMAIN dest : dest[n].ver <= x.upto + 1
    /\ x.pc = "flushed" /\ ~ overlapped =>
          \A n \in DOMAIN dest : LastRow(n) => Newest(n)

\* From some row of id i on, its rows are upserts of what the source holds.
Corrected(i) ==
    \E n \in DOMAIN dest :
        /\ dest[n].id = i
        /\ \A m \in DOMAIN dest :
              dest[m].id = i /\ n <= m => dest[m].ver = ver[i] /\ dest[m].op = "u"

\* A backfill of a source that stands still holds the source's row of every id of its
\* slice, and nothing else, until it is on disk or swallowed by a torn line.
BackfillInv ==
    LET x == proc["backfill"] IN
    /\ Writing("backfill") /\ v.since =>
          /\ \A r \in x.view : r[2] = ver[r[1]] /\ r[3] = "u"
          /\ \A k \in DOMAIN x.pending :
                x.pending[k].ver = ver[x.pending[k].id] /\ x.pending[k].op = "u"
          /\ x.pc # "closing" => \A i \in x.slice \cap live : Holds(x, i, ver[i])
    /\ x.pc \in {"flushed", "verifying"} /\ v.since /\ ~ overlapped =>
          \A i \in x.slice \cap live : i \in x.lost \/ Corrected(i)

\* The source stood still since the verification or the backfill that it closes began.
SourceStill == v.steady \/ (v.by = "backfill" /\ v.since)

IsMap(m) == DOMAIN m \subseteq Ids /\ m = [i \in DOMAIN m |-> m[i]]

VerdictInv ==
    /\ v.pc # "idle" /\ v.by = "backfill" => proc["backfill"].pc = "verifying"
    /\ v.pc \in {"source", "bisect", "done"} => IsMap(v.src)
    /\ v.pc = "source" /\ SourceStill =>
          v.src = [i \in live \ UNION v.unread |-> ver[i]]
    /\ v.pc \in {"bisect", "done"} =>
          /\ IsMap(v.dst)
          /\ SourceStill => v.src = [i \in live |-> ver[i]]
          /\ v.steady => v.dst = CurrentState
          /\ v.by = "backfill" /\ v.since /\ ~ overlapped =>
                \A i \in proc["backfill"].slice \cap live :
                    \/ Misordered(i) \/ i \in proc["backfill"].lost
                    \/ i \in DOMAIN v.dst /\ v.dst[i] = ver[i]
    /\ v.pc = "bisect" => v.match = FALSE /\ v.src # v.dst
    /\ v.pc = "done" => (v.match <=> v.src = v.dst)

Ascends(s) == \A m, n \in DOMAIN s : m < n => s[m] < s[n]

\* In the middle of a drill-down of the offending ids M: the ranges still to look at lie
\* in order, behind the samples; no offending id is outside both the ranges noted and
\* those to come, and until the cap is reached each one is a sample or still to come.
DrillOK(M, work, ranges, samples) ==
    /\ work \in Seq(Seq(Ids)) /\ samples \in Seq(Ids) /\ Len(samples) <= SampleCap
    /\ Ascends(samples) /\ \A a \in DOMAIN work : Ascends(work[a])
    /\ \A a, b \in DOMAIN work : a < b =>
          \A x \in Range(work[a]), y \in Range(work[b]) : x < y
    /\ \A x \in Range(samples) :
          x \in M /\ \A a \in DOMAIN work : \A y \in Range(work[a]) : x < y
    /\ \A x \in M : \/ \E a \in DOMAIN work : x \in Range(work[a])
                    \/ /\ \E r \in ranges : r[1] <= x /\ x <= r[2]
                       /\ Len(samples) < SampleCap => x \in Range(samples)

DrillInv ==
    /\ v.pc = "source" => v.samples = <<>>
    /\ v.pc \in {"bisect", "done"} /\ ~ v.match =>
          /\ DrillOK(Mismatched, v.work, v.ranges, v.samples)
          /\ v.pc = "done" => v.work = <<>>

DiskInv == LogInv /\ DestInv /\ OrderInv /\ WriterInv /\ SyncInv

Inv == Types /\ VerifyTypes /\ RestInv /\ DiskInv /\ BackfillInv /\ VerdictInv

-----------------------------------------------------------------------------
(* What is a function of the rows on disk changes with them only.          *)

LEMMA SameDisk ==
  ASSUME dest' = dest, format' = format
  PROVE  CurrentState' = CurrentState /\ \A i \in Ids : Misordered(i)' <=> Misordered(i)
BY DEF CurrentState, Latest, Supersedes, ReadBefore, TextOrder, Misordered

-----------------------------------------------------------------------------
(* The greatest of a finite set under a rank.                              *)

LEMMA NatHasLeast ==
  ASSUME NEW S \in SUBSET Nat, S # {}
  PROVE  \E x \in S : \A y \in S : x <= y
<1> DEFINE R == {ss \in Nat \X Nat : ss[1] < ss[2]}
<1>1. IsWellFoundedOn(R, Nat)
  BY NatLessThanWellFounded, Zenon DEF OpToRel
<1>2. \E x \in S : \A y \in S : <<y, x>> \notin R
  BY <1>1, WFMin
<1>3. \A x, y \in Nat : <<y, x>> \notin R => x <= y
  OBVIOUS
<1>4. \A x \in S : x \in Nat
  OBVIOUS
<1> HIDE DEF R
<1> QED
  BY <1>2, <1>3, <1>4

LEMMA FiniteHasGreatest ==
  ASSUME NEW S, IsFiniteSet(S), S # {}, NEW f, \A x \in S : f[x] \in Int
  PROVE  \E x \in S : \A y \in S : f[y] <= f[x]
<1> DEFINE Top(T) == \E x \in T : \A y \in T : f[y] <= f[x]
           Bad == {n \in Nat : \E T \in SUBSET S :
                                  T # {} /\ Cardinality(T) = n /\ ~ Top(T)}
<1>1. ASSUME Bad # {} PROVE FALSE
  <2>1. PICK n \in Bad : \A m \in Bad : n <= m
    BY <1>1, NatHasLeast
  <2>2. PICK T \in SUBSET S : T # {} /\ Cardinality(T) = n /\ ~ Top(T)
    BY <2>1
  <2>3. PICK x \in T : TRUE
    BY <2>2
  <2> DEFINE U == T \ {x}
  <2>4. IsFiniteSet(T) /\ IsFiniteSet(U) /\ Cardinality(U) = n - 1 /\ n \in Nat
    BY <2>1, <2>2, <2>3, FS_Subset, FS_RemoveElement
  <2>5. U # {}
    <3> SUFFICES ASSUME U = {} PROVE FALSE
      OBVIOUS
    <3>1. T = {x}
      BY <2>3
    <3>2. f[x] \in Int
      BY <2>2, <2>3
    <3> QED
      BY <2>2, <3>1, <3>2
  <2>6. Cardinality(U) \in Nat
    BY <2>4, FS_CardinalityType
  <2>7. n - 1 \notin Bad
    BY <2>1, <2>4
  <2>8. Top(U)
    <3>1. U \in SUBSET S
      BY <2>2
    <3> QED
      BY <2>4, <2>5, <2>6, <2>7, <3>1
  <2>9. PICK y \in U : \A z \in U : f[z] <= f[y]
    BY <2>8
  <2>10. \A z \in T : f[z] \in Int /\ (z = x \/ z \in U)
    BY <2>2, <2>3
  <2>11. x \in T /\ y \in T /\ f[x] \in Int /\ f[y] \in Int
    BY <2>3, <2>9, <2>10
  <2>12. CASE f[x] <= f[y]
    <3>1. \A z \in T : f[z] <= f[y]
      BY <2>9, <2>10, <2>12
    <3> QED
      BY <2>2, <2>11, <3>1
  <2>13. CASE f[y] <= f[x]
    <3>1. \A z \in T : f[z] <= f[x]
      BY <2>9, <2>10, <2>11, <2>13
    <3> QED
      BY <2>2, <2>11, <3>1
  <2> QED
    BY <2>11, <2>12, <2>13
<1>2. Cardinality(S) \in Nat
  BY FS_CardinalityType
<1>3. Cardinality(S) \notin Bad
  BY <1>1
<1> QED
  BY <1>2, <1>3

-----------------------------------------------------------------------------
(* The reader's order of the rows.                                         *)

LEMMA StampOrder == \A t \in Nat : TextOrder(t) \in Int
<1>1. SecondTicks \in Nat /\ SecondTicks > 0
  BY VerifyAssumption DEF VerifyAssumption
<1>2. ASSUME NEW t \in Nat PROVE TextOrder(t) \in Int
  <2>1. t % SecondTicks \in Int /\ t \div SecondTicks \in Int
    BY <1>1
  <2>2. \A a, b \in Int : a * b \in Int
    OBVIOUS
  <2>3. (t \div SecondTicks) * (SecondTicks + 1) \in Int
    BY <1>1, <2>1, <2>2
  <2> QED
    BY <1>1, <2>1, <2>3 DEF TextOrder
<1> QED
  BY <1>2

LEMMA RowFacts ==
  ASSUME Types, NEW n \in DOMAIN dest
  PROVE  /\ n \in Nat /\ dest[n] \in Rec /\ dest[n].part \in Nat /\ dest[n].at \in Nat
         /\ dest[n].ver \in Nat \ {0} /\ dest[n].id \in Ids /\ TextOrder(dest[n].at) \in Int
<1>1. n \in Nat /\ dest[n] \in Rec
  BY DEF Types
<1>2. /\ dest[n].part \in Nat /\ dest[n].at \in Nat
      /\ dest[n].ver \in Nat \ {0} /\ dest[n].id \in Ids
  BY <1>1 DEF Rec
<1> QED
  BY <1>1, <1>2, StampOrder

\* resolveCurrentState finds one row of each id, which wins over all others.
LEMMA LatestFacts ==
  ASSUME Types, NEW i \in Ids, \E n \in DOMAIN dest : dest[n].id = i
  PROVE  /\ Latest(i) \in DOMAIN dest /\ dest[Latest(i)].id = i
         /\ \A m \in DOMAIN dest \ {Latest(i)} : dest[m].id = i => Supersedes(Latest(i), m)
<1> DEFINE of == {n \in DOMAIN dest : dest[n].id = i}
           text == [n \in of |-> TextOrder(dest[n].at)]
           part == [n \in of |-> IF format = "parquet" THEN dest[n].part ELSE 0]
           place == [n \in of |-> n]
<1>1. IsFiniteSet(of) /\ of # {}
  <2>1. IsFiniteSet(DOMAIN dest)
    BY FS_Interval DEF Types
  <2> QED
    BY <2>1, FS_Subset
<1>2. \A n \in of : text[n] \in Int /\ part[n] \in Int /\ place[n] \in Int
                    /\ dest[n].part \in Nat /\ n \in DOMAIN dest /\ n \in Nat
  BY RowFacts
<1>3. PICK a \in of : \A m \in of : text[m] <= text[a]
  <2> HIDE DEF text, part, place, of
  <2> QED
    BY <1>1, <1>2, FiniteHasGreatest
<1> DEFINE A == {m \in of : text[m] = text[a]}
<1>4. PICK b \in A : \A m \in A : part[m] <= part[b]
  <2>1. A # {} /\ IsFiniteSet(A)
    BY <1>1, <1>3, FS_Subset
  <2>2. \A m \in A : part[m] \in Int
    BY <1>2
  <2> HIDE DEF text, part, place, of, A
  <2> QED
    BY <2>1, <2>2, FiniteHasGreatest
<1> DEFINE B == {m \in A : part[m] = part[b]}
<1>5. PICK c \in B : \A m \in B : place[m] <= place[c]
  <2>1. B # {} /\ IsFiniteSet(B)
    BY <1>1, <1>4, FS_Subset
  <2>2. \A m \in B : place[m] \in Int
    BY <1>2
  <2> HIDE DEF text, part, place, of, A, B
  <2> QED
    BY <2>1, <2>2, FiniteHasGreatest
<1>6. ASSUME NEW m \in of \ {c} PROVE Supersedes(c, m)
  <2>1. text[c] = text[a] /\ part[c] = part[b] /\ c \in of /\ text[m] <= text[c]
        /\ text[m] \in Int /\ text[c] \in Int
    BY <1>2, <1>3, <1>4, <1>5
  <2>2. text[c] = TextOrder(dest[c].at) /\ text[m] = TextOrder(dest[m].at)
    BY <2>1
  <2>3. CASE text[m] # text[c]
    <3>1. text[c] > text[m]
      BY <2>1, <2>3
    <3> QED
      BY <2>2, <3>1 DEF Supersedes
  <2>4. CASE text[m] = text[c]
    <3>1. m \in A /\ part[m] <= part[c] /\ part[m] \in Int /\ part[c] \in Int
      BY <1>2, <1>4, <2>1, <2>4
    <3>2. part[m] = part[c] => m < c
      <4>1. ASSUME part[m] = part[c] PROVE m < c
        <5>1. m \in B
          BY <2>1, <3>1, <4>1
        <5>2. place[m] <= place[c] /\ place[m] = m /\ place[c] = c /\ m # c
          BY <1>5, <2>1, <5>1
        <5>3. m \in Nat /\ c \in Nat
          BY <1>2, <2>1
        <5> QED
          BY ONLY <5>2, <5>3
      <4> QED
        BY <4>1
    <3>3. ReadBefore(m, c)
      <4>1. m \in of /\ c \in of /\ dest[m].part \in Nat /\ dest[c].part \in Nat
        BY <1>2, <2>1
      <4>2. CASE format = "parquet"
        <5>1. part[m] = dest[m].part /\ part[c] = dest[c].part
          BY <4>1, <4>2
        <5> HIDE DEF part
        <5> QED
          BY <3>1, <3>2, <4>1, <4>2, <5>1 DEF ReadBefore
      <4>3. CASE format # "parquet"
        <5>1. part[m] = 0 /\ part[c] = 0
          BY <4>1, <4>3
        <5> HIDE DEF part
        <5> QED
          BY <3>2, <4>3, <5>1 DEF ReadBefore
      <4> QED
        BY <4>2, <4>3
    <3> QED
      BY <2>2, <2>4, <3>3 DEF Supersedes
  <2> QED
    BY <2>3, <2>4
<1>7. c \in of
  BY <1>5
<1> HIDE DEF text, part, place, A, B
<1>8. \E n \in of : \A m \in of \ {n} : Supersedes(n, m)
  BY <1>6, <1>7
<1>9. Latest(i) \in of /\ \A m \in of \ {Latest(i)} : Supersedes(Latest(i), m)
  BY <1>8, Zenon DEF Latest
<1> QED
  BY <1>9

\* Without overlapping writers and misordered stamps that row is the last one.
LEMMA LatestIsLast ==
  ASSUME Types, OrderInv, ~ overlapped, NEW i \in Ids, ~ Misordered(i),
         NEW m \in DOMAIN dest, dest[m].id = i
  PROVE  Latest(i) \in DOMAIN dest /\ dest[Latest(i)].id = i /\ m <= Latest(i)
<1> DEFINE l == Latest(i)
<1>1. l \in DOMAIN dest /\ dest[l].id = i
      /\ \A n \in DOMAIN dest \ {l} : dest[n].id = i => Supersedes(l, n)
  BY LatestFacts
<1> HIDE DEF l
<1>2. /\ l \in Nat /\ m \in Nat /\ dest[l].part \in Nat /\ dest[m].part \in Nat
      /\ dest[l].at \in Nat /\ dest[m].at \in Nat
      /\ TextOrder(dest[l].at) \in Int /\ TextOrder(dest[m].at) \in Int
  BY <1>1, RowFacts
<1>3. ASSUME l < m PROVE FALSE
  <2>1. Supersedes(l, m)
    BY <1>1, <1>2, <1>3
  <2>2. dest[l].at <= dest[m].at /\ dest[l].part <= dest[m].part
    BY <1>1, <1>3 DEF OrderInv
  <2>3. ~ (TextOrder(dest[l].at) > TextOrder(dest[m].at))
    <3> SUFFICES ASSUME TextOrder(dest[l].at) > TextOrder(dest[m].at) PROVE FALSE
      OBVIOUS
    <3>1. dest[l].at # dest[m].at
      BY <1>2
    <3>2. dest[l].at < dest[m].at
      BY <1>2, <2>2, <3>1
    <3> QED
      BY <1>1, <3>2 DEF Misordered
  <2>4. ReadBefore(m, l)
    BY <2>1, <2>3 DEF Supersedes
  <2> QED
    BY <1>2, <1>3, <2>2, <2>4 DEF ReadBefore
<1> QED
  BY <1>1, <1>2, <1>3 DEF l

LEMMA NewestWinsHolds ==
  ASSUME Types, DestInv, OrderInv
  PROVE  NewestWins
<1> SUFFICES ASSUME NEW i \in Ids, ~ overlapped, ~ Misordered(i),
                    ~ (dest[Latest(i)].ver > saved + 1),
                    NEW r \in Range(dest), r.id = i
             PROVE  r.ver <= dest[Latest(i)].ver
  BY Zenon DEF NewestWins
<1>1. PICK m \in DOMAIN dest : dest[m] = r
  BY DEF Range
<1> DEFINE l == Latest(i)
<1>2. l \in DOMAIN dest /\ dest[l].id = i
      /\ \A n \in DOMAIN dest : dest[n].id = i => n <= l
  BY <1>1, LatestIsLast
<1> HIDE DEF l
<1>3. LastRow(l)
  BY <1>2 DEF LastRow
<1>4. Newest(l)
  BY <1>2, <1>3 DEF OrderInv, l
<1> QED
  BY <1>1, <1>2, <1>4 DEF Newest, l

-----------------------------------------------------------------------------
(* Types.                                                                  *)

LEMMA ProcFacts ==
  ASSUME Types, NEW p \in Procs
  PROVE  /\ proc[p] \in ProcType(opened) /\ proc[p].view \subseteq Delivery
         /\ proc[p].pending \in Seq(Rec) /\ proc[p].slice \subseteq Ids
         /\ proc[p].part \in 0 .. opened /\ proc[p].part \in Nat
         /\ proc[p].upto \in Nat /\ proc[p].lost \subseteq Ids
         /\ proc[p].pc \in Phases
<1>1. proc[p] \in ProcType(opened)
  BY DEF Types
<1>2. opened \in Nat
  BY DEF Types
<1> QED
  BY <1>1, <1>2 DEF ProcType

LEMMA ProcUpdate ==
  ASSUME Types, NEW o \in Nat, opened <= o, NEW p \in Procs, NEW x \in ProcType(o),
         proc' = [proc EXCEPT ![p] = x]
  PROVE  proc' \in [Procs -> ProcType(o)]
<1>1. ASSUME NEW q \in Procs PROVE proc[q] \in ProcType(o)
  <2>1. proc[q] \in ProcType(opened) /\ opened \in Nat
    BY DEF Types
  <2>2. 0 .. opened \subseteq 0 .. o
    BY <2>1
  <2> QED
    BY <2>1, <2>2 DEF ProcType
<1> QED
  BY <1>1 DEF Types

LEMMA ProcUpdateSame ==
  ASSUME Types, NEW p \in Procs, NEW x \in ProcType(opened), proc' = [proc EXCEPT ![p] = x]
  PROVE  proc' \in [Procs -> ProcType(opened)]
BY DEF Types

LEMMA IdleType == \A o \in Nat : Idle \in ProcType(o)
BY DEF Idle, ProcType, Phases

LEMMA InitTypes == Init => Types /\ VerifyTypes
<1> SUFFICES ASSUME Init PROVE Types /\ VerifyTypes
  OBVIOUS
<1>1. Cardinality(Ids) \in Nat /\ Ids = 1 .. Cardinality(Ids)
  BY FS_CardinalityType, VerifyAssumption DEF VerifyAssumption
<1>2. dest \in Seq(Rec)
  <2>1. \A i \in Ids : Record(i, 1, "r", 0, 0) \in Rec
    BY DEF Record, Rec
  <2>2. dest \in [1 .. Cardinality(Ids) -> Rec]
    BY <1>1, <2>1 DEF Init
  <2> QED
    BY <1>1, <2>2
<1>3. proc \in [Procs -> ProcType(opened)]
  BY IdleType DEF Init
<1>4. VerifyTypes
  BY DEF Init, NoVerify, VerifyTypes
<1>5. SecondTicks \in Nat
  BY VerifyAssumption DEF VerifyAssumption
<1>6. /\ ver \in [Ids -> Nat \ {0}] /\ live \subseteq Ids /\ changes \in Seq(Change)
      /\ saved \in 0 .. Len(changes) /\ format \in Formats
  BY DEF Init
<1>7. now \in Nat /\ opened \in Nat /\ runs \in Nat /\ stops \in Nat
      /\ overlapped \in BOOLEAN /\ torn \subseteq 1 .. opened /\ tail \in BOOLEAN
  BY <1>5 DEF Init
<1> QED
  BY <1>2, <1>3, <1>4, <1>6, <1>7 DEF Types

LEMMA DeliveryFacts ==
  ASSUME NEW r \in Delivery
  PROVE  /\ r = <<r[1], r[2], r[3]>> /\ r[1] \in Ids /\ r[2] \in Nat \ {0}
         /\ r[3] \in {"u", "d"}
BY DEF Delivery

\* The log: its entries, and the change a version comes from.
LEMMA LogFacts ==
  ASSUME Types
  PROVE  /\ saved \in Nat /\ Len(changes) \in Nat /\ saved <= Len(changes)
         /\ DOMAIN changes = 1 .. Len(changes)
         /\ \A n \in DOMAIN changes :
               changes[n][1] \in Ids /\ changes[n][2] \in {"u", "d"} /\ n \in Nat \ {0}
<1>1. changes \in Seq(Change) /\ Len(changes) \in Nat /\ DOMAIN changes = 1 .. Len(changes)
  BY DEF Types
<1>2. \A n \in DOMAIN changes : changes[n] \in Change
  BY <1>1
<1>3. saved \in 0 .. Len(changes)
  BY DEF Types
<1> QED
  BY <1>1, <1>2, <1>3 DEF Change

LEMMA OpenTypes ==
  ASSUME Types, NEW p \in Procs, NEW view \in SUBSET Delivery, NEW slice \in SUBSET Ids,
         NEW upto \in Nat, Open(p, view, slice, upto)
  PROVE  Types'
<1>1. opened' = opened + 1 /\ opened \in Nat /\ opened' \in Nat /\ opened <= opened'
  BY DEF Open, Types
<1> DEFINE x == [Idle EXCEPT !.pc = "writing", !.view = view, !.part = opened + 1,
                             !.slice = slice, !.upto = upto]
<1>2. x \in ProcType(opened')
  <2>1. Idle \in ProcType(opened') /\ opened + 1 \in 0 .. opened'
    BY <1>1, IdleType
  <2> QED
    BY <2>1 DEF ProcType, Phases
<1>3. proc' = [proc EXCEPT ![p] = x]
  BY DEF Open
<1> HIDE DEF x
<1>4. proc' \in [Procs -> ProcType(opened')]
  BY <1>1, <1>2, <1>3, ProcUpdate
<1>5. torn' \subseteq 1 .. opened'
  BY <1>1 DEF Open, disk, Types
<1> QED
  BY <1>1, <1>4, <1>5 DEF Open, source, disk, Types

\* What StartSync reads.
LEMMA SyncView ==
  ASSUME Types
  PROVE  {<<changes[n][1], n + 1, changes[n][2]>> : n \in saved + 1 .. Len(changes)}
            \in SUBSET Delivery
<1>1. ASSUME NEW n \in saved + 1 .. Len(changes)
      PROVE  <<changes[n][1], n + 1, changes[n][2]>> \in Delivery
  <2>1. n \in DOMAIN changes
    BY LogFacts
  <2> QED
    BY <2>1, LogFacts DEF Delivery
<1> QED
  BY <1>1

LEMMA SourceRows ==
  ASSUME Types, NEW i \in Ids
  PROVE  ver[i] \in Nat \ {0}
BY DEF Types

LEMMA StartTypes ==
  ASSUME Types, StartSync \/ StartBackfill
  PROVE  Types'
<1>1. CASE StartSync
  <2> DEFINE view == {<<changes[n][1], n + 1, changes[n][2]>> :
                         n \in saved + 1 .. Len(changes)}
  <2>1. view \in SUBSET Delivery /\ {} \in SUBSET Ids /\ Len(changes) \in Nat
    BY SyncView, LogFacts
  <2>2. Open("sync", view, {}, Len(changes))
    BY <1>1 DEF StartSync
  <2> HIDE DEF view
  <2> QED
    BY <2>1, <2>2, OpenTypes DEF Procs
<1>2. CASE StartBackfill
  <2>1. PICK s \in Slices \cup {{i \in Ids : ver[i] > 1}} :
               Open("backfill", {<<i, ver[i], "u">> : i \in s \cap live}, s, 0)
    BY <1>2 DEF StartBackfill
  <2> DEFINE view == {<<i, ver[i], "u">> : i \in s \cap live}
  <2>2. s \in SUBSET Ids
    BY VerifyAssumption DEF VerifyAssumption
  <2>3. view \in SUBSET Delivery
    BY <2>2, SourceRows DEF Delivery
  <2> HIDE DEF view
  <2> QED
    BY <2>1, <2>2, <2>3, OpenTypes DEF Procs, view
<1> QED
  BY <1>1, <1>2

\* What SourceWrite makes of the log.
LEMMA SourceWriteFacts ==
  ASSUME Types, NEW i \in Ids, NEW op \in {"u", "d"}, SourceWrite(i, op)
  PROVE  /\ changes' \in Seq(Change) /\ Len(changes') = Len(changes) + 1
         /\ DOMAIN changes' = 1 .. Len(changes) + 1
         /\ changes'[Len(changes) + 1][1] = i
         /\ \A n \in DOMAIN changes : n \in DOMAIN changes' /\ changes'[n] = changes[n]
         /\ ver' = [ver EXCEPT ![i] = Len(changes) + 2]
<1>1. /\ changes \in Seq(Change) /\ changes' = Append(changes, <<i, op>>)
      /\ <<i, op>> \in Change /\ Len(changes) \in Nat
  BY DEF SourceWrite, Types, Change
<1>2. /\ changes' \in Seq(Change) /\ Len(changes') = Len(changes) + 1
      /\ DOMAIN changes' = 1 .. Len(changes) + 1
      /\ changes'[Len(changes) + 1] = <<i, op>>
      /\ \A n \in DOMAIN changes : n \in DOMAIN changes' /\ changes'[n] = changes[n]
  BY <1>1
<1>3. changes'[Len(changes) + 1][1] = i
  BY <1>2
<1> QED
  BY <1>2, <1>3 DEF SourceWrite

LEMMA SourceWriteTypes ==
  ASSUME Types, NEW i \in Ids, NEW op \in {"u", "d"}, SourceWrite(i, op)
  PROVE  Types'
<1>1. /\ changes' \in Seq(Change) /\ Len(changes') = Len(changes) + 1
      /\ ver' = [ver EXCEPT ![i] = Len(changes) + 2] /\ Len(changes) \in Nat
  BY SourceWriteFacts, LogFacts
<1>2. ver' \in [Ids -> Nat \ {0}] /\ saved' \in 0 .. Len(changes')
  BY <1>1 DEF SourceWrite, Types
<1>3. live' \subseteq Ids
  BY DEF SourceWrite, Types
<1> QED
  BY <1>1, <1>2, <1>3 DEF SourceWrite, disk, Types

\* What WriteRow leaves in the writer's hands.
LEMMA WriteRowFacts ==
  ASSUME Types, NEW p \in Procs, WriteRow(p)
  PROVE  \E r \in proc[p].view, m \in Rec :
            /\ \A s \in proc[p].view : ReadNext(r, s)
            /\ proc' = [proc EXCEPT ![p] = proc'[p]] /\ proc'[p] \in ProcType(opened)
            /\ proc[p].pc = "writing" /\ \A q \in Procs \ {p} : proc'[q] = proc[q]
            /\ proc'[p].pc = "writing" /\ proc'[p].part = proc[p].part
            /\ proc'[p].slice = proc[p].slice /\ proc'[p].upto = proc[p].upto
            /\ proc'[p].view = proc[p].view \ {r}
            /\ proc'[p].pending = Append(proc[p].pending, m)
            /\ m.id = r[1] /\ m.ver = r[2] /\ m.op = r[3] /\ m.at = now' /\ m.part = proc[p].part
            /\ now' \in Nat /\ now <= now'
<1>1. PICK r \in proc[p].view :
         /\ \A s \in proc[p].view : ReadNext(r, s)
         /\ proc' = [proc EXCEPT ![p].view = @ \ {r},
                                 ![p].pending =
                           Append(@, InjectMetadata(p, r[1], r[2], r[3], now'))]
  BY DEF WriteRow
<1> DEFINE m == InjectMetadata(p, r[1], r[2], r[3], now')
<1>2. now' \in Nat /\ now <= now'
  <2>1. now \in Nat /\ MaxTicks \in Nat /\ now' \in now .. MaxTicks
    BY VerifyAssumption DEF WriteRow, Types, VerifyAssumption
  <2> QED
    BY <2>1
<1>3. r \in Delivery /\ proc[p].part \in Nat
  BY ProcFacts
<1>4. m = [id |-> r[1], ver |-> r[2], op |-> r[3], at |-> now', part |-> proc[p].part]
  BY DEF InjectMetadata, Record
<1>5. m \in Rec
  BY <1>2, <1>3, <1>4, DeliveryFacts DEF Rec
<1>6. m.id = r[1] /\ m.ver = r[2] /\ m.op = r[3] /\ m.at = now' /\ m.part = proc[p].part
  BY <1>4
<1> HIDE DEF m
<1>7. proc' = [proc EXCEPT ![p] = [proc[p] EXCEPT !.view = @ \ {r}, !.pending = Append(@, m)]]
  BY <1>1, ProcFacts DEF m, Types, ProcType
<1>8. proc[p] \in ProcType(opened) /\ proc \in [Procs -> ProcType(opened)]
  BY DEF Types
<1>9. Append(proc[p].pending, m) \in Seq(Rec)
  BY <1>5, ProcFacts
<1>10. [proc[p] EXCEPT !.view = @ \ {r}, !.pending = Append(@, m)] \in ProcType(opened)
  BY <1>8, <1>9 DEF ProcType
<1>11. /\ \A q \in Procs \ {p} : proc'[q] = proc[q]
       /\ proc'[p].pc = proc[p].pc /\ proc'[p].part = proc[p].part
       /\ proc'[p].slice = proc[p].slice /\ proc'[p].view = proc[p].view \ {r}
       /\ proc'[p].pending = Append(proc[p].pending, m) /\ proc'[p].upto = proc[p].upto
       /\ proc' = [proc EXCEPT ![p] = proc'[p]] /\ proc'[p] \in ProcType(opened)
  BY <1>7, <1>8, <1>10 DEF ProcType
<1>12. proc[p].pc = "writing"
  BY DEF WriteRow
<1> QED
  BY <1>1, <1>2, <1>5, <1>6, <1>11, <1>12

\* What beginning a part-file, and giving a run up, leave in the writer's hands.
LEMMA CreatePartFacts ==
  ASSUME Types, NEW p \in Procs, StartFlush(p) \/ (p = "sync" /\ FailSync)
  PROVE  /\ UNCHANGED <<source, saved, dest, tail, now, opened, v, overlapped, runs>>
         /\ proc[p].pc = "writing" /\ \A q \in Procs \ {p} : proc'[q] = proc[q]
         /\ proc'[p].pc \in {"flushing", "closing"} /\ proc'[p].view = {}
         /\ proc'[p].pc = "flushing" => proc[p].view = {}
         /\ proc'[p].pc = "closing" => p = "sync"
         /\ proc'[p].part = proc[p].part /\ proc'[p].slice = proc[p].slice
         /\ proc'[p].pending = proc[p].pending /\ proc'[p].upto = proc[p].upto
         /\ proc' \in [Procs -> ProcType(opened)]
         /\ torn' \in {torn, torn \cup {proc[p].part}}
<1>1. PICK c \in {"flushing", "closing"} :
         /\ CreatePart(p, c) /\ proc[p].pc = "writing"
         /\ c = "flushing" => proc[p].view = {}
         /\ c = "closing" => p = "sync"
  BY DEF StartFlush, FailSync
<1>2. proc' = [proc EXCEPT ![p] = [proc[p] EXCEPT !.pc = c, !.view = {}]]
      /\ proc[p] \in ProcType(opened) /\ proc \in [Procs -> ProcType(opened)]
  BY <1>1 DEF CreatePart, Types, ProcType
<1>3. [proc[p] EXCEPT !.pc = c, !.view = {}] \in ProcType(opened)
  BY <1>2 DEF ProcType, Phases
<1>4. proc' \in [Procs -> ProcType(opened)]
  BY <1>2, <1>3
<1>5. /\ proc'[p].pc = c /\ proc'[p].view = {} /\ \A q \in Procs \ {p} : proc'[q] = proc[q]
      /\ proc'[p].part = proc[p].part /\ proc'[p].slice = proc[p].slice
      /\ proc'[p].pending = proc[p].pending /\ proc'[p].upto = proc[p].upto
  BY <1>2 DEF ProcType
<1> QED
  BY <1>1, <1>4, <1>5 DEF CreatePart

\* What becomes of rows handed to the file.
LEMMA LegibleFacts ==
  ASSUME Types, NEW rows \in Seq(Rec)
  PROVE  \E d \in {0, 1} :
            /\ d <= Len(rows) /\ (d = 1 <=> tail /\ rows # <<>>)
            /\ Swallowed(rows) = IF d = 1 THEN {rows[1].id} ELSE {}
            /\ Legible(rows) \in Seq(Rec) /\ Len(Legible(rows)) = Len(rows) - d
            /\ \A j \in 1 .. Len(rows) - d : Legible(rows)[j] = rows[j + d]
<1>1. Len(rows) \in Nat /\ (rows # <<>> => Len(rows) >= 1)
  OBVIOUS
<1>2. CASE tail /\ rows # <<>>
  <2>1. /\ Tail(rows) \in Seq(Rec) /\ Len(Tail(rows)) = Len(rows) - 1
        /\ \A j \in 1 .. Len(rows) - 1 : Tail(rows)[j] = rows[j + 1]
    BY <1>2
  <2> QED
    BY <1>1, <1>2, <2>1 DEF Legible, Swallowed
<1>3. CASE ~ (tail /\ rows # <<>>)
  BY <1>1, <1>3 DEF Legible, Swallowed
<1> QED
  BY <1>2, <1>3

\* What FinishPart and Stop append: the first l rows the writer holds, without the
\* first d of them.
Appended(p, d, l) ==
    /\ d \in {0, 1} /\ l \in 0 .. Len(proc[p].pending) /\ d <= l
    /\ Len(dest) \in Nat /\ Len(proc[p].pending) \in Nat
    /\ DOMAIN dest = 1 .. Len(dest) /\ DOMAIN proc[p].pending = 1 .. Len(proc[p].pending)
    /\ dest' \in Seq(Rec) /\ DOMAIN dest' = 1 .. Len(dest) + (l - d)
    /\ \A n \in DOMAIN dest : dest'[n] = dest[n]
    /\ \A k \in d + 1 .. l : dest'[Len(dest) + (k - d)] = proc[p].pending[k]

LEMMA AppendFacts ==
  ASSUME Types, NEW p \in Procs, NEW rows \in Seq(Rec), Len(rows) <= Len(proc[p].pending),
         \A k \in 1 .. Len(rows) : rows[k] = proc[p].pending[k],
         dest' = dest \o Legible(rows)
  PROVE  \E d \in {0, 1} : /\ Appended(p, d, Len(rows)) /\ (d = 1 => rows # <<>>)
                           /\ Swallowed(rows) = IF d = 1 THEN {rows[1].id} ELSE {}
<1> DEFINE new == Legible(rows)
<1>1. PICK d \in {0, 1} :
            /\ d <= Len(rows) /\ (d = 1 <=> tail /\ rows # <<>>)
            /\ Swallowed(rows) = IF d = 1 THEN {rows[1].id} ELSE {}
            /\ new \in Seq(Rec) /\ Len(new) = Len(rows) - d
            /\ \A j \in 1 .. Len(rows) - d : new[j] = rows[j + d]
  BY LegibleFacts
<1> HIDE DEF new
<1>2. dest \in Seq(Rec) /\ proc[p].pending \in Seq(Rec) /\ dest' = dest \o new
  BY ProcFacts DEF Types, new
<1>3. /\ Len(dest) \in Nat /\ Len(rows) \in Nat /\ Len(proc[p].pending) \in Nat
      /\ DOMAIN dest = 1 .. Len(dest) /\ DOMAIN proc[p].pending = 1 .. Len(proc[p].pending)
  BY <1>2
<1>4. /\ dest' \in Seq(Rec) /\ DOMAIN dest' = 1 .. Len(dest) + Len(new)
      /\ \A n \in 1 .. Len(dest) : dest'[n] = dest[n]
      /\ \A j \in 1 .. Len(new) : dest'[Len(dest) + j] = new[j]
  <2>1. /\ dest' \in Seq(Rec) /\ DOMAIN dest' = 1 .. Len(dest) + Len(new)
        /\ \A n \in 1 .. Len(dest) : dest'[n] = dest[n]
        /\ \A n \in Len(dest) + 1 .. Len(dest) + Len(new) : dest'[n] = new[n - Len(dest)]
    <3>1. dest \in Seq(Rec) /\ new \in Seq(Rec) /\ dest' = dest \o new
      BY <1>1, <1>2
    <3> QED
      BY ONLY <3>1
  <2>2. ASSUME NEW j \in 1 .. Len(new) PROVE dest'[Len(dest) + j] = new[j]
    <3>1. /\ Len(dest) + j \in Len(dest) + 1 .. Len(dest) + Len(new)
          /\ (Len(dest) + j) - Len(dest) = j
      BY <1>1, <1>3
    <3> QED
      BY <2>1, <3>1
  <2> QED
    BY <2>1, <2>2
<1>5. ASSUME NEW k \in d + 1 .. Len(rows)
      PROVE  dest'[Len(dest) + (k - d)] = proc[p].pending[k]
  <2>1. k - d \in 1 .. Len(rows) - d /\ (k - d) + d = k /\ k \in 1 .. Len(rows)
    BY <1>1, <1>3
  <2>2. k - d \in 1 .. Len(new)
    BY <1>1, <2>1
  <2>3. dest'[Len(dest) + (k - d)] = new[k - d]
    BY <1>4, <2>2
  <2>4. new[k - d] = rows[k]
    BY <1>1, <2>1
  <2> QED
    BY <2>1, <2>3, <2>4
<1>6. Appended(p, d, Len(rows))
  <2>1. Len(rows) \in 0 .. Len(proc[p].pending) /\ Len(new) = Len(rows) - d
    BY <1>1, <1>3
  <2>2. \A n \in DOMAIN dest : dest'[n] = dest[n]
    BY <1>3, <1>4
  <2> QED
    BY <1>1, <1>3, <1>4, <1>5, <2>1, <2>2 DEF Appended
<1> QED
  BY <1>1, <1>6

\* What FinishPart leaves.
LEMMA FinishPartFacts ==
  ASSUME Types, NEW p \in Procs, FinishPart(p)
  PROVE  /\ UNCHANGED <<source, saved, now, opened, overlapped, runs, stops>>
         /\ proc[p].pc \in {"flushing", "closing"}
         /\ \A q \in Procs \ {p} : proc'[q] = proc[q]
         /\ proc[p].pc = "closing" => proc'[p] = Idle
         /\ proc[p].pc = "flushing" =>
               /\ proc'[p].pc = "flushed" /\ proc'[p].part = proc[p].part
               /\ proc'[p].slice = proc[p].slice /\ proc'[p].upto = proc[p].upto
         /\ proc' \in [Procs -> ProcType(opened)]
         /\ \E d \in {0, 1} :
               /\ Appended(p, d, Len(proc[p].pending))
               /\ proc[p].pc = "flushing" /\ d = 1 => proc'[p].lost = {proc[p].pending[1].id}
<1> DEFINE rows == proc[p].pending
           lost == Swallowed(rows)
           x == [proc[p] EXCEPT !.pc = "flushed", !.pending = <<>>, !.lost = lost]
<1>1. /\ rows \in Seq(Rec) /\ proc[p] \in ProcType(opened)
      /\ proc \in [Procs -> ProcType(opened)] /\ opened \in Nat
  BY ProcFacts DEF Types
<1>2. PICK d \in {0, 1} : /\ Appended(p, d, Len(rows)) /\ (d = 1 => rows # <<>>)
                          /\ lost = IF d = 1 THEN {rows[1].id} ELSE {}
  <2>1. /\ Len(rows) <= Len(proc[p].pending)
        /\ \A k \in 1 .. Len(rows) : rows[k] = proc[p].pending[k]
        /\ dest' = dest \o Legible(rows)
    BY <1>1 DEF FinishPart
  <2> HIDE DEF rows, lost
  <2> QED
    BY <1>1, <2>1, AppendFacts DEF lost
<1>3. lost \in SUBSET Ids
  <2>1. rows # <<>> => rows[1] \in Rec
    BY <1>1
  <2>2. rows # <<>> => rows[1].id \in Ids
    BY <2>1 DEF Rec
  <2> HIDE DEF rows, lost
  <2> QED
    BY <1>2, <2>2
<1> HIDE DEF lost
<1>4. proc' = IF proc[p].pc = "closing" THEN [proc EXCEPT ![p] = Idle]
              ELSE [proc EXCEPT ![p] = x]
  <2>1. proc' = IF proc[p].pc = "closing" THEN [proc EXCEPT ![p] = Idle]
                ELSE [proc EXCEPT ![p].pc = "flushed", ![p].pending = <<>>,
                                  ![p].lost = lost]
    BY DEF FinishPart, lost
  <2> QED
    BY <1>1, <2>1 DEF ProcType
<1>5. x \in ProcType(opened) /\ Idle \in ProcType(opened)
  <2>1. <<>> \in Seq(Rec)
    OBVIOUS
  <2> QED
    BY <1>1, <1>3, <2>1, IdleType DEF ProcType, Phases
<1>6. x.pc = "flushed" /\ x.part = proc[p].part /\ x.slice = proc[p].slice
      /\ x.upto = proc[p].upto /\ x.lost = lost
  BY <1>1 DEF ProcType
<1> HIDE DEF x, rows
<1>7. /\ proc' \in [Procs -> ProcType(opened)]
      /\ \A q \in Procs \ {p} : proc'[q] = proc[q]
      /\ proc[p].pc = "closing" => proc'[p] = Idle
      /\ proc[p].pc = "flushing" => proc'[p] = x
  BY <1>1, <1>4, <1>5
<1>8. d = 1 => lost = {proc[p].pending[1].id}
  BY <1>2 DEF rows
<1>9. /\ UNCHANGED <<source, saved, now, opened, overlapped, runs, stops>>
      /\ proc[p].pc \in {"flushing", "closing"}
  BY DEF FinishPart
<1>10. Appended(p, d, Len(proc[p].pending))
  BY <1>2 DEF rows
<1>11. ASSUME proc[p].pc = "flushing"
       PROVE  /\ proc'[p].pc = "flushed" /\ proc'[p].part = proc[p].part
              /\ proc'[p].slice = proc[p].slice /\ proc'[p].upto = proc[p].upto
              /\ d = 1 => proc'[p].lost = {proc[p].pending[1].id}
  <2>1. proc'[p] = x
    BY <1>7, <1>11
  <2> QED
    BY <1>6, <1>8, <2>1
<1> QED
  BY <1>7, <1>9, <1>10, <1>11

\* What a kill leaves.
LEMMA StopFacts ==
  ASSUME Types, NEW p \in Procs, Stop(p)
  PROVE  /\ UNCHANGED <<source, saved, torn, now, opened, overlapped, runs>>
         /\ proc' = [proc EXCEPT ![p] = Idle] /\ proc[p].pc # "off"
         /\ proc'[p] = Idle /\ \A q \in Procs \ {p} : proc'[q] = proc[q]
         /\ proc' \in [Procs -> ProcType(opened)] /\ tail' \in BOOLEAN /\ stops' \in Nat
         /\ \E d \in {0, 1}, l \in Nat :
               /\ Appended(p, d, l)
               /\ v' = v \/ v' = NoVerify \/ v' = [v EXCEPT !.steady = v.pc = "idle"]
               /\ v.by = p => v' = NoVerify
               /\ v.by # p /\ l = 0 => v' = v
               /\ v.by # p /\ l # 0 => v' = [v EXCEPT !.steady = v.pc = "idle"]
<1> DEFINE b == proc[p].pending
<1>1. /\ b \in Seq(Rec) /\ Len(b) \in Nat /\ proc \in [Procs -> ProcType(opened)]
      /\ opened \in Nat /\ tail \in BOOLEAN /\ stops \in Nat /\ DOMAIN b = 1 .. Len(b)
  BY ProcFacts DEF Types
<1>2. PICK n \in 0 .. IF format = "ndjson" THEN Len(b) ELSE 0, tears \in BOOLEAN :
          LET rows == SubSeq(b, 1, n) IN
          /\ tears => format = "ndjson" /\ n < Len(b)
          /\ dest' = dest \o Legible(rows)
          /\ tail' = (tears \/ (tail /\ rows = <<>>))
          /\ v' = IF v.by = p THEN NoVerify ELSE Moved(rows)
  BY DEF Stop
<1> DEFINE rows == SubSeq(b, 1, n)
<1>3. n \in Nat /\ n <= Len(b)
  BY <1>1, <1>2
<1>4. rows \in Seq(Rec) /\ Len(rows) = n /\ \A k \in 1 .. n : rows[k] = b[k]
  BY <1>1, <1>3
<1>5. /\ dest' = dest \o Legible(rows) /\ tail' \in BOOLEAN
      /\ v' = IF v.by = p THEN NoVerify ELSE Moved(rows)
  BY <1>2
<1> HIDE DEF rows
<1>6. PICK d \in {0, 1} : Appended(p, d, Len(rows))
  BY <1>3, <1>4, <1>5, AppendFacts
<1>7. /\ v' = v \/ v' = NoVerify \/ v' = [v EXCEPT !.steady = v.pc = "idle"]
      /\ v.by = p => v' = NoVerify
      /\ v.by # p /\ n = 0 => v' = v
      /\ v.by # p /\ n # 0 => v' = [v EXCEPT !.steady = v.pc = "idle"]
  BY <1>4, <1>5 DEF Moved
<1>8. proc' = [proc EXCEPT ![p] = Idle] /\ stops' \in Nat /\ proc[p].pc # "off"
  BY <1>1 DEF Stop
<1>9. proc' \in [Procs -> ProcType(opened)] /\ proc'[p] = Idle
      /\ \A q \in Procs \ {p} : proc'[q] = proc[q]
  BY <1>1, <1>8, IdleType
<1> QED
  BY <1>3, <1>4, <1>5, <1>6, <1>7, <1>8, <1>9 DEF Stop

LEMMA WriterTypes ==
  ASSUME Types, WriterInv, NEW p \in Procs,
         \/ WriteRow(p) \/ StartFlush(p) \/ (p = "sync" /\ FailSync)
         \/ FinishPart(p) \/ Stop(p)
  PROVE  Types'
<1>1. opened \in Nat /\ tail \in BOOLEAN /\ stops \in Nat
  BY DEF Types
<1>2. CASE WriteRow(p)
  <2>1. proc' \in [Procs -> ProcType(opened)] /\ now' \in Nat
    BY <1>1, <1>2, WriteRowFacts, ProcUpdateSame
  <2> QED
    BY <1>2, <2>1 DEF WriteRow, source, disk, Types
<1>3. CASE StartFlush(p) \/ (p = "sync" /\ FailSync)
  <2>1. /\ UNCHANGED <<source, saved, dest, tail, now, opened, v, overlapped, runs>>
        /\ proc' \in [Procs -> ProcType(opened)] /\ proc[p].pc = "writing"
        /\ torn' \in {torn, torn \cup {proc[p].part}}
    BY <1>3, CreatePartFacts
  <2>2. proc[p].part \in 1 .. opened
    <3>1. proc[p].part >= 1
      BY <2>1 DEF WriterInv, HeldInv, Writing
    <3> QED
      BY <1>1, <3>1, ProcFacts
  <2>3. torn' \subseteq 1 .. opened' /\ stops' \in Nat
    BY <1>1, <1>3, <2>1, <2>2 DEF StartFlush, FailSync, Types
  <2> QED
    BY <2>1, <2>3 DEF source, Types
<1>4. CASE FinishPart(p)
  <2>1. /\ UNCHANGED <<source, saved, now, opened, overlapped, runs, stops>>
        /\ proc' \in [Procs -> ProcType(opened)] /\ dest' \in Seq(Rec)
    BY <1>4, FinishPartFacts DEF Appended
  <2>2. tail' \in BOOLEAN /\ torn' \subseteq torn
    BY <1>1, <1>4 DEF FinishPart
  <2> QED
    BY <2>1, <2>2 DEF source, Types
<1>5. CASE Stop(p)
  <2>1. /\ UNCHANGED <<source, saved, torn, now, opened, overlapped, runs>>
        /\ proc' \in [Procs -> ProcType(opened)] /\ tail' \in BOOLEAN /\ stops' \in Nat
        /\ dest' \in Seq(Rec)
    BY <1>5, StopFacts DEF Appended
  <2> QED
    BY <2>1 DEF source, Types
<1> QED
  BY <1>2, <1>3, <1>4, <1>5

LEMMA FinishSyncTypes ==
  ASSUME Types, SyncInv, FinishSync
  PROVE  Types'
<1>1. proc["sync"].upto \in Nat /\ proc["sync"].upto <= Len(changes)
  BY ProcFacts DEF FinishSync, SyncInv, Procs
<1>2. saved' \in 0 .. Len(changes)
  BY <1>1, LogFacts DEF FinishSync
<1>3. opened \in Nat /\ proc' \in [Procs -> ProcType(opened)]
  BY IdleType, ProcUpdateSame DEF FinishSync, Procs, Types
<1> QED
  BY <1>2, <1>3 DEF FinishSync, source, disk, Types

LEMMA VerifyStepTypes ==
  ASSUME Types, UNCHANGED verifying \/ StartVerify \/ CloseBackfill \/ Report \/ UNCHANGED vars
  PROVE  Types'
<1>1. CASE UNCHANGED verifying
  BY <1>1 DEF verifying, source, disk, Types
<1>2. CASE UNCHANGED vars
  BY <1>2 DEF vars, source, disk, Types
<1>3. CASE StartVerify
  <2>1. runs' \in Nat
    BY <1>3 DEF StartVerify, Types
  <2> QED
    BY <1>3, <2>1 DEF StartVerify, source, disk, Types
<1>4. CASE CloseBackfill \/ Report
  <2>1. opened \in Nat /\ "backfill" \in Procs /\ proc["backfill"] \in ProcType(opened)
    BY DEF Types, Procs
  <2>2. [proc["backfill"] EXCEPT !.pc = "verifying"] \in ProcType(opened)
    BY <2>1 DEF ProcType, Phases
  <2>3. \/ proc' = [proc EXCEPT !["backfill"] = [proc["backfill"] EXCEPT !.pc = "verifying"]]
        \/ proc' = [proc EXCEPT !["backfill"] = Idle]
        \/ proc' = proc
    BY <1>4 DEF CloseBackfill, Report
  <2>4. proc' \in [Procs -> ProcType(opened)]
    BY <2>1, <2>2, <2>3, IdleType, ProcUpdateSame DEF Types
  <2> QED
    BY <1>4, <2>4 DEF CloseBackfill, Report, source, disk, Types
<1> QED
  BY <1>1, <1>2, <1>3, <1>4

\* The steps of VerifyStream that change nothing but the verification.
VerifyStep ==
    ReadSourceChunk \/ ReadDest \/ FailDest \/ Bisect \/ FinishBisect

LEMMA VerifySteps == VerifyStep => UNCHANGED verifying
BY DEF VerifyStep, ReadSourceChunk, ReadDest, FailDest, Bisect, FinishBisect,
       verifying, source, disk

LEMMA NextTypes ==
  ASSUME Types, SyncInv, WriterInv, [Next]_vars
  PROVE  Types'
<1>1. ASSUME NEW i \in Ids, NEW op \in {"u", "d"}, SourceWrite(i, op) PROVE Types'
  BY <1>1, SourceWriteTypes
<1>2. ASSUME NEW p \in Procs, WriteRow(p) \/ StartFlush(p) \/ FinishPart(p) \/ Stop(p)
      PROVE  Types'
  BY <1>2, WriterTypes
<1>3. CASE FailSync
  BY <1>3, WriterTypes DEF Procs
<1> QED
  BY <1>1, <1>2, <1>3, StartTypes, FinishSyncTypes, VerifyStepTypes, VerifySteps
     DEF Next, VerifyStep

LEMMA NextVerifyTypes ==
  ASSUME Types, VerifyTypes, [Next]_vars
  PROVE  VerifyTypes'
<1> USE DEF VerifyTypes
<1>1. CASE UNCHANGED v
  BY <1>1 DEF Chunks
<1>2. ASSUME NEW i \in Ids, NEW op \in {"u", "d"}, SourceWrite(i, op)
      PROVE  VerifyTypes'
  BY <1>2 DEF SourceWrite, Unsteady, Chunks
<1>3. CASE StartSync \/ FailSync \/ FinishSync \/ UNCHANGED vars
  BY <1>1, <1>3 DEF StartSync, FailSync, CreatePart, FinishSync, vars
<1>4. CASE StartBackfill
  BY <1>4 DEF StartBackfill, Chunks
<1>5. ASSUME NEW p \in Procs, WriteRow(p) \/ StartFlush(p) PROVE VerifyTypes'
  BY <1>1, <1>5 DEF WriteRow, StartFlush, CreatePart
<1>6. ASSUME NEW p \in Procs, FinishPart(p) PROVE VerifyTypes'
  BY <1>6 DEF FinishPart, Moved, Chunks
<1>7. ASSUME NEW p \in Procs, Stop(p) PROVE VerifyTypes'
  <2>1. v' = v \/ v' = NoVerify \/ v' = [v EXCEPT !.steady = v.pc = "idle"]
    BY <1>7, StopFacts
  <2>2. CASE v' = NoVerify
    BY <2>2 DEF NoVerify, Chunks
  <2>3. CASE v' = [v EXCEPT !.steady = v.pc = "idle"]
    BY <2>3 DEF Chunks
  <2> QED
    BY <1>1, <2>1, <2>2, <2>3
<1>8. CASE StartVerify \/ CloseBackfill
  <2>1. PICK by \in {"verify", "backfill"} : BeginVerify(by)
    BY <1>8 DEF StartVerify, CloseBackfill
  <2>2. /\ DOMAIN v' = DOMAIN NoVerify /\ v'.pc = "source" /\ v'.by = by
        /\ v'.unread = Chunks /\ v'.match = FALSE /\ v'.steady = TRUE
        /\ v'.since = v.since
    BY <2>1 DEF BeginVerify, NoVerify
  <2> QED
    <3>1. DOMAIN NoVerify = {"pc", "by", "unread", "src", "dst", "work", "ranges",
                             "samples", "match", "steady", "since"}
      BY DEF NoVerify
    <3>2. v'.unread \subseteq Chunks'
      BY <2>2 DEF Chunks
    <3>3. v'.match \in BOOLEAN /\ v'.steady \in BOOLEAN /\ v'.since \in BOOLEAN
      BY <2>2
    <3>4. v'.by \in {"verify", "backfill"}
      BY <2>2
    <3> QED
      BY <2>2, <3>1, <3>2, <3>3, <3>4
<1>9. CASE ReadSourceChunk
  BY <1>9 DEF ReadSourceChunk, Chunks
<1>10. CASE ReadDest
  BY <1>10 DEF ReadDest, Chunks, SameRows
<1>11. CASE FailDest \/ FinishBisect
  <2>1. \E c \in {"error", "done"} : v' = [v EXCEPT !.pc = c]
    BY <1>11 DEF FailDest, FinishBisect
  <2> QED
    BY <2>1 DEF Chunks
<1>12. CASE Bisect
  BY <1>12 DEF Bisect, Enumerate, Chunks
<1>13. CASE Report
  BY <1>13 DEF Report, NoVerify, Chunks
<1> QED
  BY <1>2, <1>3, <1>4, <1>5, <1>6, <1>7, <1>8, <1>9, <1>10, <1>11, <1>12, <1>13 DEF Next

-----------------------------------------------------------------------------
(* The rows on disk and in the writers' hands.                             *)

LEMMA HeldTypes ==
  ASSUME Types, NEW p \in Procs
  PROVE  /\ \A r \in proc[p].view : r[1] \in Ids /\ r[2] \in Nat \ {0} /\ r[3] \in {"u", "d"}
         /\ \A k \in DOMAIN proc[p].pending :
               /\ k \in Nat /\ proc[p].pending[k] \in Rec
               /\ proc[p].pending[k].id \in Ids /\ proc[p].pending[k].at \in Nat
               /\ proc[p].pending[k].ver \in Nat \ {0} /\ proc[p].pending[k].part \in Nat
<1>1. proc[p].view \subseteq Delivery /\ proc[p].pending \in Seq(Rec)
  BY ProcFacts
<1>2. \A k \in DOMAIN proc[p].pending : k \in Nat /\ proc[p].pending[k] \in Rec
  BY <1>1
<1> QED
  BY <1>1, <1>2, DeliveryFacts DEF Rec

\* No version is later than the last one, and none than the log.
LEMMA ToldFacts ==
  ASSUME Types, LogInv, NEW i \in Ids, NEW n \in Nat \ {0}, Told(i, n)
  PROVE  n <= ver[i] /\ n <= Len(changes) + 1
<1>1. ver[i] \in Nat \ {0} /\ Len(changes) \in Nat
  BY SourceRows, LogFacts
<1>2. CASE n = 1
  BY <1>1, <1>2
<1>3. CASE n - 1 \in DOMAIN changes /\ changes[n - 1][1] = i
  <2>1. PICK m \in DOMAIN changes : m = n - 1 /\ changes[m][1] = i
    BY <1>3
  <2>2. m + 1 <= ver[i] /\ m \in Nat /\ m <= Len(changes)
    BY <2>1, LogFacts DEF LogInv
  <2> QED
    BY <1>1, <2>1, <2>2
<1> QED
  BY <1>2, <1>3 DEF Told

LEMMA InitDisk == Init => DiskInv
<1> SUFFICES ASSUME Init PROVE DiskInv
  OBVIOUS
<1>1. \A n \in DOMAIN dest : n \in Ids /\ dest[n] = [id |-> n, ver |-> 1, op |-> "r",
                                                    at |-> 0, part |-> 0]
  BY DEF Init, Record
<1>2. \A i \in Ids : i \in DOMAIN dest /\ ver[i] = 1
  BY DEF Init
<1>3. \A p \in Procs : proc[p].pc = "off"
  BY DEF Init, Idle
<1>4. Ids \subseteq Nat
  <2>1. Cardinality(Ids) \in Nat
    BY FS_CardinalityType, VerifyAssumption DEF VerifyAssumption
  <2> QED
    BY <2>1, VerifyAssumption DEF VerifyAssumption
<1>5. now \in Nat /\ opened = 0 /\ DOMAIN changes = {}
  BY VerifyAssumption DEF Init, VerifyAssumption
<1>6. DestInv
  BY <1>1, <1>2, <1>5 DEF DestInv, Told
<1>7. OrderInv
  BY <1>1, <1>3, <1>4 DEF OrderInv, Newest
<1>8. WriterInv /\ SyncInv
  BY <1>3 DEF WriterInv, SyncInv, Writing, Procs
<1>9. LogInv
  BY <1>2, <1>5 DEF LogInv, Told
<1> QED
  BY <1>6, <1>7, <1>8, <1>9 DEF DiskInv

\* A step that leaves the rows and the writers alone; the log may grow.
LEMMA GrowthKeepsDisk ==
  ASSUME Types, DiskInv, UNCHANGED <<dest, proc, opened, overlapped, saved, now>>,
         LogInv', Len(changes') \in Nat, Len(changes) <= Len(changes'),
         \A n \in DOMAIN changes : n \in DOMAIN changes' /\ changes'[n] = changes[n]
  PROVE  DiskInv'
<1>1. \A i, n : Told(i, n) => Told(i, n)'
  BY DEF Told
<1>2. DestInv'
  BY <1>1 DEF DiskInv, DestInv
<1>3. OrderInv'
  BY DEF DiskInv, OrderInv, LastRow, Newest
<1>4. SyncInv'
  <2>1. ASSUME proc["sync"].pc # "off"
        PROVE  proc["sync"].upto <= Len(changes') /\ proc["sync"].upto <= Len(changes)
    BY <2>1, ProcFacts, LogFacts DEF DiskInv, SyncInv, Procs
  <2>2. ASSUME proc["sync"].pc # "off", NEW n \in saved + 1 .. proc["sync"].upto
        PROVE  changes'[n] = changes[n]
    BY <2>1, <2>2, ProcFacts, LogFacts DEF Procs
  <2> QED
    BY <2>1, <2>2 DEF DiskInv, SyncInv, Writing, Holds, LastRow, Newest
<1>5. ASSUME NEW p \in Procs, Writing(p) PROVE HeldInv(proc[p])'
  BY <1>1, <1>5 DEF DiskInv, WriterInv, HeldInv
<1>6. WriterInv'
  <2>1. \A p \in Procs : Writing(p)' <=> Writing(p)
    BY DEF Writing
  <2> QED
    BY <1>5, <2>1 DEF WriterInv, DiskInv, AfterInv
<1> QED
  BY <1>2, <1>3, <1>4, <1>6 DEF DiskInv

LEMMA SourceWriteDisk ==
  ASSUME Types, DiskInv, NEW i \in Ids, NEW op \in {"u", "d"}, SourceWrite(i, op)
  PROVE  DiskInv'
<1>1. /\ Len(changes') = Len(changes) + 1 /\ Len(changes) \in Nat
      /\ DOMAIN changes' = 1 .. Len(changes) + 1 /\ DOMAIN changes = 1 .. Len(changes)
      /\ changes'[Len(changes) + 1][1] = i
      /\ \A n \in DOMAIN changes : n \in DOMAIN changes' /\ changes'[n] = changes[n]
      /\ ver' = [ver EXCEPT ![i] = Len(changes) + 2]
  BY SourceWriteFacts, LogFacts
<1>2. ASSUME NEW j \in Ids PROVE Told(j, ver[j])'
  <2>1. CASE j = i
    <3>1. ver'[j] = Len(changes) + 2 /\ ver'[j] - 1 = Len(changes) + 1
      BY <1>1, <2>1 DEF Types
    <3>2. ver'[j] - 1 \in DOMAIN changes' /\ changes'[ver'[j] - 1][1] = j
      BY <1>1, <2>1, <3>1
    <3> QED
      BY <3>2 DEF Told
  <2>2. CASE j # i
    <3>1. ver'[j] = ver[j] /\ Told(j, ver[j])
      BY <1>1, <2>2 DEF Types, DiskInv, LogInv
    <3> QED
      BY <1>1, <3>1 DEF Told
  <2> QED
    BY <2>1, <2>2
<1>3. ASSUME NEW n \in DOMAIN changes' PROVE n + 1 <= ver'[changes'[n][1]]
  <2>1. CASE n \in DOMAIN changes
    <3>1. n + 1 <= ver[changes[n][1]] /\ changes[n][1] \in Ids /\ n \in Nat
      BY <2>1, LogFacts DEF DiskInv, LogInv
    <3>2. changes'[n] = changes[n]
      BY <1>1, <2>1
    <3>3. n <= Len(changes)
      BY <1>1, <2>1
    <3>4. CASE changes[n][1] = i
      BY <1>1, <3>1, <3>2, <3>3, <3>4 DEF Types
    <3>5. CASE changes[n][1] # i
      BY <1>1, <3>1, <3>2, <3>5 DEF Types
    <3> QED
      BY <3>4, <3>5
  <2>2. CASE n = Len(changes) + 1
    BY <1>1, <2>2 DEF Types
  <2> QED
    BY <1>1, <2>1, <2>2
<1>4. LogInv'
  BY <1>2, <1>3 DEF LogInv
<1>5. UNCHANGED <<dest, proc, opened, overlapped, saved, now>>
  BY DEF SourceWrite, disk
<1> QED
  BY <1>1, <1>4, <1>5, GrowthKeepsDisk

\* A writer that is done, or that goes on to verify.
LEMMA LeavingKeepsDisk ==
  ASSUME Types, DiskInv, UNCHANGED <<dest, source, saved, now, opened, overlapped>>,
         NEW p \in Procs, NEW x, proc' = [proc EXCEPT ![p] = x],
         x.pc = "off" \/ (x.pc = "verifying" /\ p = "backfill" /\ proc[p].pc # "off")
  PROVE  DiskInv'
<1>1. \A q \in Procs : (q = p /\ proc'[q] = x) \/ (q # p /\ proc'[q] = proc[q])
  BY DEF Types
<1>2. DestInv' /\ LogInv'
  BY DEF DiskInv, DestInv, LogInv, Told, source
<1>3. OrderInv'
  <2>1. \A q \in Procs : proc[q].pc = "off" => proc'[q].pc = "off"
    BY <1>1
  <2> QED
    BY <2>1 DEF DiskInv, OrderInv, LastRow, Newest
<1>4. \A q \in Procs : Writing(q)' => Writing(q) /\ proc'[q] = proc[q]
  BY <1>1 DEF Writing
<1>5. WriterInv'
  <2>1. ASSUME NEW q \in Procs, Writing(q), proc'[q] = proc[q]
        PROVE  HeldInv(proc[q])' /\ (~ overlapped => AfterInv(proc[q])')
    BY <2>1 DEF DiskInv, WriterInv, HeldInv, AfterInv, Told, source
  <2>2. ASSUME NEW q \in Procs, proc'[q].pc \in {"flushing", "closing"}
        PROVE  proc'[q].view = {}
    BY <1>1, <2>2 DEF DiskInv, WriterInv
  <2> QED
    BY <1>4, <2>1, <2>2 DEF WriterInv
<1>6. SyncInv'
  <2>1. proc'["sync"] = proc["sync"] \/ proc'["sync"].pc = "off"
    BY <1>1 DEF Procs
  <2>2. CASE proc'["sync"] = proc["sync"]
    BY <2>2 DEF DiskInv, SyncInv, Writing, Holds, LastRow, Newest, source
  <2>3. CASE proc'["sync"].pc = "off"
    BY <2>3 DEF SyncInv, Writing
  <2> QED
    BY <2>1, <2>2, <2>3
<1> QED
  BY <1>2, <1>3, <1>5, <1>6 DEF DiskInv

\* The position moves over versions that are the last of their rows.
LEMMA FinishSyncDisk ==
  ASSUME Types, DiskInv, FinishSync
  PROVE  DiskInv'
<1>1. /\ UNCHANGED <<dest, source, now, opened, overlapped>>
      /\ proc' = [proc EXCEPT !["sync"] = Idle] /\ proc["sync"].pc = "flushed"
  BY DEF FinishSync, disk
<1>2. "sync" \in Procs /\ "backfill" \in Procs /\ \A p \in Procs : p # "sync" => p = "backfill"
  BY DEF Procs
<1>3. proc'["sync"] = Idle /\ Idle.pc = "off" /\ proc'["backfill"] = proc["backfill"]
  BY <1>1, <1>2 DEF Types, Idle
<1>4. DestInv' /\ LogInv'
  BY <1>1 DEF DiskInv, DestInv, LogInv, Told, source
<1>5. OrderInv'
  <2>1. ~ overlapped => \A n \in DOMAIN dest : LastRow(n) => Newest(n)
    BY <1>1 DEF DiskInv, SyncInv
  <2>2. \A q \in Procs : proc[q].pc = "off" => proc'[q].pc = "off"
    BY <1>2, <1>3
  <2> QED
    BY <1>1, <2>1, <2>2 DEF DiskInv, OrderInv, LastRow, Newest
<1>6. WriterInv'
  <2>1. ~ overlapped => proc["backfill"].pc = "off"
    BY <1>1, <1>2 DEF DiskInv, OrderInv
  <2>2. Writing("backfill") => HeldInv(proc["backfill"])'
    BY <1>1, <1>2, <1>3 DEF DiskInv, WriterInv, HeldInv, Told, source
  <2>3. proc["backfill"].pc \in {"flushing", "closing"} => proc["backfill"].view = {}
    BY <1>2 DEF DiskInv, WriterInv
  <2>4. ~ Writing("sync")' /\ proc'["sync"].pc = "off"
    BY <1>3 DEF Writing
  <2>5. Writing("backfill")' <=> Writing("backfill")
    BY <1>3 DEF Writing
  <2>6. ~ overlapped => ~ Writing("backfill")
    BY <2>1 DEF Writing
  <2>7. ASSUME NEW q \in Procs
        PROVE  /\ Writing(q)' => HeldInv(proc[q])'
               /\ Writing(q)' /\ ~ overlapped' => AfterInv(proc[q])'
               /\ proc'[q].pc \in {"flushing", "closing"} => proc'[q].view = {}
    BY <1>1, <1>2, <1>3, <2>2, <2>3, <2>4, <2>5, <2>6
  <2> QED
    BY <2>7 DEF WriterInv
<1>7. SyncInv'
  BY <1>3 DEF SyncInv, Writing
<1> QED
  BY <1>4, <1>5, <1>6, <1>7 DEF DiskInv

\* Open: what is read is the source's, and of no earlier version than what is on disk,
\* unless the sync tells it again.
LEMMA OpenKeepsDisk ==
  ASSUME Types, DiskInv, NEW p \in Procs, NEW view \in SUBSET Delivery, NEW slice \in SUBSET Ids,
         NEW upto \in Nat, Open(p, view, slice, upto),
         \A r \in view : Told(r[1], r[2]) /\ (r[2] = ver[r[1]] \/ r[2] > saved + 1),
         p = "sync" => /\ upto = Len(changes) /\ \A r \in view : r[2] <= upto + 1
                       /\ \A n \in saved + 1 .. upto :
                             \E r \in view : r[1] = changes[n][1] /\ r[2] = n + 1
  PROVE  DiskInv'
<1> DEFINE x == [Idle EXCEPT !.pc = "writing", !.view = view, !.part = opened + 1,
                             !.slice = slice, !.upto = upto]
<1>1. /\ UNCHANGED <<source, saved, dest, now>> /\ opened' = opened + 1 /\ opened \in Nat
      /\ proc'[p] = x /\ overlapped \in BOOLEAN
      /\ \A q \in Procs \ {p} : proc'[q] = proc[q]
      /\ overlapped' = (overlapped \/ \E q \in Procs \ {p} : proc[q].pc # "off")
  BY DEF Open, disk, Types
<1>2. DestInv' /\ LogInv'
  <2>1. \A n \in DOMAIN dest : dest[n].part \in Nat
    BY RowFacts
  <2> QED
    BY <1>1, <2>1 DEF DiskInv, DestInv, LogInv, Told, source
<1>3. ~ overlapped' => ~ overlapped /\ \A q \in Procs \ {p} : proc'[q].pc = "off"
  BY <1>1
<1>4. OrderInv'
  BY <1>1, <1>3 DEF DiskInv, OrderInv, LastRow, Newest
<1>5. /\ proc'[p].part = opened + 1 /\ proc'[p].view = view /\ proc'[p].pending = <<>>
      /\ proc'[p].pc = "writing" /\ proc'[p].upto = upto /\ DOMAIN proc'[p].pending = {}
  BY <1>1 DEF Idle
<1> HIDE DEF x
<1>6. HeldInv(proc[p])'
  <2>1. proc'[p].part >= 1
    BY <1>1, <1>5
  <2>2. \A r \in view : Told(r[1], r[2])'
    BY <1>1 DEF Told, source
  <2> QED
    BY <1>5, <2>1, <2>2 DEF HeldInv
<1>7. AfterInv(proc[p])'
  <2>1. ASSUME NEW n \in DOMAIN dest
        PROVE  /\ dest[n].part < opened + 1
               /\ \A r \in view : dest[n].id = r[1] => dest[n].ver <= r[2] \/ r[2] > saved + 1
    <3>1. dest[n].part <= opened /\ dest[n].part \in Nat /\ dest[n].ver <= ver[dest[n].id]
      BY RowFacts, ToldFacts DEF DiskInv, DestInv
    <3> QED
      BY <1>1, <3>1
  <2> QED
    BY <1>1, <1>5, <2>1 DEF AfterInv
<1>8. WriterInv'
  <2>1. ASSUME NEW q \in Procs \ {p}
        PROVE  /\ Writing(q)' => HeldInv(proc[q])'
               /\ Writing(q)' /\ ~ overlapped' => AfterInv(proc[q])'
               /\ proc'[q].pc \in {"flushing", "closing"} => proc'[q].view = {}
    <3>1. Writing(q)' => Writing(q)
      BY <1>1 DEF Writing
    <3>2. Writing(q) => HeldInv(proc[q])'
      BY <1>1 DEF DiskInv, WriterInv, HeldInv, Told, source
    <3>3. ~ overlapped' => ~ Writing(q)'
      BY <1>3 DEF Writing
    <3> QED
      BY <1>1, <3>1, <3>2, <3>3 DEF DiskInv, WriterInv
  <2> QED
    BY <1>5, <1>6, <1>7, <2>1 DEF WriterInv
<1>9. SyncInv'
  <2>1. CASE p = "sync"
    <3>1. saved' = saved /\ changes' = changes /\ upto = Len(changes) /\ saved <= Len(changes)
      BY <1>1, <2>1, LogFacts DEF source
    <3>2. \A n \in DOMAIN dest' : dest'[n].ver <= upto + 1
      BY <1>1, <3>1, RowFacts, ToldFacts DEF DiskInv, DestInv
    <3>3. \A n \in saved + 1 .. upto : Holds(proc'["sync"], changes[n][1], n + 1)
      BY <1>5, <2>1 DEF Holds
    <3> QED
      BY <1>5, <2>1, <3>1, <3>2, <3>3 DEF SyncInv, Writing, Holds
  <2>2. CASE p # "sync"
    <3>1. proc'["sync"] = proc["sync"]
      BY <1>1, <2>2 DEF Procs
    <3> QED
      BY <1>1, <1>3, <3>1 DEF DiskInv, SyncInv, Writing, Holds, LastRow, Newest, source
  <2> QED
    BY <2>1, <2>2
<1> QED
  BY <1>2, <1>4, <1>8, <1>9 DEF DiskInv

LEMMA StartKeepsDisk ==
  ASSUME Types, DiskInv, StartSync \/ StartBackfill
  PROVE  DiskInv'
<1>1. CASE StartSync
  <2> DEFINE view == {<<changes[n][1], n + 1, changes[n][2]>> :
                         n \in saved + 1 .. Len(changes)}
  <2>1. view \in SUBSET Delivery /\ {} \in SUBSET Ids /\ Len(changes) \in Nat
    BY SyncView, LogFacts
  <2>2. Open("sync", view, {}, Len(changes))
    BY <1>1 DEF StartSync
  <2>3. ASSUME NEW r \in view
        PROVE  Told(r[1], r[2]) /\ r[2] > saved + 1 /\ r[2] <= Len(changes) + 1
    <3>1. PICK n \in saved + 1 .. Len(changes) : r = <<changes[n][1], n + 1, changes[n][2]>>
      OBVIOUS
    <3>2. r[1] = changes[n][1] /\ r[2] = n + 1 /\ n \in DOMAIN changes /\ r[2] - 1 = n
      BY <3>1, LogFacts
    <3> QED
      BY <3>1, <3>2, LogFacts DEF Told
  <2>4. ASSUME NEW n \in saved + 1 .. Len(changes)
        PROVE  \E r \in view : r[1] = changes[n][1] /\ r[2] = n + 1
    <3>1. <<changes[n][1], n + 1, changes[n][2]>> \in view
      OBVIOUS
    <3> QED
      BY <3>1
  <2> HIDE DEF view
  <2> QED
    BY <2>1, <2>2, <2>3, <2>4, OpenKeepsDisk DEF Procs
<1>2. CASE StartBackfill
  <2>1. PICK s \in Slices \cup {{i \in Ids : ver[i] > 1}} :
               Open("backfill", {<<i, ver[i], "u">> : i \in s \cap live}, s, 0)
    BY <1>2 DEF StartBackfill
  <2> DEFINE view == {<<i, ver[i], "u">> : i \in s \cap live}
  <2>2. s \in SUBSET Ids
    BY VerifyAssumption DEF VerifyAssumption
  <2>3. view \in SUBSET Delivery
    BY <2>2, SourceRows DEF Delivery
  <2>4. ASSUME NEW r \in view PROVE Told(r[1], r[2]) /\ r[2] = ver[r[1]]
    BY <2>2 DEF DiskInv, LogInv
  <2>5. Open("backfill", view, s, 0)
    BY <2>1
  <2> HIDE DEF view
  <2> QED
    BY <2>2, <2>3, <2>4, <2>5, OpenKeepsDisk DEF Procs
<1> QED
  BY <1>1, <1>2

LEMMA WriteRowKeepsDisk ==
  ASSUME Types, DiskInv, NEW p \in Procs, WriteRow(p)
  PROVE  DiskInv'
<1>1. UNCHANGED <<source, saved, dest, opened, overlapped>> /\ now \in Nat
  BY DEF WriteRow, disk, Types
<1>2. PICK r \in proc[p].view, m \in Rec :
            /\ \A s \in proc[p].view : ReadNext(r, s)
            /\ proc[p].pc = "writing" /\ \A q \in Procs \ {p} : proc'[q] = proc[q]
            /\ proc'[p].pc = "writing" /\ proc'[p].part = proc[p].part
            /\ proc'[p].upto = proc[p].upto /\ proc'[p].view = proc[p].view \ {r}
            /\ proc'[p].pending = Append(proc[p].pending, m)
            /\ m.id = r[1] /\ m.ver = r[2] /\ m.at = now' /\ m.part = proc[p].part
            /\ now' \in Nat /\ now <= now'
  BY WriteRowFacts
<1> DEFINE old == proc[p].pending
           new == proc'[p].pending
<1>3. /\ old \in Seq(Rec) /\ Len(old) \in Nat /\ DOMAIN old = 1 .. Len(old)
      /\ DOMAIN new = 1 .. Len(old) + 1 /\ new[Len(old) + 1] = m
      /\ \A k \in DOMAIN old : new[k] = old[k]
  BY <1>2, ProcFacts
<1>a. /\ \A s \in proc[p].view : s[1] \in Ids /\ s[2] \in Nat
      /\ \A k \in DOMAIN old : old[k].ver \in Nat /\ old[k].at \in Nat
      /\ \A n \in DOMAIN dest : dest[n].at \in Nat /\ dest[n].ver \in Nat
  BY HeldTypes, RowFacts
<1>b. \A s \in proc[p].view : r[2] <= s[2]
  BY <1>2, <1>a DEF ReadNext
<1>c. \A i, n : Told(i, n)' <=> Told(i, n)
  BY <1>1 DEF Told, source
<1> HIDE DEF old, new
<1>4. \A k \in DOMAIN new : (k \in DOMAIN old /\ new[k] = old[k]) \/ (k = Len(old) + 1 /\ new[k] = m)
  BY <1>3
<1>6. HeldInv(proc[p])
  BY <1>2 DEF DiskInv, WriterInv, Writing
<1>7. HeldInv(proc[p])'
  <2>1. ASSUME NEW k \in DOMAIN new
        PROVE  /\ Told(new[k].id, new[k].ver) /\ new[k].at <= now' /\ new[k].part = proc[p].part
               /\ \A s \in proc[p].view \ {r} : new[k].ver <= s[2]
    <3>1. CASE k \in DOMAIN old /\ new[k] = old[k]
      <4>1. /\ Told(old[k].id, old[k].ver) /\ old[k].at <= now /\ old[k].part = proc[p].part
            /\ \A s \in proc[p].view : old[k].ver <= s[2]
        BY <1>6, <3>1 DEF HeldInv, old
      <4> QED
        BY <1>1, <1>2, <1>a, <3>1, <4>1
    <3>2. CASE new[k] = m
      BY <1>2, <1>6, <1>b, <3>2 DEF HeldInv
    <3> QED
      BY <1>4, <3>1, <3>2
  <2>2. ASSUME NEW k \in DOMAIN new, NEW l \in DOMAIN new, k < l
        PROVE  new[k].at <= new[l].at /\ new[k].ver <= new[l].ver
    <3>1. k \in DOMAIN old /\ new[k] = old[k]
      BY <1>3, <2>2
    <3>2. CASE l \in DOMAIN old
      BY <1>3, <1>6, <2>2, <3>1, <3>2 DEF HeldInv, old
    <3>3. CASE new[l] = m
      <4>1. old[k].at <= now /\ old[k].ver <= r[2]
        BY <1>2, <1>6, <3>1 DEF HeldInv, old
      <4> QED
        BY <1>1, <1>2, <1>a, <3>1, <3>3, <4>1
    <3> QED
      BY <1>4, <3>2, <3>3
  <2> QED
    BY <1>2, <1>6, <1>c, <2>1, <2>2 DEF HeldInv, new
<1>8. ASSUME ~ overlapped PROVE AfterInv(proc[p])'
  <2>1. AfterInv(proc[p])
    BY <1>2, <1>8 DEF DiskInv, WriterInv, Writing
  <2>2. ASSUME NEW n \in DOMAIN dest, NEW k \in DOMAIN new
        PROVE  /\ dest[n].at <= new[k].at
               /\ dest[n].id = new[k].id => dest[n].ver <= new[k].ver \/ new[k].ver > saved + 1
    <3>1. CASE k \in DOMAIN old /\ new[k] = old[k]
      BY <2>1, <3>1 DEF AfterInv, old
    <3>2. CASE new[k] = m
      <4>1. dest[n].at <= now
        BY DEF DiskInv, DestInv
      <4> QED
        BY <1>1, <1>2, <1>a, <2>1, <3>2, <4>1 DEF AfterInv
    <3> QED
      BY <1>4, <3>1, <3>2
  <2> QED
    BY <1>1, <1>2, <2>1, <2>2 DEF AfterInv, new
<1>9. WriterInv'
  <2>1. ASSUME NEW q \in Procs \ {p}
        PROVE  /\ Writing(q)' => HeldInv(proc[q])'
               /\ Writing(q)' /\ ~ overlapped' => AfterInv(proc[q])'
               /\ proc'[q].pc \in {"flushing", "closing"} => proc'[q].view = {}
    <3>1. proc'[q] = proc[q]
      BY <1>2
    <3>2. Writing(q) => HeldInv(proc[q])'
      <4> SUFFICES ASSUME Writing(q) PROVE HeldInv(proc[q])'
        OBVIOUS
      <4>1. HeldInv(proc[q])
        BY DEF DiskInv, WriterInv
      <4>2. \A k \in DOMAIN proc[q].pending : proc[q].pending[k].at <= now'
        BY <1>1, <1>2, <4>1, HeldTypes DEF HeldInv
      <4> QED
        BY <1>c, <3>1, <4>1, <4>2 DEF HeldInv
    <3> QED
      BY <1>1, <3>1, <3>2 DEF DiskInv, WriterInv, Writing, AfterInv
  <2> QED
    BY <1>1, <1>2, <1>7, <1>8, <2>1 DEF WriterInv
<1>10. OrderInv' /\ DestInv' /\ LogInv'
  <2>1. \A q \in Procs : proc'[q].pc = proc[q].pc
    BY <1>2
  <2>2. \A n \in DOMAIN dest : dest[n].at <= now'
    BY <1>1, <1>2, <1>a DEF DiskInv, DestInv
  <2>3. DestInv'
    BY <1>1, <1>c, <2>2 DEF DiskInv, DestInv
  <2> QED
    BY <1>1, <1>c, <2>1, <2>3 DEF DiskInv, OrderInv, LogInv, LastRow, Newest, source
<1>11. SyncInv'
  <2>1. CASE p = "sync"
    <3>1. ASSUME NEW n \in saved + 1 .. proc[p].upto
          PROVE  Holds(proc'[p], changes[n][1], n + 1)
      <4>1. Holds(proc[p], changes[n][1], n + 1)
        BY <1>2, <2>1 DEF DiskInv, SyncInv
      <4>2. CASE \E s \in proc[p].view : s[1] = changes[n][1] /\ s[2] = n + 1
        <5>1. PICK s \in proc[p].view : s[1] = changes[n][1] /\ s[2] = n + 1
          BY <4>2
        <5>2. CASE s = r
          <6>1. Len(old) + 1 \in DOMAIN new
            BY <1>3
          <6> QED
            BY <1>2, <1>3, <5>1, <5>2, <6>1 DEF Holds, new
        <5> QED
          BY <1>2, <5>1, <5>2 DEF Holds
      <4>3. CASE \E k \in DOMAIN old : old[k].id = changes[n][1] /\ old[k].ver = n + 1
        <5>1. \A k \in DOMAIN old : k \in DOMAIN new
          BY <1>3
        <5> QED
          BY <1>3, <4>3, <5>1 DEF Holds, new
      <4> QED
        BY <4>1, <4>2, <4>3 DEF Holds, old
    <3>2. \A k \in DOMAIN new : new[k].ver <= proc[p].upto + 1
      BY <1>2, <1>4, <2>1 DEF DiskInv, SyncInv, Writing, old
    <3>3. \A s \in proc'[p].view : s[2] <= proc[p].upto + 1
      BY <1>2, <2>1 DEF DiskInv, SyncInv, Writing
    <3>4. /\ saved <= proc[p].upto /\ proc[p].upto <= Len(changes)
          /\ ~ overlapped => \A n \in DOMAIN dest : dest[n].ver <= proc[p].upto + 1
      BY <1>2, <2>1 DEF DiskInv, SyncInv
    <3> QED
      BY <1>1, <1>2, <2>1, <3>1, <3>2, <3>3, <3>4 DEF SyncInv, new, source
  <2>2. CASE p # "sync"
    <3>1. proc'["sync"] = proc["sync"]
      BY <1>2, <2>2 DEF Procs
    <3> QED
      BY <1>1, <3>1 DEF DiskInv, SyncInv, Writing, Holds, LastRow, Newest, source
  <2> QED
    BY <2>1, <2>2
<1> QED
  BY <1>9, <1>10, <1>11 DEF DiskInv

LEMMA CreatePartKeepsDisk ==
  ASSUME Types, DiskInv, NEW p \in Procs, StartFlush(p) \/ (p = "sync" /\ FailSync)
  PROVE  DiskInv'
<1>1. UNCHANGED <<source, saved, dest, now, opened, overlapped>>
  BY CreatePartFacts
<1>2. /\ proc[p].pc = "writing"
      /\ \A q \in Procs \ {p} : proc'[q] = proc[q]
      /\ proc'[p].pc \in {"flushing", "closing"} /\ proc'[p].view = {}
      /\ proc'[p].pc = "flushing" => proc[p].view = {}
      /\ proc'[p].part = proc[p].part /\ proc'[p].pending = proc[p].pending
      /\ proc'[p].upto = proc[p].upto
  BY CreatePartFacts
<1>3. \A i, n : Told(i, n)' <=> Told(i, n)
  BY <1>1 DEF Told, source
<1>4. DestInv' /\ OrderInv' /\ LogInv'
  <2>1. \A q \in Procs : proc'[q].pc = "off" <=> proc[q].pc = "off"
    BY <1>2
  <2> QED
    BY <1>1, <1>3, <2>1 DEF DiskInv, DestInv, OrderInv, LogInv, LastRow, Newest, source
<1>5. WriterInv'
  <2>1. ASSUME NEW q \in Procs \ {p}
        PROVE  /\ Writing(q)' => HeldInv(proc[q])'
               /\ Writing(q)' /\ ~ overlapped' => AfterInv(proc[q])'
               /\ proc'[q].pc \in {"flushing", "closing"} => proc'[q].view = {}
    BY <1>1, <1>2, <1>3 DEF DiskInv, WriterInv, Writing, HeldInv, AfterInv
  <2>2. HeldInv(proc[p])'
    <3>1. HeldInv(proc[p])
      BY <1>2 DEF DiskInv, WriterInv, Writing
    <3> QED
      BY <1>1, <1>2, <1>3, <3>1 DEF HeldInv
  <2>3. ~ overlapped' => AfterInv(proc[p])'
    <3>1. ~ overlapped => AfterInv(proc[p])
      BY <1>2 DEF DiskInv, WriterInv, Writing
    <3> QED
      BY <1>1, <1>2, <3>1 DEF AfterInv
  <2> QED
    BY <1>2, <2>1, <2>2, <2>3 DEF WriterInv
<1>6. SyncInv'
  <2>1. CASE p = "sync"
    <3>1. ASSUME proc'[p].pc = "flushing", NEW n \in saved + 1 .. proc[p].upto
          PROVE  Holds(proc'[p], changes[n][1], n + 1)
      BY <1>2, <2>1, <3>1 DEF DiskInv, SyncInv, Holds
    <3> QED
      BY <1>1, <1>2, <2>1, <3>1 DEF DiskInv, SyncInv, Writing, source
  <2>2. CASE p # "sync"
    <3>1. proc'["sync"] = proc["sync"]
      BY <1>2, <2>2 DEF Procs
    <3> QED
      BY <1>1, <3>1 DEF DiskInv, SyncInv, Writing, Holds, LastRow, Newest, source
  <2> QED
    BY <2>1, <2>2
<1> QED
  BY <1>4, <1>5, <1>6 DEF DiskInv

\* Rows of the writer p reach the disk, and p is done with them.
Old(n) == n \in DOMAIN dest /\ dest'[n] = dest[n]
New(p, d, n) == \E k \in DOMAIN proc[p].pending :
                    k > d /\ n = Len(dest) + (k - d) /\ dest'[n] = proc[p].pending[k]

LEMMA AppendedRows ==
  ASSUME Types, NEW p \in Procs, NEW d, NEW l, Appended(p, d, l)
  PROVE  /\ \A n \in DOMAIN dest' : n \in Nat /\ (Old(n) \/ New(p, d, n))
         /\ \A n \in DOMAIN dest : n \in DOMAIN dest' /\ Old(n)
         /\ \A k \in d + 1 .. l : /\ Len(dest) + (k - d) \in DOMAIN dest'
                                  /\ dest'[Len(dest) + (k - d)] = proc[p].pending[k]
                                  /\ k \in DOMAIN proc[p].pending
         /\ \A n : Old(n) => n <= Len(dest)
         /\ \A n : New(p, d, n) => n > Len(dest)
<1>1. /\ d \in {0, 1} /\ l \in Nat /\ l <= Len(proc[p].pending) /\ d <= l
      /\ Len(dest) \in Nat /\ Len(proc[p].pending) \in Nat
      /\ DOMAIN dest = 1 .. Len(dest) /\ DOMAIN proc[p].pending = 1 .. Len(proc[p].pending)
      /\ DOMAIN dest' = 1 .. Len(dest) + (l - d)
      /\ \A n \in DOMAIN dest : dest'[n] = dest[n]
      /\ \A k \in d + 1 .. l : dest'[Len(dest) + (k - d)] = proc[p].pending[k]
  BY DEF Appended
<1>2. ASSUME NEW n \in DOMAIN dest' PROVE Old(n) \/ New(p, d, n)
  <2>1. CASE n \in DOMAIN dest
    BY <1>1, <2>1 DEF Old
  <2>2. CASE n \notin DOMAIN dest
    <3>1. PICK k \in Int : k = n - Len(dest) + d
      BY <1>1
    <3>2. k \in d + 1 .. l /\ n = Len(dest) + (k - d) /\ k \in 1 .. Len(proc[p].pending) /\ k > d
      BY <1>1, <2>2, <3>1
    <3> QED
      BY <1>1, <3>2 DEF New
  <2> QED
    BY <2>1, <2>2
<1>3. \A k \in d + 1 .. l : /\ Len(dest) + (k - d) \in DOMAIN dest'
                            /\ k \in DOMAIN proc[p].pending
  BY <1>1
<1>4. \A n \in DOMAIN dest : n \in DOMAIN dest' /\ Old(n)
  BY <1>1 DEF Old
<1>5. \A n \in DOMAIN dest' : n \in Nat
  BY <1>1
<1> QED
  BY <1>1, <1>2, <1>3, <1>4, <1>5 DEF Old, New

LEMMA AppendKeepsRows ==
  ASSUME Types, DiskInv, NEW p \in Procs, Writing(p), NEW d, NEW l, Appended(p, d, l),
         UNCHANGED <<source, saved, now, opened, overlapped>>,
         \A q \in Procs \ {p} : proc'[q] = proc[q]
  PROVE  DestInv' /\ OrderInv'
<1> DEFINE b == proc[p].pending
<1>1. /\ Len(dest) \in Nat /\ d \in Nat
      /\ \A n \in DOMAIN dest : n \in Nat /\ dest[n].part \in Nat /\ dest[n].ver \in Nat
      /\ \A k \in DOMAIN b : k \in Nat /\ b[k].ver \in Nat
  BY RowFacts, HeldTypes DEF Appended
<1>2. /\ \A n \in DOMAIN dest' : n \in Nat /\ (Old(n) \/ New(p, d, n))
      /\ \A n \in DOMAIN dest : n \in DOMAIN dest' /\ Old(n)
      /\ \A n : Old(n) => n <= Len(dest)
      /\ \A n : New(p, d, n) => n > Len(dest)
  BY AppendedRows
<1>3. HeldInv(proc[p]) /\ (~ overlapped => AfterInv(proc[p]))
  BY DEF DiskInv, WriterInv
<1>4. /\ opened \in Nat /\ proc[p].part <= opened /\ proc[p].part \in Nat /\ saved \in Nat
      /\ \A k \in DOMAIN b : b[k].part = proc[p].part /\ b[k].at <= now /\ Told(b[k].id, b[k].ver)
  BY <1>3, ProcFacts, LogFacts DEF HeldInv, Types
<1>5. \A i, n : Told(i, n)' <=> Told(i, n)
  BY DEF Told, source
<1> HIDE DEF b
<1>6. DestInv'
  <2>1. ASSUME NEW n \in DOMAIN dest'
        PROVE  dest'[n].at <= now /\ dest'[n].part <= opened /\ Told(dest'[n].id, dest'[n].ver)
    <3>1. CASE Old(n)
      BY <3>1 DEF Old, DiskInv, DestInv
    <3>2. CASE New(p, d, n)
      BY <1>4, <3>2 DEF New, b
    <3> QED
      BY <1>2, <3>1, <3>2
  <2>2. ASSUME NEW i \in Ids PROVE \E n \in DOMAIN dest' : dest'[n].id = i
    <3>1. PICK n \in DOMAIN dest : dest[n].id = i
      BY DEF DiskInv, DestInv
    <3> QED
      BY <1>2, <3>1 DEF Old
  <2> QED
    BY <1>5, <2>1, <2>2 DEF DestInv
<1>7. OrderInv'
  <2> SUFFICES ASSUME ~ overlapped PROVE OrderInv'
    BY DEF OrderInv
  <2>1. \A q \in Procs \ {p} : proc[q].pc = "off" /\ proc'[q].pc = "off"
    BY DEF DiskInv, OrderInv, Writing
  <2>2. ASSUME NEW m \in DOMAIN dest', NEW n \in DOMAIN dest', m < n
        PROVE  dest'[m].at <= dest'[n].at /\ dest'[m].part <= dest'[n].part
    <3>1. CASE Old(m) /\ Old(n)
      BY <2>2, <3>1 DEF Old, DiskInv, OrderInv
    <3>2. CASE Old(m) /\ New(p, d, n)
      <4>1. PICK k \in DOMAIN b : dest'[n] = b[k]
        BY <3>2 DEF New, b
      <4>2. dest[m].part \in Nat /\ m \in DOMAIN dest /\ dest'[m] = dest[m]
        BY <1>1, <3>2 DEF Old
      <4> QED
        BY <1>3, <1>4, <4>1, <4>2 DEF AfterInv, b
    <3>3. CASE New(p, d, m) /\ New(p, d, n)
      <4>1. PICK k \in DOMAIN b : m = Len(dest) + (k - d) /\ dest'[m] = b[k]
        BY <3>3 DEF New, b
      <4>2. PICK j \in DOMAIN b : n = Len(dest) + (j - d) /\ dest'[n] = b[j]
        BY <3>3 DEF New, b
      <4>3. k < j
        BY <1>1, <2>2, <4>1, <4>2
      <4> QED
        BY <1>3, <1>4, <4>1, <4>2, <4>3 DEF HeldInv, b
    <3>4. CASE New(p, d, m) /\ Old(n)
      BY <1>1, <1>2, <2>2, <3>4
    <3> QED
      BY <1>2, <3>1, <3>2, <3>3, <3>4
  <2>3. ASSUME NEW n \in DOMAIN dest', LastRow(n)' PROVE Newest(n)' \/ dest'[n].ver > saved + 1
    <3>1. CASE Old(n)
      <4>1. n \in DOMAIN dest /\ dest'[n] = dest[n] /\ n <= Len(dest)
        BY <1>2, <3>1 DEF Old
      <4>2. ASSUME NEW m \in DOMAIN dest', dest'[m].id = dest'[n].id PROVE Old(m)
        <5>1. m <= n /\ m \in Nat /\ n \in Nat
          BY <1>2, <2>3, <4>2 DEF LastRow
        <5> QED
          BY <1>1, <1>2, <4>1, <5>1
      <4>3. LastRow(n)
        BY <1>2, <2>3, <4>1 DEF LastRow, Old
      <4>4. Newest(n) \/ dest[n].ver > saved + 1
        BY <4>1, <4>3 DEF DiskInv, OrderInv
      <4>5. Newest(n) => Newest(n)'
        BY <4>1, <4>2 DEF Newest, Old
      <4> QED
        BY <4>1, <4>4, <4>5
    <3>2. CASE New(p, d, n)
      <4>1. PICK k \in DOMAIN b : n = Len(dest) + (k - d) /\ dest'[n] = b[k]
        BY <3>2 DEF New, b
      <4>2. ASSUME NEW m \in DOMAIN dest', dest'[m].id = dest'[n].id, ~ (b[k].ver > saved + 1)
            PROVE  dest'[m].ver <= dest'[n].ver
        <5>1. CASE Old(m)
          BY <1>3, <4>1, <4>2, <5>1 DEF AfterInv, Old, b
        <5>2. CASE New(p, d, m)
          <6>1. PICK j \in DOMAIN b : m = Len(dest) + (j - d) /\ dest'[m] = b[j]
            BY <5>2 DEF New, b
          <6>2. m <= n
            BY <2>3, <4>2 DEF LastRow
          <6>3. j < k \/ j = k
            BY <1>1, <4>1, <6>1, <6>2
          <6> QED
            BY <1>1, <1>3, <4>1, <6>1, <6>3 DEF HeldInv, b
        <5> QED
          BY <1>2, <5>1, <5>2
      <4> QED
        BY <4>1, <4>2 DEF Newest
    <3> QED
      BY <1>2, <3>1, <3>2
  <2>4. \A a, q \in Procs : a # q => proc'[a].pc = "off" \/ proc'[q].pc = "off"
    BY <2>1
  <2> QED
    BY <2>2, <2>3, <2>4 DEF OrderInv
<1> QED
  BY <1>6, <1>7

\* Once a sync's rows are on disk, but for one that a torn line swallowed, the last row
\* of every id is its newest.
LEMMA SyncCatchesUp ==
  ASSUME Types, DiskInv, NEW d, Appended("sync", d, Len(proc["sync"].pending)),
         proc["sync"].pc = "flushing", ~ overlapped
  PROVE  /\ \A n \in DOMAIN dest' : dest'[n].ver <= proc["sync"].upto + 1
         /\ \A n \in DOMAIN dest' : LastRow(n)' => Newest(n)'
<1> DEFINE b == proc["sync"].pending
           u == proc["sync"].upto
<1>0. "sync" \in Procs /\ Writing("sync")
  BY DEF Procs, Writing
<1>1. /\ Len(dest) \in Nat /\ d \in {0, 1} /\ u \in Nat /\ saved \in Nat /\ Len(b) \in Nat
      /\ \A n \in DOMAIN dest : /\ n \in Nat /\ dest[n].ver \in Nat \ {0}
                                /\ dest[n].id \in Ids
      /\ \A k \in DOMAIN b : k \in Nat /\ k >= 1 /\ k <= Len(b) /\ b[k].ver \in Nat \ {0}
      /\ DOMAIN b = 1 .. Len(b)
  BY <1>0, RowFacts, HeldTypes, ProcFacts, LogFacts DEF Appended
<1>2. /\ \A n \in DOMAIN dest' : n \in Nat /\ (Old(n) \/ New("sync", d, n))
      /\ \A n \in DOMAIN dest : n \in DOMAIN dest' /\ Old(n)
      /\ \A k \in d + 1 .. Len(b) : /\ Len(dest) + (k - d) \in DOMAIN dest'
                                    /\ dest'[Len(dest) + (k - d)] = b[k]
      /\ \A n : Old(n) => n <= Len(dest)
      /\ \A n : New("sync", d, n) => n > Len(dest)
  BY <1>0, AppendedRows
<1>3. /\ HeldInv(proc["sync"]) /\ proc["sync"].view = {}
      /\ \A n \in DOMAIN dest : dest[n].ver <= u + 1 /\ Told(dest[n].id, dest[n].ver)
      /\ \A k \in DOMAIN b : b[k].ver <= u + 1 /\ Told(b[k].id, b[k].ver)
  BY <1>0 DEF DiskInv, WriterInv, SyncInv, DestInv, HeldInv
<1>4. \A k, j \in DOMAIN b : k < j => b[k].ver <= b[j].ver
  BY <1>3 DEF HeldInv
\* A version after the saved position, up to the run's, is among the rows.
<1>5. ASSUME NEW i, NEW n \in Nat, Told(i, n), n > saved + 1, n <= u + 1
      PROVE  \E k \in DOMAIN b : b[k].id = i /\ b[k].ver = n
  <2>1. PICK c \in Int : c = n - 1
    BY <1>5
  <2>2. c \in saved + 1 .. u /\ n # 1 /\ c + 1 = n
    BY <1>1, <1>5, <2>1
  <2>3. changes[c][1] = i
    BY <1>5, <2>1, <2>2 DEF Told
  <2>4. Holds(proc["sync"], changes[c][1], c + 1)
    BY <2>2 DEF DiskInv, SyncInv
  <2> QED
    BY <1>3, <2>2, <2>3, <2>4 DEF Holds
<1> HIDE DEF b, u
<1>6. ASSUME NEW n \in DOMAIN dest'
      PROVE  /\ dest'[n].ver <= u + 1 /\ dest'[n].ver \in Nat \ {0}
             /\ Told(dest'[n].id, dest'[n].ver)
  <2>1. CASE Old(n)
    BY <1>1, <1>3, <2>1 DEF Old
  <2>2. CASE New("sync", d, n)
    BY <1>1, <1>3, <2>2 DEF New, b
  <2> QED
    BY <1>2, <2>1, <2>2
<1>7. ASSUME NEW n \in DOMAIN dest', LastRow(n)', NEW m \in DOMAIN dest',
             dest'[m].id = dest'[n].id, dest'[m].ver > dest'[n].ver
      PROVE  FALSE
  <2>1. n \in Nat /\ m \in Nat /\ m <= n /\ dest'[m].ver \in Nat /\ dest'[n].ver \in Nat
    BY <1>2, <1>6, <1>7 DEF LastRow
  <2>2. Old(n) => Old(m)
    BY <1>1, <1>2, <2>1
  <2>3. ASSUME Old(n) PROVE dest[n].ver > saved + 1
    <3>1. /\ n \in DOMAIN dest /\ dest'[n] = dest[n] /\ m \in DOMAIN dest
          /\ dest'[m] = dest[m]
      BY <2>2, <2>3 DEF Old
    <3>2. LastRow(n)
      BY <1>2, <1>7, <3>1 DEF LastRow, Old
    <3>3. Newest(n) \/ dest[n].ver > saved + 1
      BY <3>1, <3>2 DEF DiskInv, OrderInv
    <3>4. ~ Newest(n)
      BY <1>1, <1>7, <3>1 DEF Newest
    <3> QED
      BY <3>3, <3>4
  \* The row that would be newer is one of the run's.
  <2>4. dest'[m].ver > saved + 1
    <3>1. CASE Old(n)
      <4>1. dest'[n].ver > saved + 1
        BY <2>3, <3>1 DEF Old
      <4> QED
        BY <1>1, <1>7, <2>1, <4>1
    <3>2. CASE New("sync", d, n)
      <4>1. PICK k \in DOMAIN b : k > d /\ n = Len(dest) + (k - d) /\ dest'[n] = b[k]
        BY <3>2 DEF New, b
      <4>2. CASE Old(m)
        <5>1. m \in DOMAIN dest /\ dest'[m] = dest[m]
          BY <4>2 DEF Old
        <5>2. dest[m].ver <= b[k].ver \/ b[k].ver > saved + 1
          BY <1>0, <1>7, <4>1, <5>1 DEF DiskInv, WriterInv, AfterInv, b
        <5> QED
          BY <1>1, <1>7, <2>1, <4>1, <5>1, <5>2
      <4>3. CASE New("sync", d, m)
        <5>1. PICK j \in DOMAIN b : j > d /\ m = Len(dest) + (j - d) /\ dest'[m] = b[j]
          BY <4>3 DEF New, b
        <5>2. j < k \/ j = k
          BY <1>1, <2>1, <4>1, <5>1
        <5>3. b[j].ver <= b[k].ver
          BY <1>1, <1>4, <5>2
        <5> QED
          BY <1>1, <1>7, <4>1, <5>1, <5>3
      <4> QED
        BY <1>2, <4>2, <4>3
    <3> QED
      BY <1>2, <3>1, <3>2
  <2>5. PICK k \in DOMAIN b : b[k].id = dest'[m].id /\ b[k].ver = dest'[m].ver
    BY <1>5, <1>6, <2>1, <2>4
  \* And so is the last one of its id.
  <2>6. PICK j \in DOMAIN b : b[j].ver = dest'[n].ver /\ (Old(n) \/ n = Len(dest) + (j - d))
    <3>1. CASE Old(n)
      <4>1. dest'[n].ver > saved + 1
        BY <2>3, <3>1 DEF Old
      <4> QED
        BY <1>5, <1>6, <2>1, <3>1, <4>1
    <3>2. CASE New("sync", d, n)
      BY <3>2 DEF New, b
    <3> QED
      BY <1>2, <3>1, <3>2
  <2>7. j < k
    <3>1. ~ (k < j)
      BY <1>1, <1>4, <1>7, <2>1, <2>5, <2>6
    <3>2. k # j
      BY <1>1, <1>7, <2>5, <2>6
    <3> QED
      BY <1>1, <3>1, <3>2
  \* So the newer one is not the first, which alone may be swallowed, and stands behind.
  <2>8. k \in d + 1 .. Len(b)
    BY <1>1, <2>7
  <2>9. Len(dest) + (k - d) \in DOMAIN dest' /\ dest'[Len(dest) + (k - d)] = b[k]
    BY <1>2, <2>8
  <2>10. Len(dest) + (k - d) <= n
    BY <1>7, <2>5, <2>9 DEF LastRow
  <2> QED
    <3>1. CASE Old(n)
      BY <1>1, <1>2, <2>1, <2>8, <2>10, <3>1
    <3>2. CASE n = Len(dest) + (j - d)
      BY <1>1, <2>7, <2>10, <3>2
    <3> QED
      BY <2>6, <3>1, <3>2
<1>8. ASSUME NEW n \in DOMAIN dest', LastRow(n)' PROVE Newest(n)'
  <2>1. ASSUME NEW m \in DOMAIN dest', dest'[m].id = dest'[n].id
        PROVE  dest'[m].ver <= dest'[n].ver
    <3>1. dest'[m].ver \in Nat /\ dest'[n].ver \in Nat
      BY <1>6
    <3>2. ~ (dest'[m].ver > dest'[n].ver)
      BY <1>7, <1>8, <2>1
    <3> QED
      BY <3>1, <3>2
  <2> QED
    BY <2>1 DEF Newest
<1> QED
  BY <1>6, <1>8 DEF u

\* A writer that is not writing holds nothing.
LEMMA NextRest == ASSUME Types, RestInv, [Next]_vars PROVE RestInv'
<1>1. proc \in [Procs -> ProcType(opened)] /\ "sync" \in Procs /\ "backfill" \in Procs
  BY DEF Types, Procs
<1>2. Idle.pending = <<>>
  BY DEF Idle
<1>3. ASSUME NEW p \in Procs, \A q \in Procs \ {p} : proc'[q] = proc[q],
             Writing(p)' \/ proc'[p].pending = <<>>
      PROVE  RestInv'
  BY <1>3 DEF RestInv, Writing
<1>4. CASE UNCHANGED proc
  BY <1>4 DEF RestInv, Writing
<1>5. ASSUME NEW p \in Procs, WriteRow(p) PROVE RestInv'
  <2>1. /\ \A q \in Procs \ {p} : proc'[q] = proc[q]
        /\ proc'[p].pc = "writing"
    BY <1>5, WriteRowFacts
  <2> QED
    BY <1>3, <2>1 DEF Writing
<1>6. ASSUME NEW p \in Procs, StartFlush(p) \/ (p = "sync" /\ FailSync) PROVE RestInv'
  <2>1. /\ \A q \in Procs \ {p} : proc'[q] = proc[q]
        /\ proc'[p].pc \in {"flushing", "closing"}
    BY <1>6, CreatePartFacts
  <2> QED
    BY <1>3, <2>1 DEF Writing
<1>7. ASSUME NEW p \in Procs, FinishPart(p) PROVE RestInv'
  <2>1. /\ \A q \in Procs \ {p} : proc'[q] = proc[q]
        /\ proc'[p].pending = <<>>
    BY <1>1, <1>2, <1>7 DEF FinishPart, ProcType
  <2> QED
    BY <1>3, <2>1
<1>8. ASSUME NEW p \in Procs, Stop(p) PROVE RestInv'
  <2>1. /\ \A q \in Procs \ {p} : proc'[q] = proc[q]
        /\ proc'[p].pending = <<>>
    BY <1>2, <1>8, StopFacts
  <2> QED
    BY <1>3, <2>1
<1>9. CASE StartSync \/ StartBackfill
  <2>1. \E p \in Procs : \E view, slice, upto : Open(p, view, slice, upto)
    BY <1>1, <1>9 DEF StartSync, StartBackfill
  <2>2. PICK p \in Procs : /\ \A q \in Procs \ {p} : proc'[q] = proc[q]
                           /\ proc'[p].pending = <<>>
    BY <1>1, <2>1 DEF Open, Idle
  <2> QED
    BY <1>3, <2>2
<1>10. CASE FinishSync
  BY <1>1, <1>2, <1>3, <1>10 DEF FinishSync
<1>11. CASE CloseBackfill
  <2>1. proc["backfill"].pending = <<>>
    BY <1>1, <1>11 DEF CloseBackfill, RestInv, Writing
  <2>2. /\ \A q \in Procs \ {"backfill"} : proc'[q] = proc[q]
        /\ proc'["backfill"].pending = <<>>
    BY <1>1, <1>11, <2>1 DEF CloseBackfill, ProcType
  <2> QED
    BY <1>1, <1>3, <2>2
<1>12. CASE Report
  BY <1>1, <1>2, <1>3, <1>4, <1>12 DEF Report
<1>13. CASE VerifyStep \/ StartVerify \/ UNCHANGED vars
  BY <1>4, <1>13, VerifySteps DEF verifying, StartVerify, vars
<1>14. ASSUME NEW i \in Ids, NEW op \in {"u", "d"}, SourceWrite(i, op) PROVE RestInv'
  BY <1>4, <1>14 DEF SourceWrite
<1> QED
  BY <1>1, <1>5, <1>6, <1>7, <1>8, <1>9, <1>10, <1>11, <1>12, <1>13, <1>14
     DEF Next, VerifyStep

\* A part-file is finished, or its writer killed.
LEMMA AppendKeepsDisk ==
  ASSUME Types, RestInv, DiskInv, NEW p \in Procs, FinishPart(p) \/ Stop(p)
  PROVE  DiskInv'
<1>1. /\ UNCHANGED <<source, saved, now, opened, overlapped>>
      /\ \A q \in Procs \ {p} : proc'[q] = proc[q]
      /\ proc'[p].pc \in {"off", "flushed"} /\ proc[p].pc # "off"
      /\ proc'[p].pc = "flushed" => proc[p].pc = "flushing" /\ proc'[p].upto = proc[p].upto
      /\ proc[p].pc \in {"flushed", "verifying"} => proc'[p].pc = "off"
  BY FinishPartFacts, StopFacts DEF Idle
<1>2. PICK d \in {0, 1}, l \in Nat : /\ Appended(p, d, l)
                                     /\ FinishPart(p) => l = Len(proc[p].pending)
  <2>1. CASE FinishPart(p)
    <3>1. Len(proc[p].pending) \in Nat
      BY ProcFacts
    <3> QED
      BY <2>1, <3>1, FinishPartFacts
  <2>2. CASE ~ FinishPart(p)
    BY <2>2, StopFacts
  <2> QED
    BY <2>1, <2>2
<1>3. proc'[p].pc = "flushed" => FinishPart(p)
  BY <1>1, StopFacts DEF Idle
<1>a. \A i, n : Told(i, n)' <=> Told(i, n)
  BY <1>1 DEF Told, source
<1>4. /\ \A n \in DOMAIN dest' : n \in Nat /\ (Old(n) \/ New(p, d, n))
      /\ \A n \in DOMAIN dest : n \in DOMAIN dest' /\ Old(n)
  BY <1>2, AppendedRows
<1>5. DestInv' /\ OrderInv'
  <2>1. CASE Writing(p)
    BY <1>1, <1>2, <2>1, AppendKeepsRows
  <2>2. CASE ~ Writing(p)
    <3>1. proc[p].pending = <<>>
      BY <2>2 DEF RestInv
    <3>2. dest' = dest
      <4>1. /\ Len(dest) \in Nat /\ DOMAIN dest' = 1 .. Len(dest) + (l - d) /\ d <= l
            /\ l \in 0 .. Len(proc[p].pending) /\ dest' \in Seq(Rec) /\ dest \in Seq(Rec)
            /\ DOMAIN dest = 1 .. Len(dest) /\ \A n \in DOMAIN dest : dest'[n] = dest[n]
        BY <1>2 DEF Appended, Types
      <4>2. l = 0 /\ d = 0
        BY <1>2, <3>1, <4>1
      <4>3. DOMAIN dest' = DOMAIN dest
        BY <4>1, <4>2
      <4> QED
        BY <4>1, <4>3
    <3>3. \A q \in Procs : proc[q].pc = "off" => proc'[q].pc = "off"
      BY <1>1
    <3> QED
      BY <1>1, <1>a, <3>2, <3>3 DEF DiskInv, DestInv, OrderInv, LastRow, Newest
  <2> QED
    BY <2>1, <2>2
<1>6. ~ overlapped => \A q \in Procs \ {p} : proc[q].pc = "off"
  BY <1>1 DEF DiskInv, OrderInv
<1>7. WriterInv'
  <2>1. ASSUME NEW q \in Procs \ {p}
        PROVE  /\ Writing(q)' => HeldInv(proc[q])'
               /\ Writing(q)' /\ ~ overlapped' => AfterInv(proc[q])'
               /\ proc'[q].pc \in {"flushing", "closing"} => proc'[q].view = {}
    <3>1. Writing(q)' => Writing(q) /\ HeldInv(proc[q])'
      BY <1>1, <1>a DEF DiskInv, WriterInv, Writing, HeldInv
    <3>2. ~ overlapped => ~ Writing(q)
      BY <1>6 DEF Writing
    <3> QED
      BY <1>1, <3>1, <3>2 DEF DiskInv, WriterInv
  <2>2. ~ Writing(p)' /\ proc'[p].pc \notin {"flushing", "closing"}
    BY <1>1 DEF Writing
  <2> QED
    BY <2>1, <2>2 DEF WriterInv
<1>8. SyncInv'
  <2>1. CASE p = "sync" /\ proc'[p].pc = "flushed"
    <3>1. /\ FinishPart("sync") /\ proc["sync"].pc = "flushing"
          /\ proc'["sync"].upto = proc["sync"].upto
      BY <1>1, <1>3, <2>1
    <3>2. /\ saved <= proc["sync"].upto /\ proc["sync"].upto <= Len(changes)
      BY <3>1 DEF DiskInv, SyncInv
    <3>3. ~ overlapped =>
             /\ \A n \in DOMAIN dest' : dest'[n].ver <= proc["sync"].upto + 1
             /\ \A n \in DOMAIN dest' : LastRow(n)' => Newest(n)'
      BY <1>2, <2>1, <3>1, SyncCatchesUp
    <3> QED
      BY <1>1, <2>1, <3>1, <3>2, <3>3 DEF SyncInv, Writing, source
  <2>2. CASE p = "sync" /\ proc'[p].pc = "off"
    BY <2>2 DEF SyncInv, Writing
  <2>3. CASE p # "sync"
    <3>1. proc'["sync"] = proc["sync"] /\ (~ overlapped => proc["sync"].pc = "off")
      BY <1>1, <1>6, <2>3 DEF Procs
    <3> QED
      BY <1>1, <3>1 DEF DiskInv, SyncInv, Writing, Holds, source
  <2> QED
    BY <1>1, <2>1, <2>2, <2>3
<1>9. LogInv'
  BY <1>1, <1>a DEF DiskInv, LogInv, source
<1> QED
  BY <1>5, <1>7, <1>8, <1>9 DEF DiskInv

LEMMA NextDisk ==
  ASSUME Types, RestInv, DiskInv, [Next]_vars
  PROVE  DiskInv'
<1>0. "backfill" \in Procs /\ "sync" \in Procs
  BY DEF Procs
<1>1. ASSUME NEW i \in Ids, NEW op \in {"u", "d"}, SourceWrite(i, op) PROVE DiskInv'
  BY <1>1, SourceWriteDisk
<1>2. ASSUME UNCHANGED <<dest, source, saved, proc, now, opened, overlapped>> PROVE DiskInv'
  <2>1. LogInv'
    BY <1>2 DEF DiskInv, LogInv, Told, source
  <2>2. Len(changes) \in Nat /\ changes' = changes
    BY <1>2, LogFacts DEF source
  <2> QED
    BY <1>2, <2>1, <2>2, GrowthKeepsDisk
<1>3. CASE UNCHANGED verifying \/ StartVerify \/ UNCHANGED vars
  BY <1>2, <1>3 DEF verifying, StartVerify, vars, disk
<1>4. CASE FinishSync
  BY <1>4, FinishSyncDisk
<1>5. CASE CloseBackfill
  <2> DEFINE x == [proc["backfill"] EXCEPT !.pc = "verifying"]
  <2>1. /\ UNCHANGED <<dest, source, saved, now, opened, overlapped>>
        /\ proc["backfill"].pc = "flushed" /\ proc' = [proc EXCEPT !["backfill"] = x]
    BY <1>5 DEF CloseBackfill, disk
  <2>2. x.pc = "verifying"
    BY <1>0, <2>1 DEF Types, ProcType
  <2> HIDE DEF x
  <2> QED
    BY <1>0, <2>1, <2>2, LeavingKeepsDisk
<1>6. CASE Report
  <2>1. /\ UNCHANGED <<dest, source, saved, now, opened, overlapped>>
        /\ proc' = [proc EXCEPT !["backfill"] = Idle] \/ proc' = proc
    BY <1>6 DEF Report, disk
  <2> QED
    BY <1>0, <1>2, <2>1, LeavingKeepsDisk DEF Idle
<1>7. ASSUME NEW p \in Procs, WriteRow(p) \/ StartFlush(p) \/ FinishPart(p) \/ Stop(p)
      PROVE  DiskInv'
  BY <1>7, WriteRowKeepsDisk, CreatePartKeepsDisk, AppendKeepsDisk
<1>8. CASE FailSync
  BY <1>0, <1>8, CreatePartKeepsDisk
<1> QED
  BY <1>1, <1>3, <1>4, <1>5, <1>6, <1>7, <1>8, StartKeepsDisk, VerifySteps
     DEF Next, VerifyStep

-----------------------------------------------------------------------------
(* What a backfill of a source that stands still has in its hands.         *)

LEMMA BackfillKeeps ==
  ASSUME BackfillInv, UNCHANGED <<live, ver, dest>>, proc'["backfill"] = proc["backfill"],
         v'.since => v.since, overlapped => overlapped'
  PROVE  BackfillInv'
BY DEF BackfillInv, Writing, Holds, Corrected

LEMMA BackfillOff == ASSUME proc'["backfill"].pc = "off" PROVE BackfillInv'
BY DEF BackfillInv, Writing

\* Rows of a sync do not reach the disk next to a backfill's without an overlap.
LEMMA SyncKeepsBackfill ==
  ASSUME BackfillInv, UNCHANGED <<live, ver, overlapped>>,
         proc'["backfill"] = proc["backfill"],
         ~ overlapped => proc["backfill"].pc = "off", v'.since => v.since
  PROVE  BackfillInv'
BY DEF BackfillInv, Writing, Holds

\* Upserts of what the source holds correct their ids once on disk, all but the one that
\* a torn line swallowed.
LEMMA FlushCorrects ==
  ASSUME Types, NEW p \in Procs, NEW d \in {0, 1}, NEW b, b = proc[p].pending,
         Appended(p, d, Len(b)), ver' = ver,
         \A k \in DOMAIN b : b[k].ver = ver[b[k].id] /\ b[k].op = "u",
         NEW k \in DOMAIN b, d = 1 => k # 1, NEW i, b[k].id = i
  PROVE  Corrected(i)'
<1> DEFINE n == Len(dest) + (k - d)
<1>1. Len(dest) \in Nat /\ Len(b) \in Nat /\ DOMAIN b = 1 .. Len(b)
  BY DEF Appended
<1>2. k \in d + 1 .. Len(b) /\ k \in Nat
  BY <1>1
<1>3. n \in DOMAIN dest' /\ dest'[n] = b[k]
  BY <1>2, AppendedRows
<1>4. n > Len(dest) /\ n \in Nat
  BY <1>1, <1>2
<1> HIDE DEF n
<1>5. ASSUME NEW m \in DOMAIN dest', n <= m
      PROVE  dest'[m].ver = ver[dest'[m].id] /\ dest'[m].op = "u"
  <2>1. m \in Nat /\ (Old(m) \/ New(p, d, m)) /\ (Old(m) => m <= Len(dest))
    BY AppendedRows
  <2>2. New(p, d, m)
    BY <1>1, <1>4, <1>5, <2>1
  <2> QED
    BY <2>2 DEF New
<1> QED
  BY <1>3, <1>5 DEF Corrected

LEMMA WriterKeepsBackfill ==
  ASSUME Types, DiskInv, BackfillInv, VerifyTypes, NEW p \in Procs,
         \/ WriteRow(p) \/ StartFlush(p) \/ (p = "sync" /\ FailSync)
         \/ FinishPart(p) \/ Stop(p)
  PROVE  BackfillInv'
<1>1. CASE WriteRow(p)
  <2>1. UNCHANGED <<live, ver, dest, v, overlapped>>
    BY <1>1 DEF WriteRow, source, disk
  <2>2. PICK r \in proc[p].view, m \in Rec :
            /\ proc[p].pc = "writing" /\ \A q \in Procs \ {p} : proc'[q] = proc[q]
            /\ proc'[p].pc = "writing"
            /\ proc'[p].slice = proc[p].slice /\ proc'[p].view = proc[p].view \ {r}
            /\ proc'[p].pending = Append(proc[p].pending, m)
            /\ m.id = r[1] /\ m.ver = r[2] /\ m.op = r[3]
    BY <1>1, WriteRowFacts
  <2>3. CASE p = "backfill"
    <3> DEFINE old == proc[p].pending
               new == proc'[p].pending
    <3>0. old \in Seq(Rec) /\ new = Append(old, m) /\ m \in Rec
      BY <2>2, ProcFacts
    <3> HIDE DEF old, new
    <3>1. /\ Len(old) + 1 \in DOMAIN new /\ new[Len(old) + 1] = m
          /\ \A k \in DOMAIN old : k \in DOMAIN new /\ new[k] = old[k]
          /\ \A k \in DOMAIN new : (k \in DOMAIN old /\ new[k] = old[k]) \/ new[k] = m
      BY ONLY <3>0
    <3>2. ASSUME v.since
          PROVE  /\ \A s \in proc[p].view : s[2] = ver[s[1]] /\ s[3] = "u"
                 /\ \A k \in DOMAIN old : old[k].ver = ver[old[k].id] /\ old[k].op = "u"
                 /\ \A i \in proc[p].slice \cap live : Holds(proc[p], i, ver[i])
      BY <2>2, <2>3, <3>2 DEF BackfillInv, Writing, old
    <3>3. ASSUME v.since, NEW k \in DOMAIN new
          PROVE  new[k].ver = ver[new[k].id] /\ new[k].op = "u"
      BY <2>2, <3>1, <3>2, <3>3
    <3>4. ASSUME v.since, NEW i \in proc[p].slice \cap live
          PROVE  Holds(proc'[p], i, ver[i])
      <4>1. \/ \E s \in proc[p].view : s[1] = i /\ s[2] = ver[i]
            \/ \E k \in DOMAIN old : old[k].id = i /\ old[k].ver = ver[i]
        BY <3>2, <3>4 DEF Holds, old
      <4>2. CASE r[1] = i /\ r[2] = ver[i]
        BY <2>2, <3>1, <4>2 DEF Holds, new
      <4>3. CASE \E s \in proc[p].view \ {r} : s[1] = i /\ s[2] = ver[i]
        BY <2>2, <4>3 DEF Holds
      <4>4. CASE \E k \in DOMAIN old : old[k].id = i /\ old[k].ver = ver[i]
        BY <3>1, <4>4 DEF Holds, new
      <4> QED
        BY <4>1, <4>2, <4>3, <4>4
    <3> QED
      BY <2>1, <2>2, <2>3, <3>2, <3>3, <3>4 DEF BackfillInv, Writing, new
  <2>4. CASE p # "backfill"
    BY <2>1, <2>2, <2>4, BackfillKeeps DEF Procs
  <2> QED
    BY <2>3, <2>4
<1>2. CASE StartFlush(p) \/ (p = "sync" /\ FailSync)
  <2>1. UNCHANGED <<live, ver, dest, v, overlapped>>
    BY <1>2, CreatePartFacts DEF source
  <2>2. /\ proc[p].pc = "writing" /\ \A q \in Procs \ {p} : proc'[q] = proc[q]
        /\ proc'[p].pc \in {"flushing", "closing"} /\ proc'[p].slice = proc[p].slice
        /\ proc'[p].pc = "flushing" => proc[p].view = {}
        /\ proc'[p].view = {} /\ proc'[p].pending = proc[p].pending
    BY <1>2, CreatePartFacts
  <2>3. CASE p = "backfill"
    <3>1. ASSUME v.since
          PROVE  /\ \A k \in DOMAIN proc[p].pending :
                       /\ proc[p].pending[k].ver = ver[proc[p].pending[k].id]
                       /\ proc[p].pending[k].op = "u"
                 /\ \A i \in proc[p].slice \cap live : Holds(proc[p], i, ver[i])
      BY <2>2, <2>3, <3>1 DEF BackfillInv, Writing
    <3>2. ASSUME v.since, proc'[p].pc # "closing", NEW i \in proc[p].slice \cap live
          PROVE  Holds(proc'[p], i, ver[i])
      BY <2>2, <3>1, <3>2 DEF Holds
    <3> QED
      BY <2>1, <2>2, <2>3, <3>1, <3>2 DEF BackfillInv, Writing
  <2>4. CASE p # "backfill"
    BY <2>1, <2>2, <2>4, BackfillKeeps DEF Procs
  <2> QED
    BY <2>3, <2>4
<1>3. CASE FinishPart(p)
  <2> DEFINE b == proc[p].pending
  <2>1. /\ UNCHANGED <<live, ver, overlapped>>
        /\ proc[p].pc \in {"flushing", "closing"}
        /\ \A q \in Procs \ {p} : proc'[q] = proc[q]
        /\ proc[p].pc = "closing" => proc'[p].pc = "off"
        /\ proc[p].pc = "flushing" => proc'[p].pc = "flushed" /\ proc'[p].slice = proc[p].slice
    BY <1>3, FinishPartFacts DEF source, Idle
  <2>2. v'.since = v.since
    BY <1>3 DEF FinishPart, Moved, VerifyTypes
  <2> HIDE DEF b
  <2>3. CASE p = "backfill" /\ proc[p].pc = "flushing"
    <3>1. PICK d \in {0, 1} : /\ Appended(p, d, Len(b))
                              /\ d = 1 => proc'[p].lost = {b[1].id}
      BY <1>3, <2>3, FinishPartFacts DEF b
    <3>2. proc[p].view = {}
      BY <2>3 DEF DiskInv, WriterInv
    <3>3. ASSUME v.since, NEW i \in proc[p].slice \cap live
          PROVE  i \in proc'[p].lost \/ Corrected(i)'
      <4>1. PICK k \in DOMAIN b : b[k].id = i
        BY <2>3, <3>2, <3>3 DEF BackfillInv, Writing, Holds, b
      <4>2. \A j \in DOMAIN b : b[j].ver = ver[b[j].id] /\ b[j].op = "u"
        BY <2>3, <3>3 DEF BackfillInv, Writing, b
      <4>3. CASE d = 1 /\ k = 1
        BY <3>1, <4>1, <4>3
      <4>4. CASE ~ (d = 1 /\ k = 1)
        <5>1. b = proc[p].pending
          BY DEF b
        <5> QED
          BY <2>1, <3>1, <4>1, <4>2, <4>4, <5>1, FlushCorrects
      <4> QED
        BY <4>3, <4>4
    <3> QED
      BY <2>1, <2>2, <2>3, <3>3 DEF BackfillInv, Writing
  <2>4. CASE p = "backfill" /\ proc[p].pc = "closing"
    BY <2>1, <2>4, BackfillOff
  <2>5. CASE p # "backfill"
    <3>1. proc'["backfill"] = proc["backfill"]
      BY <2>1, <2>5 DEF Procs
    <3>2. ~ overlapped => proc["backfill"].pc = "off"
      BY <2>1, <2>5 DEF DiskInv, OrderInv, Procs
    <3> QED
      BY <2>1, <2>2, <3>1, <3>2, SyncKeepsBackfill
  <2> QED
    BY <2>1, <2>3, <2>4, <2>5
<1>4. CASE Stop(p)
  <2>1. /\ UNCHANGED <<live, ver, overlapped>> /\ proc[p].pc # "off"
        /\ proc'[p].pc = "off" /\ \A q \in Procs \ {p} : proc'[q] = proc[q]
    BY <1>4, StopFacts DEF source, Idle
  <2>2. CASE p = "backfill"
    BY <2>1, <2>2, BackfillOff
  <2>3. CASE p # "backfill"
    <3>1. p = "sync" /\ proc'["backfill"] = proc["backfill"]
      BY <2>1, <2>3 DEF Procs
    <3>2. v'.since = v.since
      <4>1. v.by # p
        BY <3>1 DEF VerifyTypes
      <4> QED
        BY <1>4, <4>1 DEF Stop, Moved, VerifyTypes
    <3>3. ~ overlapped => proc["backfill"].pc = "off"
      BY <2>1, <2>3 DEF DiskInv, OrderInv, Procs
    <3> QED
      BY <2>1, <3>1, <3>2, <3>3, SyncKeepsBackfill
  <2> QED
    BY <2>2, <2>3
<1> QED
  BY <1>1, <1>2, <1>3, <1>4

LEMMA VerifyStepSince == ASSUME VerifyTypes, VerifyStep \/ StartVerify PROVE v'.since = v.since
<1> USE DEF VerifyTypes
<1>1. CASE StartVerify
  BY <1>1 DEF StartVerify, BeginVerify, NoVerify
<1>2. CASE ReadSourceChunk
  BY <1>2 DEF ReadSourceChunk
<1>3. CASE ReadDest
  BY <1>3 DEF ReadDest
<1>4. CASE FailDest \/ FinishBisect
  BY <1>4 DEF FailDest, FinishBisect
<1>5. CASE Bisect
  BY <1>5 DEF Bisect, Enumerate
<1> QED
  BY <1>1, <1>2, <1>3, <1>4, <1>5 DEF VerifyStep

LEMMA NextBackfill ==
  ASSUME Types, DiskInv, BackfillInv, VerifyTypes, [Next]_vars
  PROVE  BackfillInv'
<1>0. "backfill" \in Procs /\ "sync" \in Procs
  BY DEF Procs
<1>1. ASSUME NEW i \in Ids, NEW op \in {"u", "d"}, SourceWrite(i, op)
      PROVE  BackfillInv'
  <2>1. proc' = proc /\ v'.since = (proc["backfill"].pc = "off")
    BY <1>1 DEF SourceWrite, Unsteady, VerifyTypes
  <2> QED
    BY <2>1 DEF BackfillInv, Writing
<1>2. CASE VerifyStep \/ StartVerify
  <2>1. UNCHANGED <<live, ver, dest, proc, overlapped>>
    BY <1>2, VerifySteps DEF StartVerify, verifying, source, disk
  <2> QED
    BY <1>2, <2>1, VerifyStepSince, BackfillKeeps
<1>3. CASE UNCHANGED vars
  BY <1>3, BackfillKeeps DEF vars, source, disk
<1>4. CASE FinishSync
  BY <1>4, BackfillKeeps DEF FinishSync, source, disk, Types
<1>5. CASE StartSync
  <2>1. UNCHANGED <<live, ver, dest, v>> /\ proc'["backfill"] = proc["backfill"]
        /\ (overlapped => overlapped')
    BY <1>5 DEF StartSync, Open, source, disk, Types
  <2> QED
    BY <2>1, BackfillKeeps
<1>6. CASE StartBackfill
  <2>1. PICK s \in Slices \cup {{i \in Ids : ver[i] > 1}} :
               Open("backfill", {<<i, ver[i], "u">> : i \in s \cap live}, s, 0)
    BY <1>6 DEF StartBackfill
  <2>2. /\ UNCHANGED <<live, ver, dest>> /\ proc'["backfill"].pc = "writing"
        /\ proc'["backfill"].slice = s /\ DOMAIN proc'["backfill"].pending = {}
        /\ proc'["backfill"].view = {<<i, ver[i], "u">> : i \in s \cap live}
    BY <1>0, <2>1 DEF Open, Idle, source, disk, Types
  <2>3. ASSUME NEW i \in s \cap live
        PROVE  \E r \in proc'["backfill"].view : r[1] = i /\ r[2] = ver[i]
    <3>1. <<i, ver[i], "u">> \in proc'["backfill"].view
      BY <2>2
    <3> QED
      BY <3>1
  <2>4. \A r \in proc'["backfill"].view : r[2] = ver[r[1]] /\ r[3] = "u"
    BY <2>2
  <2> QED
    BY <2>2, <2>3, <2>4 DEF BackfillInv, Writing, Holds
<1>7. CASE CloseBackfill
  <2>1. /\ UNCHANGED <<live, ver, dest, overlapped>> /\ proc["backfill"].pc = "flushed"
        /\ proc'["backfill"].pc = "verifying" /\ proc'["backfill"].slice = proc["backfill"].slice
        /\ proc'["backfill"].lost = proc["backfill"].lost
    BY <1>0, <1>7 DEF CloseBackfill, source, disk, Types, ProcType
  <2>2. v'.since = v.since
    BY <1>7 DEF CloseBackfill, BeginVerify, NoVerify
  <2> QED
    BY <2>1, <2>2 DEF BackfillInv, Writing, Corrected
<1>8. CASE Report
  <2>1. UNCHANGED <<live, ver, dest, overlapped>> /\ v'.since = v.since
    BY <1>8 DEF Report, source, disk, NoVerify
  <2>2. CASE proc' = proc
    BY <2>1, <2>2, BackfillKeeps
  <2>3. CASE proc' = [proc EXCEPT !["backfill"] = Idle]
    <3>1. proc'["backfill"].pc = "off"
      BY <1>0, <2>3 DEF Types, Idle
    <3> QED
      BY <3>1, BackfillOff
  <2> QED
    BY <1>8, <2>2, <2>3 DEF Report
<1>9. CASE FailSync
  BY <1>0, <1>9, WriterKeepsBackfill
<1> QED
  BY <1>1, <1>2, <1>3, <1>4, <1>5, <1>6, <1>7, <1>8, <1>9, WriterKeepsBackfill
     DEF Next, VerifyStep

LEMMA InitBackfill == Init => BackfillInv
BY DEF Init, Procs, Idle, BackfillInv, Writing

-----------------------------------------------------------------------------
(* The verdict of the verification.                                        *)

LEMMA InitVerdict == Init => VerdictInv
BY DEF Init, NoVerify, VerdictInv

\* A verification that keeps its phase and what it has read keeps its verdict, unless
\* the source or the rows on disk moved and it was told so.
LEMMA VerdictKeeps ==
  ASSUME VerdictInv,
         v'.pc = v.pc, v'.by = v.by, v'.unread = v.unread, v'.src = v.src,
         v'.dst = v.dst, v'.match = v.match,
         v.pc # "idle" /\ v.by = "backfill" =>
            /\ proc'["backfill"].pc = "verifying"
            /\ proc'["backfill"].slice = proc["backfill"].slice
            /\ proc'["backfill"].lost = proc["backfill"].lost,
         format' = format,
         v.pc # "idle" /\ SourceStill' => SourceStill /\ UNCHANGED <<ver, live>>,
         v.pc # "idle" /\ v'.steady => v.steady /\ dest' = dest,
         v.pc # "idle" /\ v.by = "backfill" /\ v'.since => v.since,
         v.pc # "idle" /\ v.by = "backfill" /\ ~ overlapped => dest' = dest,
         overlapped => overlapped'
  PROVE  VerdictInv'
<1>1. v.pc \in {"bisect", "done"} /\ v'.steady => v'.dst = CurrentState'
  BY SameDisk DEF VerdictInv
<1>2. ASSUME v.pc \in {"bisect", "done"}, v.by = "backfill", v'.since, ~ overlapped',
             NEW i \in proc'["backfill"].slice \cap live'
      PROVE  \/ Misordered(i)' \/ i \in proc'["backfill"].lost
             \/ i \in DOMAIN v'.dst /\ v'.dst[i] = ver'[i]
  <2>1. UNCHANGED <<ver, live, dest>> /\ v.since /\ ~ overlapped
        /\ proc'["backfill"].slice = proc["backfill"].slice
        /\ proc'["backfill"].lost = proc["backfill"].lost
    BY <1>2 DEF SourceStill
  <2>2. Misordered(i)' <=> Misordered(i)
    BY <2>1 DEF Misordered, TextOrder
  <2> QED
    BY <1>2, <2>1, <2>2 DEF VerdictInv
<1>3. v.pc \in {"bisect", "done"} /\ SourceStill' => v'.src = [i \in live' |-> ver'[i]]
  BY DEF VerdictInv
<1>4. v.pc = "source" /\ SourceStill' => v'.src = [i \in live' \ UNION v'.unread |-> ver'[i]]
  BY DEF VerdictInv
<1>5. /\ v.pc \in {"source", "bisect", "done"} => IsMap(v.src)
      /\ v.pc \in {"bisect", "done"} => IsMap(v.dst)
      /\ v.pc = "bisect" => v.match = FALSE /\ v.src # v.dst
      /\ v.pc = "done" => (v.match <=> v.src = v.dst)
  BY DEF VerdictInv
<1> QED
  BY <1>1, <1>2, <1>3, <1>4, <1>5 DEF VerdictInv, IsMap

LEMMA SourceWriteVerdict ==
  ASSUME VerifyTypes, VerdictInv, NEW i \in Ids, NEW op \in {"u", "d"},
         SourceWrite(i, op)
  PROVE  VerdictInv'
<1>1. v' = Unsteady /\ UNCHANGED <<format, dest, proc, overlapped>>
  BY DEF SourceWrite, disk
<1>2. /\ v'.pc = v.pc /\ v'.by = v.by /\ v'.unread = v.unread /\ v'.src = v.src
      /\ v'.dst = v.dst /\ v'.match = v.match /\ v'.steady = (v.pc = "idle")
      /\ v'.since = (proc["backfill"].pc = "off")
  BY <1>1 DEF Unsteady, VerifyTypes
<1>3. v.pc # "idle" /\ v.by = "backfill" => proc["backfill"].pc = "verifying"
  BY DEF VerdictInv
<1> QED
  BY <1>1, <1>2, <1>3, VerdictKeeps DEF SourceStill

\* Rows that reach the disk move the destination under a verification; under the one
\* that closes a backfill only if the two overlapped.
LEMMA AppendVerdict ==
  ASSUME Types, VerifyTypes, DiskInv, VerdictInv, NEW p \in Procs,
         UNCHANGED <<source, overlapped>>, proc[p].pc # "off",
         \A q \in Procs \ {p} : proc'[q] = proc[q],
         \/ v' = v /\ dest' = dest
         \/ v' = [v EXCEPT !.steady = v.pc = "idle"],
         v.pc = "idle" \/ v.by # "backfill" \/ p = "sync"
  PROVE  VerdictInv'
<1>1. v.pc # "idle" /\ v.by = "backfill" => proc["backfill"].pc = "verifying"
  BY DEF VerdictInv
<1>2. v.pc # "idle" /\ v.by = "backfill" => proc'["backfill"] = proc["backfill"]
  BY DEF Procs
<1>3. v.pc # "idle" /\ v.by = "backfill" => overlapped
  BY <1>1 DEF DiskInv, OrderInv, Procs
<1>4. CASE v' = v /\ dest' = dest
  <2>1. SourceStill' = SourceStill
    BY <1>4 DEF SourceStill
  <2> QED
    BY <1>1, <1>2, <1>4, <2>1, VerdictKeeps DEF source
<1>5. CASE v' = [v EXCEPT !.steady = v.pc = "idle"]
  <2>1. /\ v'.pc = v.pc /\ v'.by = v.by /\ v'.unread = v.unread /\ v'.src = v.src
        /\ v'.dst = v.dst /\ v'.match = v.match /\ v'.steady = (v.pc = "idle")
        /\ v'.since = v.since
    BY <1>5 DEF VerifyTypes
  <2>2. v.pc # "idle" /\ SourceStill' => SourceStill
    BY <2>1 DEF SourceStill
  <2> QED
    BY <1>1, <1>2, <1>3, <2>1, <2>2, VerdictKeeps DEF source
<1> QED
  BY <1>4, <1>5

LEMMA WriterVerdict ==
  ASSUME Types, VerifyTypes, RestInv, DiskInv, VerdictInv, NEW p \in Procs,
         \/ WriteRow(p) \/ StartFlush(p) \/ (p = "sync" /\ FailSync)
         \/ FinishPart(p) \/ Stop(p)
  PROVE  VerdictInv'
<1>0. proc[p].pc = "verifying" \/ p = "sync" \/ v.pc = "idle" \/ v.by # "backfill"
  BY DEF VerdictInv, Procs
<1>a. \A d, l : Appended(p, d, l) /\ l = 0 => dest' = dest
  <2> SUFFICES ASSUME NEW d, NEW l, Appended(p, d, l), l = 0 PROVE dest' = dest
    OBVIOUS
  <2>1. d = 0 /\ DOMAIN dest' = DOMAIN dest
    BY DEF Appended
  <2>2. dest \in Seq(Rec) /\ dest' \in Seq(Rec) /\ \A n \in DOMAIN dest : dest'[n] = dest[n]
    BY DEF Appended, Types
  <2> QED
    BY <2>1, <2>2
<1>1. CASE WriteRow(p) \/ StartFlush(p) \/ (p = "sync" /\ FailSync)
  <2>1. UNCHANGED <<source, dest, v, overlapped>>
    BY <1>1, CreatePartFacts DEF WriteRow, disk
  <2>2. proc[p].pc = "writing" /\ \A q \in Procs \ {p} : proc'[q] = proc[q]
    BY <1>1, WriteRowFacts, CreatePartFacts
  <2>3. v.pc # "idle" /\ v.by = "backfill" => proc["backfill"].pc = "verifying"
    BY DEF VerdictInv
  <2>4. v.pc # "idle" /\ v.by = "backfill" => proc'["backfill"] = proc["backfill"]
    BY <1>0, <2>2 DEF Procs
  <2>5. SourceStill' = SourceStill
    BY <2>1 DEF SourceStill
  <2> QED
    BY <2>1, <2>3, <2>4, <2>5, VerdictKeeps DEF source
<1>2. CASE FinishPart(p)
  <2>1. PICK d \in {0, 1} : Appended(p, d, Len(proc[p].pending))
    BY <1>2, FinishPartFacts
  <2>2. /\ UNCHANGED <<source, overlapped>> /\ \A q \in Procs \ {p} : proc'[q] = proc[q]
        /\ proc[p].pc \in {"flushing", "closing"}
    BY <1>2, FinishPartFacts
  <2>3. CASE proc[p].pending = <<>>
    <3>1. Len(proc[p].pending) = 0 /\ v' = v
      BY <1>2, <2>3 DEF FinishPart, Moved
    <3> QED
      BY <1>0, <1>a, <2>1, <2>2, <3>1, AppendVerdict
  <2>4. CASE proc[p].pending # <<>>
    <3>1. v' = [v EXCEPT !.steady = v.pc = "idle"]
      BY <1>2, <2>4 DEF FinishPart, Moved
    <3> QED
      BY <1>0, <2>2, <3>1, AppendVerdict
  <2> QED
    BY <2>3, <2>4
<1>3. CASE Stop(p)
  <2>1. PICK d \in {0, 1}, l \in Nat :
            /\ Appended(p, d, l)
            /\ v' = v \/ v' = NoVerify \/ v' = [v EXCEPT !.steady = v.pc = "idle"]
            /\ v.by = p => v' = NoVerify
            /\ v.by # p /\ l = 0 => v' = v
            /\ v.by # p /\ l # 0 => v' = [v EXCEPT !.steady = v.pc = "idle"]
    BY <1>3, StopFacts
  <2>2. /\ UNCHANGED <<source, overlapped>> /\ proc[p].pc # "off"
        /\ \A q \in Procs \ {p} : proc'[q] = proc[q]
    BY <1>3, StopFacts
  <2>3. CASE v' = NoVerify
    BY <2>3 DEF VerdictInv, NoVerify
  <2>4. CASE v.by # p
    <3>1. v.by # "backfill" \/ p = "sync"
      BY <2>4 DEF Procs
    <3>2. \/ v' = v /\ dest' = dest
          \/ v' = [v EXCEPT !.steady = v.pc = "idle"]
      BY <1>a, <2>1, <2>4
    <3> QED
      BY <2>2, <3>1, <3>2, AppendVerdict
  <2> QED
    BY <2>1, <2>3, <2>4
<1> QED
  BY <1>1, <1>2, <1>3

\* A verification begins with nothing read and every chunk to read.
LEMMA BeginVerdict ==
  ASSUME Types, VerifyTypes, VerdictInv, StartVerify \/ CloseBackfill
  PROVE  VerdictInv'
<1>1. UNCHANGED <<ver, live, dest, overlapped>>
  BY DEF StartVerify, CloseBackfill, source, disk
<1>2. PICK by \in {"verify", "backfill"} :
        /\ BeginVerify(by)
        /\ by = "backfill" => proc'["backfill"].pc = "verifying"
  <2>1. CASE StartVerify
    BY <2>1 DEF StartVerify
  <2>2. CASE CloseBackfill
    <3>1. "backfill" \in Procs
      BY DEF Procs
    <3>2. proc'["backfill"].pc = "verifying"
      BY <2>2, <3>1 DEF CloseBackfill, Types, ProcType
    <3>3. BeginVerify("backfill")
      BY <2>2 DEF CloseBackfill
    <3> QED
      BY <3>2, <3>3
  <2> QED
    BY <2>1, <2>2
<1>3. v'.pc = "source" /\ v'.by = by /\ v'.unread = Chunks /\ v'.src = Nothing
  BY <1>2 DEF BeginVerify, NoVerify
<1>4. live \ UNION Chunks = {}
  <2>1. \A i \in Ids : 2 * i <= Cardinality(Ids) \/ 2 * i > Cardinality(Ids)
    BY VerifyAssumption, FS_CardinalityType DEF VerifyAssumption
  <2> QED
    BY <2>1 DEF Chunks, Types
<1>5. IsMap(Nothing) /\ Nothing = [i \in {} |-> ver[i]]
  BY DEF Nothing, IsMap
<1> QED
  BY <1>1, <1>2, <1>3, <1>4, <1>5 DEF VerdictInv, IsMap

LEMMA ChunkVerdict ==
  ASSUME Types, VerifyTypes, VerdictInv, ReadSourceChunk
  PROVE  VerdictInv'
<1>1. UNCHANGED <<ver, live, dest, overlapped, proc>> /\ v.pc = "source"
  BY DEF ReadSourceChunk, verifying, source, disk
<1>2. PICK c \in v.unread :
          v' = [v EXCEPT !.unread = @ \ {c},
                         !.src = [i \in DOMAIN @ \cup (c \cap live) |->
                                      IF i \in c THEN ver[i] ELSE @[i]]]
  BY DEF ReadSourceChunk
<1> DEFINE new == [i \in DOMAIN v.src \cup (c \cap live) |->
                      IF i \in c THEN ver[i] ELSE v.src[i]]
<1>3. /\ v'.pc = "source" /\ v'.by = v.by /\ v'.unread = v.unread \ {c} /\ v'.src = new
      /\ v'.steady = v.steady /\ v'.since = v.since
  BY <1>1, <1>2 DEF VerifyTypes
<1>4. IsMap(new)
  BY <1>1 DEF IsMap, VerdictInv, Types
<1>5. ASSUME SourceStill PROVE new = [i \in live \ UNION (v.unread \ {c}) |-> ver[i]]
  <2>1. v.src = [i \in live \ UNION v.unread |-> ver[i]]
    BY <1>1, <1>5 DEF VerdictInv
  <2>2. c \in Chunks /\ v.unread \subseteq Chunks
    BY DEF VerifyTypes
  <2>3. \A d \in v.unread \ {c} : c \cap d = {}
    <3>1. \A i \in Ids : ~ (2 * i <= Cardinality(Ids) /\ 2 * i > Cardinality(Ids))
      BY VerifyAssumption, FS_CardinalityType DEF VerifyAssumption
    <3> QED
      BY <2>2, <3>1 DEF Chunks
  <2>4. live \ UNION (v.unread \ {c}) = (live \ UNION v.unread) \cup (c \cap live)
    BY <2>3
  <2>5. DOMAIN new = live \ UNION (v.unread \ {c})
    BY <2>1, <2>4
  <2>6. \A i \in DOMAIN new : new[i] = ver[i]
    BY <2>1
  <2> QED
    BY <2>5, <2>6
<1>6. SourceStill' = SourceStill
  BY <1>3 DEF SourceStill
<1> HIDE DEF new
<1>7. IsMap(v'.src) /\ (SourceStill' => v'.src = [i \in live' \ UNION v'.unread |-> ver'[i]])
  BY <1>1, <1>3, <1>4, <1>5, <1>6
<1>8. v'.by = "backfill" => proc'["backfill"].pc = "verifying"
  BY <1>1, <1>3 DEF VerdictInv
<1> QED
  BY <1>3, <1>7, <1>8 DEF VerdictInv, IsMap

\* Equal digests of maps over the ids they hold are equal maps.
LEMMA SameRowsIsEqual ==
  ASSUME NEW s, NEW d, IsMap(s), IsMap(d)
  PROVE  SameRows(DOMAIN s \cup DOMAIN d, s, d) <=> s = d
<1>1. ASSUME s = d PROVE SameRows(DOMAIN s \cup DOMAIN d, s, d)
  BY <1>1 DEF SameRows
<1>2. ASSUME SameRows(DOMAIN s \cup DOMAIN d, s, d) PROVE s = d
  <2> DEFINE all == DOMAIN s \cup DOMAIN d
             ds == {p \in DigestOf(s) : p[1] \in all}
             dd == {p \in DigestOf(d) : p[1] \in all}
  <2>1. ds = dd
    BY <1>2 DEF SameRows
  <2>2. \A i \in DOMAIN s : <<i, s[i]>> \in ds
    BY DEF DigestOf
  <2>3. \A i \in DOMAIN d : <<i, d[i]>> \in dd
    BY DEF DigestOf
  <2>4. \A i, x : <<i, x>> \in ds => i \in DOMAIN s /\ x = s[i]
    BY DEF DigestOf
  <2>5. \A i, x : <<i, x>> \in dd => i \in DOMAIN d /\ x = d[i]
    BY DEF DigestOf
  <2> HIDE DEF ds, dd
  <2>6. DOMAIN s = DOMAIN d /\ \A i \in DOMAIN s : s[i] = d[i]
    BY <2>1, <2>2, <2>3, <2>4, <2>5
  <2> QED
    BY <2>6 DEF IsMap
<1> QED
  BY <1>1, <1>2

LEMMA CurrentStateIsMap == IsMap(CurrentState)
BY DEF IsMap, CurrentState

\* What the reader emits of an id the destination has.
LEMMA CurrentStateHas ==
  ASSUME NEW i \in Ids, NEW n \in DOMAIN dest, dest[n].id = i, dest[Latest(i)].op # "d"
  PROVE  i \in DOMAIN CurrentState /\ CurrentState[i] = dest[Latest(i)].ver
BY DEF CurrentState

LEMMA ReadDestVerdict ==
  ASSUME Types, VerifyTypes, OrderInv, BackfillInv, VerdictInv, ReadDest
  PROVE  VerdictInv'
<1>1. /\ UNCHANGED <<format, ver, live, dest, overlapped, proc>>
      /\ v.pc = "source" /\ v.unread = {}
  BY DEF ReadDest, verifying, source, disk
<1>2. IsMap(v.src) /\ (SourceStill => v.src = [i \in live |-> ver[i]])
  <2>1. live \ UNION v.unread = live
    BY <1>1
  <2> QED
    BY <1>1, <2>1 DEF VerdictInv
<1> DEFINE d == CurrentState
           same == SameRows(DOMAIN v.src \cup DOMAIN d, v.src, d)
<1>3. /\ v'.dst = d /\ v'.match = same /\ v'.pc = (IF same THEN "done" ELSE "bisect")
      /\ v'.src = v.src /\ v'.by = v.by /\ v'.steady = v.steady /\ v'.since = v.since
  BY DEF ReadDest, VerifyTypes
<1>4. same <=> v.src = d
  BY <1>2, SameRowsIsEqual, CurrentStateIsMap
<1>5. same \in BOOLEAN
  BY DEF SameRows
<1> HIDE DEF same
<1>6. CurrentState' = d /\ \A i \in Ids : Misordered(i)' <=> Misordered(i)
  BY <1>1, SameDisk
<1>7. ASSUME v.by = "backfill", v.since, ~ overlapped,
             NEW i \in proc["backfill"].slice \cap live, ~ Misordered(i),
             i \notin proc["backfill"].lost
      PROVE  i \in DOMAIN d /\ d[i] = ver[i]
  <2>1. proc["backfill"].pc = "verifying"
    BY <1>1, <1>7 DEF VerdictInv
  <2>2. i \in Ids
    BY DEF Types
  <2>3. Corrected(i)
    BY <1>7, <2>1 DEF BackfillInv
  <2>4. PICK n \in DOMAIN dest :
            /\ dest[n].id = i
            /\ \A m \in DOMAIN dest :
                  dest[m].id = i /\ n <= m => dest[m].ver = ver[i] /\ dest[m].op = "u"
    BY <2>3 DEF Corrected
  <2>5. Latest(i) \in DOMAIN dest /\ dest[Latest(i)].id = i /\ n <= Latest(i)
    BY <1>7, <2>2, <2>4, LatestIsLast
  <2>6. dest[Latest(i)].ver = ver[i] /\ dest[Latest(i)].op = "u"
    BY <2>4, <2>5
  <2> QED
    BY <2>2, <2>5, <2>6, CurrentStateHas
<1>8. SourceStill' = SourceStill
  BY <1>3 DEF SourceStill
<1>9. IsMap(d)
  BY CurrentStateIsMap
<1> HIDE DEF d
<1>10. v'.pc \in {"bisect", "done"} /\ IsMap(v'.src) /\ IsMap(v'.dst)
  BY <1>2, <1>3, <1>9
<1>11. v'.by = "backfill" => proc'["backfill"].pc = "verifying"
  BY <1>1, <1>3 DEF VerdictInv
<1>12. ASSUME v'.by = "backfill", v'.since, ~ overlapped',
              NEW i \in proc'["backfill"].slice \cap live'
       PROVE  \/ Misordered(i)' \/ i \in proc'["backfill"].lost
              \/ i \in DOMAIN v'.dst /\ v'.dst[i] = ver'[i]
  <2>1. i \in Ids /\ i \in proc["backfill"].slice \cap live
    BY <1>1, <1>12 DEF Types
  <2>2. Misordered(i)' <=> Misordered(i)
    BY <1>6, <2>1
  <2>3. \/ Misordered(i) \/ i \in proc["backfill"].lost
        \/ i \in DOMAIN d /\ d[i] = ver[i]
    BY <1>1, <1>3, <1>7, <1>12, <2>1
  <2> QED
    BY <1>1, <1>3, <2>2, <2>3
<1>13. SourceStill' => v'.src = [i \in live' |-> ver'[i]]
  BY <1>1, <1>2, <1>3, <1>8
<1>14. v'.steady => v'.dst = CurrentState'
  BY <1>3, <1>6
<1>15. /\ v'.pc = "bisect" => v'.match = FALSE /\ v'.src # v'.dst
       /\ v'.pc = "done" => (v'.match <=> v'.src = v'.dst)
  BY <1>3, <1>4, <1>5
<1> QED
  BY <1>10, <1>11, <1>12, <1>13, <1>14, <1>15 DEF VerdictInv, IsMap

LEMMA NextVerdict ==
  ASSUME Types, VerifyTypes, RestInv, DiskInv, BackfillInv, VerdictInv, [Next]_vars
  PROVE  VerdictInv'
<1>0. "backfill" \in Procs /\ "sync" \in Procs
  BY DEF Procs
<1>a. v.pc # "idle" /\ v.by = "backfill" => proc["backfill"].pc = "verifying"
  BY DEF VerdictInv
<1>1. ASSUME NEW i \in Ids, NEW op \in {"u", "d"}, SourceWrite(i, op)
      PROVE  VerdictInv'
  BY <1>1, SourceWriteVerdict
<1>2. CASE UNCHANGED vars
  <2>1. UNCHANGED <<format, ver, live, dest, v, proc, overlapped>>
    BY <1>2 DEF vars, source, disk
  <2>2. SourceStill' = SourceStill
    BY <2>1 DEF SourceStill
  <2> QED
    BY <1>a, <2>1, <2>2, VerdictKeeps
<1>3. CASE StartSync \/ FinishSync
  <2>1. /\ UNCHANGED <<format, ver, live, dest, v>> /\ (overlapped => overlapped')
        /\ proc'["backfill"] = proc["backfill"]
    BY <1>0, <1>3 DEF StartSync, Open, FinishSync, source, disk, Types
  <2>2. SourceStill' = SourceStill
    BY <2>1 DEF SourceStill
  <2> QED
    BY <1>a, <2>1, <2>2, VerdictKeeps
<1>4. CASE StartBackfill
  <2>1. /\ UNCHANGED <<format, ver, live, dest>> /\ (overlapped => overlapped')
        /\ proc["backfill"].pc = "off" /\ v' = [v EXCEPT !.since = TRUE]
    BY <1>0, <1>4 DEF StartBackfill, Open, source, disk
  <2>2. v.pc = "idle" \/ v.by # "backfill"
    BY <1>a, <2>1
  <2>3. /\ v'.pc = v.pc /\ v'.by = v.by /\ v'.unread = v.unread /\ v'.src = v.src
        /\ v'.dst = v.dst /\ v'.match = v.match /\ v'.steady = v.steady
    BY <2>1 DEF VerifyTypes
  <2>4. v.pc # "idle" /\ SourceStill' => SourceStill
    BY <2>2, <2>3 DEF SourceStill
  <2> QED
    BY <2>1, <2>2, <2>3, <2>4, VerdictKeeps
<1>5. ASSUME NEW p \in Procs, WriteRow(p) \/ StartFlush(p) \/ FinishPart(p) \/ Stop(p)
      PROVE  VerdictInv'
  BY <1>5, WriterVerdict
<1>9. CASE FailSync
  BY <1>0, <1>9, WriterVerdict
<1>6. CASE FailDest \/ Report
  <2>1. v'.pc \in {"error", "idle"} /\ (v'.pc # "idle" => v'.by = v.by /\ v.pc # "idle")
        /\ (v'.pc # "idle" => proc' = proc)
    BY <1>6 DEF FailDest, Report, NoVerify, VerifyTypes, verifying
  <2> QED
    BY <1>a, <2>1 DEF VerdictInv
<1>7. CASE Bisect
  <2>1. UNCHANGED <<format, ver, live, dest, overlapped, proc>>
    BY <1>7 DEF Bisect, verifying, source, disk
  <2>2. /\ v'.pc = v.pc /\ v'.by = v.by /\ v'.unread = v.unread /\ v'.src = v.src
        /\ v'.dst = v.dst /\ v'.match = v.match /\ v'.steady = v.steady /\ v'.since = v.since
    BY <1>7 DEF Bisect, Enumerate, VerifyTypes
  <2>3. SourceStill' = SourceStill
    BY <2>2 DEF SourceStill
  <2> QED
    BY <1>a, <2>1, <2>2, <2>3, VerdictKeeps
<1>8. CASE FinishBisect
  <2>1. UNCHANGED <<format, ver, live, dest, overlapped, proc>> /\ v.pc = "bisect"
    BY <1>8 DEF FinishBisect, verifying, source, disk
  <2>2. /\ v'.pc = "done" /\ v'.by = v.by /\ v'.src = v.src /\ v'.dst = v.dst
        /\ v'.match = v.match /\ v'.steady = v.steady /\ v'.since = v.since
    BY <1>8 DEF FinishBisect, VerifyTypes
  <2>3. SourceStill' = SourceStill
    BY <2>2 DEF SourceStill
  <2>4. CurrentState' = CurrentState /\ \A i \in Ids : Misordered(i)' <=> Misordered(i)
    BY <2>1, SameDisk
  <2>5. ASSUME v'.by = "backfill", v'.since, ~ overlapped',
               NEW i \in proc'["backfill"].slice \cap live'
        PROVE  \/ Misordered(i)' \/ i \in proc'["backfill"].lost
               \/ i \in DOMAIN v'.dst /\ v'.dst[i] = ver'[i]
    <3>1. i \in Ids
      BY <2>1 DEF Types
    <3> QED
      BY <2>1, <2>2, <2>4, <2>5, <3>1 DEF VerdictInv
  <2>6. IsMap(v'.src) /\ IsMap(v'.dst)
    BY <2>1, <2>2 DEF VerdictInv
  <2>7. /\ SourceStill' => v'.src = [i \in live' |-> ver'[i]]
        /\ v'.steady => v'.dst = CurrentState'
    BY <2>1, <2>2, <2>3, <2>4 DEF VerdictInv
  <2>8. v'.match <=> v'.src = v'.dst
    BY <2>1, <2>2 DEF VerdictInv
  <2>9. v'.by = "backfill" => proc'["backfill"].pc = "verifying"
    BY <1>a, <2>1, <2>2
  <2> QED
    BY <2>2, <2>5, <2>6, <2>7, <2>8, <2>9 DEF VerdictInv, IsMap
<1> QED
  BY <1>1, <1>2, <1>3, <1>4, <1>5, <1>6, <1>7, <1>8, <1>9, BeginVerdict, ChunkVerdict,
     ReadDestVerdict DEF Next, DiskInv

-----------------------------------------------------------------------------
(* The theorems.                                                           *)

LEMMA InitRest == Init => RestInv
BY DEF Init, Idle, RestInv

LEMMA InvInductive == (Init => Inv) /\ (Inv /\ [Next]_vars => Inv')
<1>1. Init => Inv
  BY InitTypes, InitRest, InitDisk, InitBackfill, InitVerdict DEF Inv
<1>2. ASSUME Inv, [Next]_vars PROVE Inv'
  <2>1. Types /\ VerifyTypes /\ RestInv /\ DiskInv /\ BackfillInv /\ VerdictInv
    BY <1>2 DEF Inv
  <2>2. Types'
    BY <1>2, <2>1, NextTypes DEF DiskInv
  <2>3. VerifyTypes'
    BY <1>2, <2>1, NextVerifyTypes
  <2>4. RestInv'
    BY <1>2, <2>1, NextRest
  <2>5. DiskInv'
    BY <1>2, <2>1, NextDisk
  <2>6. BackfillInv'
    BY <1>2, <2>1, NextBackfill
  <2>7. VerdictInv'
    BY <1>2, <2>1, NextVerdict
  <2> QED
    BY <2>2, <2>3, <2>4, <2>5, <2>6, <2>7 DEF Inv
<1> QED
  BY <1>1, <1>2

LEMMA SpecInv == Spec => []Inv
BY InvInductive, PTL DEF Spec

\* What the destination shows of a row (reader.go's resolveCurrentState) is the newest
\* version of it that was ever flushed, or one that the sync has yet to tell again, a
\* later one after it (runCDCGroup, repeated after a run that failed); unless a sync and a
\* backfill overlapped or the text order of the stamps misleads.
THEOREM NewestVersionWins == Spec => []NewestWins
<1>1. Inv => NewestWins
  BY NewestWinsHolds DEF Inv, DiskInv
<1> QED
  BY <1>1, SpecInv, PTL

\* The verdict of VerifyStream, of a verification during which neither the source nor
\* the destination changed, is a match exactly when the destination's current state
\* is the source.
THEOREM VerdictIsRight == Spec => []VerdictHolds
<1>1. ASSUME Inv PROVE VerdictHolds
  <2> SUFFICES ASSUME v.pc = "done", v.steady
               PROVE  v.match <=> \A i \in Ids : Holding(CurrentState, i) = Row(i)
    BY DEF VerdictHolds
  <2> DEFINE d == CurrentState
             s == [i \in live |-> ver[i]]
  <2>1. v.src = s /\ v.dst = d /\ (v.match <=> s = d)
    BY <1>1 DEF Inv, VerdictInv, SourceStill
  <2>2. IsMap(d) /\ \A i \in DOMAIN d : d[i] # 0
    <3>1. ASSUME NEW i \in DOMAIN d PROVE d[i] # 0
      <4>1. /\ i \in Ids /\ d[i] = dest[Latest(i)].ver
            /\ \E n \in DOMAIN dest : dest[n].id = i
        BY DEF CurrentState
      <4>2. Latest(i) \in DOMAIN dest
        BY <1>1, <4>1, LatestFacts DEF Inv
      <4> QED
        BY <1>1, <4>1, <4>2, RowFacts DEF Inv
    <3> QED
      BY <3>1, CurrentStateIsMap
  <2>3. live \subseteq Ids /\ \A i \in Ids : ver[i] # 0
    BY <1>1 DEF Inv, Types
  <2> HIDE DEF d
  <2>4. s = d => \A i \in Ids : Holding(d, i) = Row(i)
    BY DEF Holding, Row
  <2>5. ASSUME \A i \in Ids : Holding(d, i) = Row(i) PROVE s = d
    <3>1. \A i \in Ids : (i \in DOMAIN d <=> i \in live) /\ (i \in live => d[i] = ver[i])
      BY <2>2, <2>3, <2>5 DEF Holding, Row
    <3>2. DOMAIN d = live
      BY <2>2, <2>3, <3>1 DEF IsMap
    <3>3. d = [i \in DOMAIN d |-> d[i]]
      BY <2>2 DEF IsMap
    <3> QED
      BY <2>3, <3>1, <3>2, <3>3
  <2> QED
    BY <2>1, <2>4, <2>5 DEF d
<1> QED
  BY <1>1, SpecInv, PTL

\* After a backfill that had the destination for itself and a source that stood still,
\* only keys outside its slice, keys deleted from the source, keys whose stamps mislead
\* the reader and the one whose row a torn line swallowed can still differ.
THEOREM BackfillCorrects == Spec => []BackfillReconciles
<1>1. ASSUME Inv PROVE BackfillReconciles
  <2> SUFFICES ASSUME v.pc = "done", v.by = "backfill", v.since, ~ overlapped,
                      NEW i \in Mismatched \cap proc["backfill"].slice, i \in live,
                      ~ Misordered(i), i \notin proc["backfill"].lost
               PROVE  FALSE
    BY DEF BackfillReconciles
  <2>1. v.src = [j \in live |-> ver[j]] /\ i \in DOMAIN v.dst /\ v.dst[i] = ver[i]
    BY <1>1 DEF Inv, VerdictInv, SourceStill
  <2>2. Differs(i)
    BY DEF Mismatched
  <2> QED
    BY <2>1, <2>2 DEF Differs
<1> QED
  BY <1>1, SpecInv, PTL

-----------------------------------------------------------------------------
(* Sorted sequences of ids.                                                *)

LEMMA FiniteIds == ASSUME NEW S \in SUBSET Ids PROVE IsFiniteSet(S) /\ Cardinality(S) \in Nat
BY VerifyAssumption, FS_Subset, FS_CardinalityType DEF VerifyAssumption

LEMMA IdsAreNumbers == Ids \subseteq Nat
BY VerifyAssumption, FS_CardinalityType DEF VerifyAssumption

\* Every set of ids can be sorted: by removing its greatest id.
LEMMA Sortable ==
  ASSUME NEW S \in SUBSET Ids
  PROVE  \E s \in [1 .. Cardinality(S) -> S] : Ascends(s)
<1> DEFINE Sorts(T) == \E s \in [1 .. Cardinality(T) -> T] : Ascends(s)
           Bad == {n \in Nat : \E T \in SUBSET Ids : Cardinality(T) = n /\ ~ Sorts(T)}
<1>1. ASSUME Bad # {} PROVE FALSE
  <2>1. PICK n \in Bad : \A m \in Bad : n <= m
    BY <1>1, NatHasLeast
  <2>2. PICK T \in SUBSET Ids : Cardinality(T) = n /\ ~ Sorts(T)
    BY <2>1
  <2>3. IsFiniteSet(T) /\ n \in Nat
    BY <2>2, FiniteIds
  <2>4. CASE T = {}
    <3>1. n = 0
      BY <2>2, <2>4, FS_EmptySet
    <3>2. 1 .. Cardinality(T) = {}
      BY <2>2, <3>1
    <3> DEFINE e == [k \in 1 .. Cardinality(T) |-> 0]
    <3>3. e \in [1 .. Cardinality(T) -> T] /\ Ascends(e)
      BY <3>2 DEF Ascends
    <3> QED
      BY <2>2, <3>3
  <2>5. CASE T # {}
    <3> DEFINE id == [x \in T |-> x]
    <3>1. \A x \in T : x \in Nat /\ id[x] = x
      BY <2>2, IdsAreNumbers
    <3>2. \A x \in T : id[x] \in Int
      BY <3>1
    <3> HIDE DEF id
    <3>3. PICK g \in T : \A x \in T : id[x] <= id[g]
      BY <2>3, <2>5, <3>2, FiniteHasGreatest
    <3>4. \A x \in T : x <= g
      BY <3>1, <3>3
    <3> DEFINE U == T \ {g}
    <3>5. Cardinality(U) = n - 1 /\ U \in SUBSET Ids
      BY <2>2, <2>3, FS_RemoveElement
    <3>6. n - 1 \in Nat
      BY <3>5, FiniteIds
    <3>7. n - 1 \notin Bad
      BY <2>1, <2>3
    <3>8. Sorts(U)
      BY <3>5, <3>6, <3>7
    <3>9. PICK s \in [1 .. n - 1 -> U] : Ascends(s)
      BY <3>5, <3>8
    <3> DEFINE t == [k \in 1 .. n |-> IF k = n THEN g ELSE s[k]]
    <3>10. \A k \in 1 .. n : k = n \/ k \in 1 .. n - 1
      BY <2>3
    <3>11. \A k \in 1 .. n - 1 : s[k] \in T /\ s[k] \in Nat /\ s[k] < g
      BY <3>1, <3>4
    <3>12. t \in [1 .. n -> T]
      BY <3>10, <3>11
    <3>13. Ascends(t)
      <4> SUFFICES ASSUME NEW a \in 1 .. n, NEW b \in 1 .. n, a < b PROVE t[a] < t[b]
        BY DEF Ascends
      <4>1. a \in 1 .. n - 1
        BY <2>3, <3>10
      <4>2. CASE b = n
        BY <3>11, <4>1, <4>2
      <4>3. CASE b \in 1 .. n - 1
        BY <3>9, <3>11, <4>1, <4>3 DEF Ascends
      <4> QED
        BY <3>10, <4>2, <4>3
    <3> QED
      BY <2>2, <3>12, <3>13
  <2> QED
    BY <2>4, <2>5
<1>2. Cardinality(S) \in Nat
  BY FiniteIds
<1>3. Cardinality(S) \notin Bad
  BY <1>1
<1> QED
  BY <1>2, <1>3

\* A sorted sequence has as many ids as it is long.
LEMMA AscendingCounts ==
  ASSUME NEW s \in Seq(Ids), Ascends(s)
  PROVE  Cardinality(Range(s)) = Len(s) /\ Range(s) \in SUBSET Ids
<1> DEFINE n == Len(s)
<1>1. n \in Nat /\ s \in [1 .. n -> Ids] /\ DOMAIN s = 1 .. n
  OBVIOUS
<1>2. \A k \in 1 .. n : s[k] \in Nat
  BY <1>1, IdsAreNumbers
<1>3. s \in [1 .. n -> Range(s)] /\ Range(s) \in SUBSET Ids
  BY <1>1 DEF Range
<1> HIDE DEF n
<1>4. \A a, b \in 1 .. n : s[a] = s[b] => a = b
  <2> SUFFICES ASSUME NEW a \in 1 .. n, NEW b \in 1 .. n, s[a] = s[b], a # b PROVE FALSE
    OBVIOUS
  <2>1. s[a] \in Nat /\ s[b] \in Nat /\ (a < b \/ b < a)
    BY <1>1, <1>2
  <2>2. a < b => s[a] < s[b]
    BY <1>1 DEF Ascends
  <2>3. b < a => s[b] < s[a]
    BY <1>1 DEF Ascends
  <2> QED
    BY <2>1, <2>2, <2>3
<1>5. IsFiniteSet(1 .. n) /\ Cardinality(1 .. n) = n
  <2>1. IsFiniteSet(1 .. n) /\ Cardinality(1 .. n) = IF 1 > n THEN 0 ELSE n - 1 + 1
    BY <1>1, FS_Interval
  <2>2. 1 > n => n = 0
    BY <1>1
  <2>3. n - 1 + 1 = n
    BY <1>1
  <2> QED
    BY <2>1, <2>2, <2>3
<1>6. s \in Injection(1 .. n, Range(s))
  BY <1>3, <1>4 DEF Injection, IsInjective
<1>7. IsFiniteSet(Range(s))
  BY <1>3, FiniteIds
<1>8. s \in Surjection(1 .. n, Range(s))
  BY <1>1, <1>3 DEF Surjection, Range
<1>9. Cardinality(1 .. n) = Cardinality(Range(s))
  BY <1>6, <1>7, <1>8, FS_Injection
<1> QED
  BY <1>3, <1>5, <1>9 DEF n

\* sortedUnion: all ids of the set, in their order.
LEMMA AscendingFacts ==
  ASSUME NEW S \in SUBSET Ids
  PROVE  /\ Ascending(S) \in Seq(Ids) /\ Ascends(Ascending(S)) /\ Range(Ascending(S)) = S
         /\ Len(Ascending(S)) = Cardinality(S)
<1> DEFINE n == Cardinality(S)
           s == Ascending(S)
<1>1. s \in [1 .. n -> S] /\ Ascends(s)
  <2>1. PICK t \in [1 .. n -> S] : Ascends(t)
    BY Sortable
  <2>2. \A a, b \in 1 .. n : a < b => t[a] < t[b]
    BY <2>1 DEF Ascends
  <2>3. s \in [1 .. n -> S] /\ \A a, b \in 1 .. n : a < b => s[a] < s[b]
    BY <2>1, <2>2 DEF Ascending
  <2> QED
    BY <2>3 DEF Ascends
<1>2. n \in Nat /\ IsFiniteSet(S)
  BY FiniteIds
<1> HIDE DEF s, n
<1>3. s \in Seq(Ids) /\ Len(s) = n /\ Range(s) \in SUBSET S
  BY <1>1, <1>2 DEF Range
<1>4. Cardinality(Range(s)) = n
  BY <1>1, <1>3, AscendingCounts
<1>5. Range(s) = S
  BY <1>2, <1>3, <1>4, FS_Subset DEF n
<1> QED
  BY <1>1, <1>3, <1>5 DEF s, n

-----------------------------------------------------------------------------
(* The drill-down.                                                         *)

LEMMA TailFacts ==
  ASSUME NEW S, NEW w \in Seq(S), w # <<>>
  PROVE  /\ Tail(w) \in Seq(S) /\ 1 \in DOMAIN w /\ Head(w) = w[1] /\ Head(w) \in S
         /\ \A a \in DOMAIN Tail(w) : a \in Nat \ {0} /\ a + 1 \in DOMAIN w /\ Tail(w)[a] = w[a + 1]
         /\ \A a \in DOMAIN w : a = 1 \/ \E b \in DOMAIN Tail(w) : w[a] = Tail(w)[b]
<1> DEFINE t == Tail(w)
<1>1. /\ t \in Seq(S) /\ Head(w) \in S /\ Head(w) = w[1] /\ Len(t) = Len(w) - 1
      /\ \A i \in 1 .. Len(t) : t[i] = w[i + 1]
  BY HeadTailProperties
<1>2. Len(w) \in Nat /\ DOMAIN w = 1 .. Len(w) /\ Len(w) # 0
  OBVIOUS
<1>3. DOMAIN t = 1 .. Len(t)
  BY <1>1
<1> HIDE DEF t
<1>4. \A a \in DOMAIN t : a \in Nat \ {0} /\ a + 1 \in DOMAIN w /\ t[a] = w[a + 1]
  BY <1>1, <1>2, <1>3
<1>5. ASSUME NEW a \in DOMAIN w, a # 1 PROVE \E b \in DOMAIN t : w[a] = t[b]
  <2>1. a - 1 \in DOMAIN t /\ (a - 1) + 1 = a
    BY <1>1, <1>2, <1>3, <1>5
  <2> QED
    BY <1>1, <1>3, <2>1
<1> QED
  BY <1>1, <1>2, <1>4, <1>5 DEF t

\* x is the pair p with z behind it.
Paired(S, p, z, x) ==
    /\ x \in Seq(S) /\ 1 \in DOMAIN x /\ 2 \in DOMAIN x /\ x[1] = p[1] /\ x[2] = p[2]
    /\ \A a \in DOMAIN x : a = 1 \/ a = 2 \/ \E c \in DOMAIN z : a = c + 2 /\ x[a] = z[c]
    /\ \A a \in DOMAIN z : \E b \in DOMAIN x : x[b] = z[a]

LEMMA PairFacts ==
  ASSUME NEW S, NEW z \in Seq(S), NEW p \in Seq(S), Len(p) = 2
  PROVE  Paired(S, p, z, p \o z)
<1> DEFINE x == p \o z
<1>1. /\ x \in Seq(S) /\ Len(x) = Len(p) + Len(z)
      /\ \A i \in 1 .. Len(p) + Len(z) : x[i] = IF i <= Len(p) THEN p[i] ELSE z[i - Len(p)]
  BY ConcatProperties
<1> HIDE DEF x
<1>2. /\ x \in Seq(S) /\ Len(x) = 2 + Len(z)
      /\ \A i \in 1 .. 2 + Len(z) : x[i] = IF i <= 2 THEN p[i] ELSE z[i - 2]
  BY <1>1
<1>3. Len(z) \in Nat /\ DOMAIN z = 1 .. Len(z) /\ DOMAIN x = 1 .. 2 + Len(z)
  BY <1>2
<1>4. 1 \in DOMAIN x /\ 2 \in DOMAIN x /\ x[1] = p[1] /\ x[2] = p[2]
  BY <1>2, <1>3
<1>5. ASSUME NEW a \in DOMAIN x, a # 1, a # 2
      PROVE  \E c \in DOMAIN z : a = c + 2 /\ x[a] = z[c]
  <2>1. a - 2 \in DOMAIN z /\ a = (a - 2) + 2 /\ ~ (a <= 2)
    BY <1>3, <1>5
  <2> QED
    BY <1>2, <1>3, <2>1
<1>6. ASSUME NEW a \in DOMAIN z PROVE \E b \in DOMAIN x : x[b] = z[a]
  <2>1. a + 2 \in DOMAIN x /\ (a + 2) - 2 = a /\ ~ (a + 2 <= 2)
    BY <1>3
  <2> QED
    BY <1>2, <1>3, <2>1
<1> QED
  BY <1>2, <1>4, <1>5, <1>6 DEF x, Paired

\* A part of a sorted sequence.
LEMMA PartFacts ==
  ASSUME NEW s \in Seq(Ids), Ascends(s), NEW m \in 1 .. Len(s) + 1, NEW n \in 0 .. Len(s)
  PROVE  /\ SubSeq(s, m, n) \in Seq(Ids) /\ Ascends(SubSeq(s, m, n))
         /\ Range(SubSeq(s, m, n)) = {s[k] : k \in m .. n}
         /\ Len(SubSeq(s, m, n)) = IF m <= n THEN n - m + 1 ELSE 0
<1> DEFINE p == SubSeq(s, m, n)
           l == IF m <= n THEN n - m + 1 ELSE 0
<1>1. Len(s) \in Nat /\ m \in Nat /\ n \in Nat /\ \A i \in m .. n : i \in DOMAIN s /\ s[i] \in Ids
  OBVIOUS
<1>2. p \in Seq(Ids) /\ Len(p) = l /\ \A i \in 1 .. n - m + 1 : p[i] = s[m + i - 1]
  BY <1>1, SubSeqProperties
<1>3. DOMAIN p = 1 .. l /\ l \in Nat
  BY <1>1, <1>2
<1> HIDE DEF p
<1>4. \A i \in 1 .. l : m + i - 1 \in m .. n /\ p[i] = s[m + i - 1]
  BY <1>1, <1>2
<1>5. \A k \in m .. n : k - m + 1 \in 1 .. l /\ p[k - m + 1] = s[k]
  <2> SUFFICES ASSUME NEW k \in m .. n
               PROVE  k - m + 1 \in 1 .. l /\ p[k - m + 1] = s[k]
    OBVIOUS
  <2>1. k - m + 1 \in 1 .. l /\ m + (k - m + 1) - 1 = k
    BY <1>1
  <2> QED
    BY <1>4, <2>1
<1> HIDE DEF l
<1>6. Range(p) = {s[k] : k \in m .. n}
  <2>1. \A x \in Range(p) : \E k \in m .. n : x = s[k]
    BY <1>3, <1>4 DEF Range
  <2>2. \A k \in m .. n : s[k] \in Range(p)
    BY <1>3, <1>5 DEF Range
  <2> QED
    BY <2>1, <2>2
<1>7. Ascends(p)
  <2> SUFFICES ASSUME NEW a \in 1 .. l, NEW b \in 1 .. l, a < b PROVE p[a] < p[b]
    BY <1>3 DEF Ascends
  <2>1. m + a - 1 \in DOMAIN s /\ m + b - 1 \in DOMAIN s /\ m + a - 1 < m + b - 1
    BY <1>1, <1>3, <1>4
  <2> QED
    BY <1>4, <2>1 DEF Ascends
<1> QED
  BY <1>2, <1>6, <1>7 DEF p, l

\* A range without an offending id is passed over.
LEMMA PassOver ==
  ASSUME NEW M, NEW w, NEW ranges, NEW samples, DrillOK(M, w, ranges, samples), w # <<>>,
         Range(Head(w)) \cap M = {}
  PROVE  DrillOK(M, Tail(w), ranges, samples)
<1>1. w \in Seq(Seq(Ids))
  BY DEF DrillOK
<1>2. /\ Tail(w) \in Seq(Seq(Ids)) /\ Head(w) = w[1] /\ 1 \in DOMAIN w
      /\ \A a \in DOMAIN Tail(w) :
            a \in Nat \ {0} /\ a + 1 \in DOMAIN w /\ Tail(w)[a] = w[a + 1]
      /\ \A a \in DOMAIN w : a = 1 \/ \E b \in DOMAIN Tail(w) : w[a] = Tail(w)[b]
  BY <1>1, TailFacts
<1> DEFINE t == Tail(w)
<1> HIDE DEF t
<1>3. \A a, b \in DOMAIN t : a < b =>
          \A x \in Range(t[a]), y \in Range(t[b]) : x < y
  <2> SUFFICES ASSUME NEW a \in DOMAIN t, NEW b \in DOMAIN t, a < b
               PROVE  \A x \in Range(t[a]), y \in Range(t[b]) : x < y
    OBVIOUS
  <2>1. a + 1 \in DOMAIN w /\ b + 1 \in DOMAIN w /\ a + 1 < b + 1
    BY <1>2 DEF t
  <2> QED
    BY <1>2, <2>1 DEF DrillOK, t
<1>4. \A x \in M : (\E a \in DOMAIN w : x \in Range(w[a])) => \E a \in DOMAIN t : x \in Range(t[a])
  BY <1>2 DEF t
<1>5. \A a \in DOMAIN t : Ascends(t[a])
  BY <1>2 DEF DrillOK, t
<1>6. \A x \in Range(samples) : x \in M /\ \A a \in DOMAIN t : \A y \in Range(t[a]) : x < y
  BY <1>2 DEF DrillOK, t
<1>7. t \in Seq(Seq(Ids))
  BY <1>2 DEF t
<1>8. DrillOK(M, t, ranges, samples)
  BY <1>3, <1>4, <1>5, <1>6, <1>7 DEF DrillOK
<1> QED
  BY <1>8 DEF t

\* A range is split in two halves.
LEMMA SplitRange ==
  ASSUME NEW M, NEW w, NEW ranges, NEW samples, DrillOK(M, w, ranges, samples), w # <<>>,
         NEW mid \in 0 .. Len(Head(w))
  PROVE  DrillOK(M, <<SubSeq(Head(w), 1, mid), SubSeq(Head(w), mid + 1, Len(Head(w)))>> \o Tail(w),
                 ranges, samples)
<1> DEFINE h == Head(w)
           t == Tail(w)
           l == SubSeq(h, 1, mid)
           r == SubSeq(h, mid + 1, Len(h))
           u == <<l, r>> \o t
<1>1. w \in Seq(Seq(Ids))
  BY DEF DrillOK
<1>2. /\ t \in Seq(Seq(Ids)) /\ h = w[1] /\ h \in Seq(Ids) /\ 1 \in DOMAIN w
      /\ \A a \in DOMAIN t : a \in Nat \ {0} /\ a + 1 \in DOMAIN w /\ t[a] = w[a + 1]
      /\ \A a \in DOMAIN w : a = 1 \/ \E b \in DOMAIN t : w[a] = t[b]
  BY <1>1, TailFacts
<1>3. Ascends(h)
  BY <1>2 DEF DrillOK
<1> HIDE DEF h, t
<1>4. /\ Len(h) \in Nat /\ DOMAIN h = 1 .. Len(h) /\ mid \in Nat /\ mid <= Len(h)
      /\ mid + 1 \in 1 .. Len(h) + 1 /\ mid \in 0 .. Len(h) /\ 1 \in 1 .. Len(h) + 1
      /\ Len(h) \in 0 .. Len(h)
  BY <1>2 DEF h
<1>p. \A m \in 1 .. Len(h) + 1, n \in 0 .. Len(h) :
         /\ SubSeq(h, m, n) \in Seq(Ids) /\ Ascends(SubSeq(h, m, n))
         /\ Range(SubSeq(h, m, n)) = {h[k] : k \in m .. n}
  BY <1>2, <1>3, PartFacts
<1>5. l \in Seq(Ids) /\ Ascends(l) /\ Range(l) = {h[k] : k \in 1 .. mid}
  BY <1>4, <1>p, Zenon
<1>6. r \in Seq(Ids) /\ Ascends(r) /\ Range(r) = {h[k] : k \in mid + 1 .. Len(h)}
  BY <1>4, <1>p, Zenon
<1> HIDE DEF l, r
<1>7. Range(h) = Range(l) \cup Range(r)
  <2>1. \A k \in 1 .. Len(h) : k \in 1 .. mid \/ k \in mid + 1 .. Len(h)
    BY <1>4
  <2>2. \A k \in 1 .. mid : k \in DOMAIN h
    BY <1>4
  <2>3. \A k \in mid + 1 .. Len(h) : k \in DOMAIN h
    BY <1>4
  <2> QED
    BY <1>4, <1>5, <1>6, <2>1, <2>2, <2>3 DEF Range
<1>8. \A x \in Range(l), y \in Range(r) : x < y
  <2> SUFFICES ASSUME NEW a \in 1 .. mid, NEW b \in mid + 1 .. Len(h) PROVE h[a] < h[b]
    BY <1>5, <1>6
  <2>1. a \in DOMAIN h /\ b \in DOMAIN h /\ a < b
    BY <1>4
  <2> QED
    BY <1>3, <2>1 DEF Ascends
<1>9. /\ u \in Seq(Seq(Ids)) /\ 1 \in DOMAIN u /\ 2 \in DOMAIN u /\ u[1] = l /\ u[2] = r
      /\ \A a \in DOMAIN u : a = 1 \/ a = 2 \/ \E c \in DOMAIN t : a = c + 2 /\ u[a] = t[c]
      /\ \A a \in DOMAIN t : \E b \in DOMAIN u : u[b] = t[a]
  <2> DEFINE Q == Seq(Ids)
             p == <<l, r>>
  <2>1. t \in Seq(Q) /\ p \in Seq(Q) /\ Len(p) = 2 /\ p[1] = l /\ p[2] = r
    BY <1>2, <1>5, <1>6
  <2> HIDE DEF Q, p
  <2>2. Paired(Q, p, t, p \o t)
    BY <2>1, PairFacts, Zenon
  <2>3. u = p \o t
    BY DEF p
  <2> HIDE DEF u
  <2>4. Paired(Q, p, t, u)
    BY <2>2, <2>3
  <2> QED
    BY <2>1, <2>4 DEF Q, Paired
<1> HIDE DEF u
\* Whatever lies in u lies in w, in the head or behind it.
<1>10. \A a \in DOMAIN u : Ascends(u[a])
  <2>1. \A c \in DOMAIN t : Ascends(t[c])
    BY <1>2 DEF DrillOK
  <2> QED
    BY <1>5, <1>6, <1>9, <2>1
<1>11. \A a \in DOMAIN u : \A x \in Range(u[a]) : \E b \in DOMAIN w : x \in Range(w[b])
  <2> SUFFICES ASSUME NEW a \in DOMAIN u, NEW x \in Range(u[a])
               PROVE  \E b \in DOMAIN w : x \in Range(w[b])
    OBVIOUS
  <2>1. CASE a = 1 \/ a = 2
    BY <1>2, <1>7, <1>9, <2>1
  <2>2. CASE \E c \in DOMAIN t : u[a] = t[c]
    BY <1>2, <2>2
  <2> QED
    BY <1>9, <2>1, <2>2
<1>12. \A b \in DOMAIN w : \A x \in Range(w[b]) : \E a \in DOMAIN u : x \in Range(u[a])
  <2> SUFFICES ASSUME NEW b \in DOMAIN w, NEW x \in Range(w[b])
               PROVE  \E a \in DOMAIN u : x \in Range(u[a])
    OBVIOUS
  <2>1. CASE b = 1
    BY <1>2, <1>7, <1>9, <2>1
  <2>2. CASE \E c \in DOMAIN t : w[b] = t[c]
    BY <1>9, <2>2
  <2> QED
    BY <1>2, <2>1, <2>2
<1>13. \A a, b \in DOMAIN u : a < b => \A x \in Range(u[a]), y \in Range(u[b]) : x < y
  <2> SUFFICES ASSUME NEW a \in DOMAIN u, NEW b \in DOMAIN u, a < b,
                      NEW x \in Range(u[a]), NEW y \in Range(u[b])
               PROVE  x < y
    OBVIOUS
  <2>1. a \in Nat \ {0} /\ b \in Nat \ {0}
    BY <1>9
  <2>2. CASE b = 1 \/ b = 2
    <3>1. a = 1 /\ b = 2
      BY <2>1, <2>2
    <3> QED
      BY <1>8, <1>9, <3>1
  <2>3. CASE \E d \in DOMAIN t : b = d + 2 /\ u[b] = t[d]
    <3>1. PICK d \in DOMAIN t : b = d + 2 /\ u[b] = t[d]
      BY <2>3
    <3>2. d \in Nat \ {0} /\ d + 1 \in DOMAIN w /\ y \in Range(w[d + 1]) /\ 1 < d + 1
      BY <1>2, <3>1
    <3>3. CASE a = 1 \/ a = 2
      <4>1. x \in Range(w[1])
        BY <1>2, <1>7, <1>9, <3>3
      <4> QED
        BY <1>2, <3>2, <4>1 DEF DrillOK
    <3>4. CASE \E c \in DOMAIN t : a = c + 2 /\ u[a] = t[c]
      <4>1. PICK c \in DOMAIN t : a = c + 2 /\ u[a] = t[c]
        BY <3>4
      <4>2. c + 1 \in DOMAIN w /\ x \in Range(w[c + 1]) /\ c + 1 < d + 1
        BY <1>2, <3>1, <3>2, <4>1
      <4> QED
        BY <3>2, <4>2 DEF DrillOK
    <3> QED
      BY <1>9, <3>3, <3>4
  <2> QED
    BY <1>9, <2>2, <2>3
<1>14. \A x \in Range(samples) : x \in M /\ \A a \in DOMAIN u : \A y \in Range(u[a]) : x < y
  BY <1>11 DEF DrillOK
<1>15. DrillOK(M, u, ranges, samples)
  BY <1>9, <1>10, <1>12, <1>13, <1>14 DEF DrillOK
<1> QED
  BY <1>15 DEF u, l, r, h, t

LEMMA ConcatAscends ==
  ASSUME NEW s \in Seq(Ids), NEW o \in Seq(Ids), Ascends(s), Ascends(o),
         \A x \in Range(s), y \in Range(o) : x < y
  PROVE  /\ s \o o \in Seq(Ids) /\ Ascends(s \o o) /\ Range(s \o o) = Range(s) \cup Range(o)
         /\ Len(s) <= Len(s \o o)
<1> DEFINE q == s \o o
<1>1. /\ q \in Seq(Ids) /\ Len(q) = Len(s) + Len(o)
      /\ \A i \in 1 .. Len(s) + Len(o) : q[i] = IF i <= Len(s) THEN s[i] ELSE o[i - Len(s)]
  BY ConcatProperties
<1>2. Range(q) = Range(s) \cup Range(o)
  BY RangeConcatenation
<1> HIDE DEF q
<1>3. /\ Len(s) \in Nat /\ Len(o) \in Nat /\ DOMAIN s = 1 .. Len(s) /\ DOMAIN o = 1 .. Len(o)
      /\ DOMAIN q = 1 .. Len(s) + Len(o)
  BY <1>1
<1>4. ASSUME NEW a \in DOMAIN q, NEW b \in DOMAIN q, a < b PROVE q[a] < q[b]
  <2>1. CASE b <= Len(s)
    <3>1. a \in DOMAIN s /\ b \in DOMAIN s /\ q[a] = s[a] /\ q[b] = s[b]
      BY <1>1, <1>3, <1>4, <2>1
    <3> QED
      BY <1>4, <3>1 DEF Ascends
  <2>2. CASE ~ (b <= Len(s)) /\ a <= Len(s)
    <3>1. /\ a \in DOMAIN s /\ b - Len(s) \in DOMAIN o
          /\ q[a] = s[a] /\ q[b] = o[b - Len(s)]
      BY <1>1, <1>3, <1>4, <2>2
    <3>2. q[a] \in Range(s) /\ q[b] \in Range(o)
      BY <3>1 DEF Range
    <3> QED
      BY <3>2
  <2>3. CASE ~ (a <= Len(s))
    <3>1. ~ (b <= Len(s))
      BY <1>3, <1>4, <2>3
    <3>2. /\ a - Len(s) \in DOMAIN o /\ b - Len(s) \in DOMAIN o
          /\ a - Len(s) < b - Len(s)
      BY <1>3, <1>4, <2>3, <3>1
    <3>3. q[a] = o[a - Len(s)] /\ q[b] = o[b - Len(s)]
      BY <1>1, <1>3, <1>4, <2>3, <3>1
    <3> QED
      BY <3>2, <3>3 DEF Ascends
  <2> QED
    BY <1>3, <2>1, <2>2, <2>3
<1>5. Ascends(q) /\ Len(s) <= Len(q)
  BY <1>1, <1>3, <1>4 DEF Ascends
<1> QED
  BY <1>1, <1>2, <1>5 DEF q

\* The samples taken up to the cap.
LEMMA FirstFacts ==
  ASSUME NEW q \in Seq(Ids), Ascends(q)
  PROVE  LET f == FirstOf(q, SampleCap) IN
         /\ f \in Seq(Ids) /\ Ascends(f) /\ Range(f) \subseteq Range(q)
         /\ Len(f) <= SampleCap
         /\ Len(f) < SampleCap => Len(f) = Len(q) /\ Range(f) = Range(q)
<1> DEFINE l == Len(q)
           n == IF l < SampleCap THEN l ELSE SampleCap
           f == FirstOf(q, SampleCap)
<1>1. SampleCap \in Nat /\ l \in Nat /\ DOMAIN q = 1 .. l
  BY VerifyAssumption DEF VerifyAssumption
<1>3. f = SubSeq(q, 1, n)
  BY DEF FirstOf
<1> HIDE DEF l
<1>2. n \in 0 .. l /\ n \in Nat /\ 1 \in 1 .. l + 1 /\ n <= SampleCap
      /\ (n < SampleCap => n = l)
  BY <1>1
<1> HIDE DEF n, f
<1>4. \A a \in 1 .. l + 1, b \in 0 .. l :
         /\ SubSeq(q, a, b) \in Seq(Ids) /\ Ascends(SubSeq(q, a, b))
         /\ Range(SubSeq(q, a, b)) = {q[k] : k \in a .. b}
         /\ Len(SubSeq(q, a, b)) = IF a <= b THEN b - a + 1 ELSE 0
  BY PartFacts DEF l
<1>5. /\ f \in Seq(Ids) /\ Ascends(f) /\ Range(f) = {q[k] : k \in 1 .. n}
      /\ Len(f) = IF 1 <= n THEN n - 1 + 1 ELSE 0
  BY <1>2, <1>3, <1>4, Zenon
<1>6. Len(f) = n
  BY <1>2, <1>5
<1>7. Range(f) \subseteq Range(q)
  <2>1. \A k \in 1 .. n : k \in DOMAIN q
    BY <1>1, <1>2
  <2> QED
    BY <1>5, <2>1 DEF Range
<1>8. n = l => Range(f) = Range(q)
  BY <1>1, <1>5 DEF Range
<1> QED
  BY <1>2, <1>5, <1>6, <1>7, <1>8 DEF f, l

\* A range is noted, and samples are taken from it.
LEMMA EnumerateRange ==
  ASSUME NEW M, NEW w, NEW ranges, NEW samples, DrillOK(M, w, ranges, samples), w # <<>>,
         NEW S \in SUBSET Ids, S = Range(Head(w)) \cap M
  PROVE  DrillOK(M, Tail(w), ranges \cup {<<Head(w)[1], Head(w)[Len(Head(w))]>>},
                 FirstOf(samples \o Ascending(S), SampleCap))
<1> DEFINE h == Head(w)
           t == Tail(w)
           o == Ascending(S)
           q == samples \o o
           f == FirstOf(q, SampleCap)
           noted == ranges \cup {<<h[1], h[Len(h)]>>}
<1>1. w \in Seq(Seq(Ids)) /\ samples \in Seq(Ids) /\ Ascends(samples)
  BY DEF DrillOK
<1>2. /\ t \in Seq(Seq(Ids)) /\ h = w[1] /\ h \in Seq(Ids) /\ 1 \in DOMAIN w
      /\ \A a \in DOMAIN t : a \in Nat \ {0} /\ a + 1 \in DOMAIN w /\ t[a] = w[a + 1]
      /\ \A a \in DOMAIN w : a = 1 \/ \E b \in DOMAIN t : w[a] = t[b]
  BY <1>1, TailFacts
<1>3. Ascends(h) /\ S = Range(h) \cap M
  BY <1>2 DEF DrillOK
<1> HIDE DEF h, t
<1>4. o \in Seq(Ids) /\ Ascends(o) /\ Range(o) = S
  BY AscendingFacts
<1>5. \A x \in Range(samples), y \in Range(o) : x < y
  BY <1>2, <1>3, <1>4 DEF DrillOK
<1> HIDE DEF o
<1>6. /\ q \in Seq(Ids) /\ Ascends(q) /\ Range(q) = Range(samples) \cup S
      /\ Len(samples) <= Len(q)
  BY <1>1, <1>4, <1>5, ConcatAscends
<1> HIDE DEF q
<1>7. /\ f \in Seq(Ids) /\ Ascends(f) /\ Range(f) \subseteq Range(q) /\ Len(f) <= SampleCap
      /\ Len(f) < SampleCap => Len(f) = Len(q) /\ Range(f) = Range(q)
  BY <1>6, FirstFacts
<1> HIDE DEF f
<1>8. \A a, b \in DOMAIN t : a < b => \A x \in Range(t[a]), y \in Range(t[b]) : x < y
  <2> SUFFICES ASSUME NEW a \in DOMAIN t, NEW b \in DOMAIN t, a < b
               PROVE  \A x \in Range(t[a]), y \in Range(t[b]) : x < y
    OBVIOUS
  <2>1. a + 1 \in DOMAIN w /\ b + 1 \in DOMAIN w /\ a + 1 < b + 1
    BY <1>2
  <2> QED
    BY <1>2, <2>1 DEF DrillOK
<1>9. \A x \in Range(f) : x \in M /\ \A a \in DOMAIN t : \A y \in Range(t[a]) : x < y
  <2> SUFFICES ASSUME NEW x \in Range(f)
               PROVE  x \in M /\ \A a \in DOMAIN t : \A y \in Range(t[a]) : x < y
    OBVIOUS
  <2>1. CASE x \in Range(samples)
    BY <1>2, <2>1 DEF DrillOK
  <2>2. CASE x \in S
    <3> SUFFICES ASSUME NEW a \in DOMAIN t, NEW y \in Range(t[a]) PROVE x < y
      BY <1>3, <2>2
    <3>1. a + 1 \in DOMAIN w /\ 1 < a + 1 /\ y \in Range(w[a + 1]) /\ x \in Range(w[1])
      BY <1>2, <1>3, <2>2
    <3> QED
      BY <1>2, <3>1 DEF DrillOK
  <2> QED
    BY <1>6, <1>7, <2>1, <2>2
<1>10. \A x \in Range(h) : h[1] <= x /\ x <= h[Len(h)]
  <2> SUFFICES ASSUME NEW k \in DOMAIN h PROVE h[1] <= h[k] /\ h[k] <= h[Len(h)]
    BY DEF Range
  <2>1. Len(h) \in Nat /\ DOMAIN h = 1 .. Len(h) /\ 1 \in DOMAIN h /\ Len(h) \in DOMAIN h
    BY <1>2
  <2>2. h[1] \in Nat /\ h[k] \in Nat /\ h[Len(h)] \in Nat
    <3>1. \A a \in DOMAIN h : h[a] \in Ids
      BY <1>2
    <3> QED
      BY <2>1, <3>1, IdsAreNumbers
  <2>3. (k = 1 \/ 1 < k) /\ (k = Len(h) \/ k < Len(h))
    BY <2>1
  <2>4. h[1] <= h[k]
    BY <1>3, <2>1, <2>2, <2>3 DEF Ascends
  <2>5. h[k] <= h[Len(h)]
    BY <1>3, <2>1, <2>2, <2>3 DEF Ascends
  <2> QED
    BY <2>4, <2>5
<1>11. ASSUME NEW x \in M
       PROVE  \/ \E a \in DOMAIN t : x \in Range(t[a])
              \/ /\ \E r \in noted : r[1] <= x /\ x <= r[2]
                 /\ Len(f) < SampleCap => x \in Range(f)
  <2>1. CASE x \in Range(h)
    <3>1. \E r \in noted : r[1] <= x /\ x <= r[2]
      <4> DEFINE r == <<h[1], h[Len(h)]>>
      <4>1. r \in noted /\ r[1] <= x /\ x <= r[2]
        BY <1>10, <2>1
      <4> QED
        BY <4>1
    <3>2. Len(f) < SampleCap => x \in Range(f)
      BY <1>3, <1>6, <1>7, <2>1
    <3> QED
      BY <3>1, <3>2
  <2>2. CASE \E a \in DOMAIN t : x \in Range(t[a])
    BY <2>2
  <2>3. CASE /\ \E r \in ranges : r[1] <= x /\ x <= r[2]
             /\ Len(samples) < SampleCap => x \in Range(samples)
    <3>1. \E r \in noted : r[1] <= x /\ x <= r[2]
      BY <2>3
    <3>2. Len(f) < SampleCap => Len(samples) < SampleCap
      <4>1. Len(f) \in Nat /\ Len(samples) \in Nat /\ Len(q) \in Nat /\ SampleCap \in Nat
        BY <1>1, <1>6, <1>7, VerifyAssumption DEF VerifyAssumption
      <4> QED
        BY <1>6, <1>7, <4>1
    <3> QED
      BY <1>6, <1>7, <2>3, <3>1, <3>2
  <2>4. \/ \E a \in DOMAIN w : x \in Range(w[a])
        \/ /\ \E r \in ranges : r[1] <= x /\ x <= r[2]
           /\ Len(samples) < SampleCap => x \in Range(samples)
    BY DEF DrillOK
  <2> QED
    BY <1>2, <2>1, <2>2, <2>3, <2>4
<1> HIDE DEF noted
<1>12. \A a \in DOMAIN t : Ascends(t[a])
  BY <1>2 DEF DrillOK
<1>13. DrillOK(M, t, noted, f)
  BY <1>2, <1>7, <1>8, <1>9, <1>11, <1>12 DEF DrillOK
<1> QED
  BY <1>13 DEF noted, f, q, o, h, t

\* Ranges without an offending id are those whose digests agree.
LEMMA SameRangeHasNone ==
  ASSUME NEW ids, SameRows(ids, v.src, v.dst)
  PROVE  ids \cap Mismatched = {}
<1> SUFFICES ASSUME NEW i \in ids, Differs(i) PROVE FALSE
  BY DEF Mismatched
<1> DEFINE ds == {p \in DigestOf(v.src) : p[1] \in ids}
           dd == {p \in DigestOf(v.dst) : p[1] \in ids}
<1>1. ds = dd
  BY DEF SameRows
<1>2. i \in DOMAIN v.src => <<i, v.src[i]>> \in ds
  BY DEF DigestOf
<1>3. i \in DOMAIN v.dst => <<i, v.dst[i]>> \in dd
  BY DEF DigestOf
<1>4. \A x : <<i, x>> \in ds => i \in DOMAIN v.src /\ x = v.src[i]
  BY DEF DigestOf
<1>5. \A x : <<i, x>> \in dd => i \in DOMAIN v.dst /\ x = v.dst[i]
  BY DEF DigestOf
<1> HIDE DEF ds, dd
<1> QED
  BY <1>1, <1>2, <1>3, <1>4, <1>5 DEF Differs

LEMMA SameMismatched ==
  ASSUME v'.src = v.src, v'.dst = v.dst
  PROVE  Mismatched' = Mismatched
BY DEF Mismatched, Differs

LEMMA DrillKeeps ==
  ASSUME DrillInv, v'.pc = v.pc, v'.match = v.match, v'.src = v.src, v'.dst = v.dst,
         v'.work = v.work, v'.ranges = v.ranges, v'.samples = v.samples
  PROVE  DrillInv'
BY SameMismatched DEF DrillInv

LEMMA BisectDrill ==
  ASSUME VerifyTypes, VerdictInv, DrillInv, Bisect
  PROVE  DrillInv'
<1> DEFINE ids == Head(v.work)
           mid == Len(ids) \div 2
           halves == <<SubSeq(ids, 1, mid), SubSeq(ids, mid + 1, Len(ids))>> \o Tail(v.work)
           S == {i \in Range(ids) : Differs(i)}
           noted == v.ranges \cup {<<ids[1], ids[Len(ids)]>>}
           taken == FirstOf(v.samples \o Ascending(S), SampleCap)
<1>1. v.pc = "bisect" /\ v.work # <<>> /\ ~ v.match
  BY DEF Bisect, VerdictInv
<1>2. DrillOK(Mismatched, v.work, v.ranges, v.samples)
  BY <1>1 DEF DrillInv
<1>3. v.work \in Seq(Seq(Ids)) /\ ids \in Seq(Ids)
  BY <1>1, <1>2, TailFacts DEF DrillOK
<1>4. /\ v'.pc = "bisect" /\ v'.match = v.match /\ v'.src = v.src /\ v'.dst = v.dst
      /\ Mismatched' = Mismatched
  <2>1. /\ v'.pc = v.pc /\ v'.match = v.match /\ v'.src = v.src /\ v'.dst = v.dst
    BY DEF Bisect, Enumerate, VerifyTypes
  <2> QED
    BY <1>1, <2>1, SameMismatched
<1>5. CASE SameRows(Range(ids), v.src, v.dst)
  <2>1. v'.work = Tail(v.work) /\ v'.ranges = v.ranges /\ v'.samples = v.samples
    BY <1>5 DEF Bisect, VerifyTypes
  <2>2. DrillOK(Mismatched, Tail(v.work), v.ranges, v.samples)
    BY <1>1, <1>2, <1>5, SameRangeHasNone, PassOver
  <2> QED
    BY <1>4, <2>1, <2>2 DEF DrillInv
<1>6. CASE ~ SameRows(Range(ids), v.src, v.dst) /\ Len(ids) <= Threshold
  <2>1. v'.work = Tail(v.work) /\ v'.ranges = noted /\ v'.samples = taken
    BY <1>6 DEF Bisect, Enumerate, Offending, VerifyTypes
  <2>2. S \in SUBSET Ids /\ S = Range(ids) \cap Mismatched
    <3>1. Range(ids) \in SUBSET Ids
      BY <1>3, RangeOfSeq
    <3>2. \A i : Differs(i) => i \in DOMAIN v.src \cup DOMAIN v.dst
      BY DEF Differs
    <3> QED
      BY <3>1, <3>2 DEF Mismatched
  <2> HIDE DEF S
  <2>3. DrillOK(Mismatched, Tail(v.work), noted, taken)
    BY <1>1, <1>2, <2>2, EnumerateRange
  <2> HIDE DEF noted, taken
  <2> QED
    BY <1>4, <2>1, <2>3 DEF DrillInv
<1>7. CASE ~ SameRows(Range(ids), v.src, v.dst) /\ ~ (Len(ids) <= Threshold)
  <2>1. v'.work = halves /\ v'.ranges = v.ranges /\ v'.samples = v.samples
    BY <1>7 DEF Bisect, VerifyTypes
  <2>2. mid \in 0 .. Len(ids)
    <3>1. Len(ids) \in Nat
      BY <1>3
    <3> HIDE DEF ids
    <3> QED
      BY <3>1
  <2> HIDE DEF mid
  <2>3. DrillOK(Mismatched, halves, v.ranges, v.samples)
    BY <1>1, <1>2, <2>2, SplitRange
  <2> HIDE DEF halves
  <2> QED
    BY <1>4, <2>1, <2>3 DEF DrillInv
<1> QED
  BY <1>5, <1>6, <1>7

LEMMA ReadDestDrill ==
  ASSUME Types, VerifyTypes, VerdictInv, DrillInv, ReadDest
  PROVE  DrillInv'
<1> DEFINE all == DOMAIN v.src \cup DOMAIN CurrentState
<1>1. IsMap(v.src) /\ IsMap(CurrentState) /\ v.samples = <<>>
  BY CurrentStateIsMap DEF ReadDest, VerdictInv, DrillInv
<1>2. all \in SUBSET Ids
  BY <1>1 DEF IsMap
<1>3. /\ v'.src = v.src /\ v'.dst = CurrentState /\ v'.samples = v.samples
      /\ v'.pc \in {"bisect", "done"}
      /\ v'.match \/ (v'.pc = "bisect" /\ v'.work = <<Ascending(all)>>)
  BY DEF ReadDest, VerifyTypes, SameRows
<1>4. Mismatched' \subseteq all
  BY <1>3 DEF Mismatched
<1>5. /\ Ascending(all) \in Seq(Ids) /\ Ascends(Ascending(all))
      /\ Range(Ascending(all)) = all
  BY <1>2, AscendingFacts
<1> DEFINE s == Ascending(all)
           w == <<s>>
<1> HIDE DEF all, s
<1>6. w \in Seq(Seq(Ids)) /\ DOMAIN w = {1} /\ w[1] = s
  BY <1>5 DEF s
<1>7. <<>> \in Seq(Ids) /\ Len(<<>>) = 0 /\ DOMAIN <<>> = {}
  OBVIOUS
<1>8. Range(<<>>) = {} /\ Ascends(<<>>) /\ Len(<<>>) <= SampleCap
  BY <1>7, VerifyAssumption DEF Range, Ascends, VerifyAssumption
<1> HIDE DEF w
<1>9. DrillOK(Mismatched', w, v'.ranges, <<>>)
  BY <1>4, <1>5, <1>6, <1>7, <1>8 DEF DrillOK, s
<1> QED
  BY <1>1, <1>3, <1>9 DEF DrillInv, w, s

LEMMA NextDrill ==
  ASSUME Types, VerifyTypes, VerdictInv, DrillInv, [Next]_vars
  PROVE  DrillInv'
<1>1. CASE UNCHANGED v
  BY <1>1, DrillKeeps
<1>2. ASSUME NEW i \in Ids, NEW op \in {"u", "d"}, SourceWrite(i, op)
      PROVE  DrillInv'
  <2>1. /\ v'.pc = v.pc /\ v'.match = v.match /\ v'.src = v.src /\ v'.dst = v.dst
        /\ v'.work = v.work /\ v'.ranges = v.ranges /\ v'.samples = v.samples
    BY <1>2 DEF SourceWrite, Unsteady, VerifyTypes
  <2> QED
    BY <2>1, DrillKeeps
<1>3. CASE StartSync \/ FailSync \/ FinishSync \/ UNCHANGED vars
  BY <1>1, <1>3 DEF StartSync, FailSync, CreatePart, FinishSync, vars
<1>4. CASE StartBackfill
  <2>1. /\ v'.pc = v.pc /\ v'.match = v.match /\ v'.src = v.src /\ v'.dst = v.dst
        /\ v'.work = v.work /\ v'.ranges = v.ranges /\ v'.samples = v.samples
    BY <1>4 DEF StartBackfill, VerifyTypes
  <2> QED
    BY <2>1, DrillKeeps
<1>5. ASSUME NEW p \in Procs, WriteRow(p) \/ StartFlush(p) PROVE DrillInv'
  BY <1>1, <1>5 DEF WriteRow, StartFlush, CreatePart
<1>6. ASSUME NEW p \in Procs, FinishPart(p) PROVE DrillInv'
  <2>1. /\ v'.pc = v.pc /\ v'.match = v.match /\ v'.src = v.src /\ v'.dst = v.dst
        /\ v'.work = v.work /\ v'.ranges = v.ranges /\ v'.samples = v.samples
    BY <1>6 DEF FinishPart, Moved, VerifyTypes
  <2> QED
    BY <2>1, DrillKeeps
<1>7. ASSUME NEW p \in Procs, Stop(p) PROVE DrillInv'
  <2>1. CASE v'.pc = "idle"
    BY <2>1 DEF DrillInv
  <2>2. CASE v'.pc # "idle"
    <3>1. v' = v \/ v' = [v EXCEPT !.steady = v.pc = "idle"]
      BY <1>7, <2>2 DEF Stop, Moved, NoVerify
    <3>2. /\ v'.pc = v.pc /\ v'.match = v.match /\ v'.src = v.src /\ v'.dst = v.dst
          /\ v'.work = v.work /\ v'.ranges = v.ranges /\ v'.samples = v.samples
      BY <3>1 DEF VerifyTypes
    <3> QED
      BY <3>2, DrillKeeps
  <2> QED
    BY <2>1, <2>2
<1>8. CASE StartVerify \/ CloseBackfill
  <2>1. PICK by \in {"verify", "backfill"} : BeginVerify(by)
    BY <1>8 DEF StartVerify, CloseBackfill
  <2>2. v'.pc = "source" /\ v'.samples = <<>>
    BY <2>1 DEF BeginVerify, NoVerify
  <2> QED
    BY <2>2 DEF DrillInv
<1>9. CASE ReadSourceChunk
  <2>1. v'.pc = "source" /\ v.pc = "source" /\ v'.samples = v.samples
    BY <1>9 DEF ReadSourceChunk, VerifyTypes
  <2> QED
    BY <2>1 DEF DrillInv
<1>10. CASE FailDest \/ Report
  <2>1. v'.pc \in {"error", "idle"}
    BY <1>10 DEF FailDest, Report, NoVerify, VerifyTypes
  <2> QED
    BY <2>1 DEF DrillInv
<1>11. CASE FinishBisect
  <2>1. /\ v.pc = "bisect" /\ v.work = <<>> /\ v'.pc = "done" /\ v'.match = v.match
        /\ v'.src = v.src /\ v'.dst = v.dst
        /\ v'.work = v.work /\ v'.ranges = v.ranges /\ v'.samples = v.samples
    BY <1>11 DEF FinishBisect, VerifyTypes
  <2> QED
    BY <2>1, SameMismatched DEF DrillInv
<1> QED
  BY <1>2, <1>3, <1>4, <1>5, <1>6, <1>7, <1>8, <1>9, <1>10, <1>11, BisectDrill,
     ReadDestDrill DEF Next

\* The drill-down of a mismatch (bisect and enumerate): the samples are offending ids
\* in their order, all of them or as many as the cap allows, and each offending id lies
\* in a range that was noted, however the two sides differ.
THEOREM DrillDownIsExact == Spec => []DrillDownExact
<1>1. Init => DrillInv
  BY DEF Init, NoVerify, DrillInv
<1>2. Inv /\ DrillInv /\ [Next]_vars => DrillInv'
  BY NextDrill DEF Inv
<1>3. ASSUME Inv, DrillInv PROVE DrillDownExact
  <2> SUFFICES ASSUME v.pc = "done", ~ v.match
               PROVE  /\ Range(v.samples) \subseteq Mismatched
                      /\ \A m, n \in DOMAIN v.samples : m < n => v.samples[m] < v.samples[n]
                      /\ Len(v.samples) = IF Cardinality(Mismatched) < SampleCap
                                          THEN Cardinality(Mismatched) ELSE SampleCap
                      /\ \A i \in Mismatched : \E r \in v.ranges : r[1] <= i /\ i <= r[2]
    BY DEF DrillDownExact
  <2> DEFINE M == Mismatched
             s == v.samples
  <2>1. DrillOK(M, <<>>, v.ranges, s)
    BY <1>3 DEF DrillInv
  <2>2. DOMAIN <<>> = {}
    OBVIOUS
  <2>3. M \in SUBSET Ids
    BY <1>3 DEF Mismatched, Inv, VerdictInv, IsMap
  <2> HIDE DEF M, s
  <2>4. /\ s \in Seq(Ids) /\ Ascends(s) /\ Len(s) <= SampleCap /\ Range(s) \subseteq M
        /\ \A x \in M : /\ \E r \in v.ranges : r[1] <= x /\ x <= r[2]
                        /\ Len(s) < SampleCap => x \in Range(s)
    BY <2>1, <2>2 DEF DrillOK
  <2>5. Cardinality(Range(s)) = Len(s) /\ IsFiniteSet(M) /\ Cardinality(M) \in Nat
    BY <2>3, <2>4, AscendingCounts, FiniteIds
  <2>6. Len(s) \in Nat /\ SampleCap \in Nat
    BY <2>4, VerifyAssumption DEF VerifyAssumption
  <2>7. CASE Len(s) < SampleCap
    <3>1. Range(s) = M
      BY <2>4, <2>7
    <3>2. Cardinality(M) = Len(s)
      BY <2>5, <3>1
    <3> QED
      BY <2>4, <2>7, <3>2 DEF M, s, Ascends
  <2>8. CASE Len(s) = SampleCap
    <3>1. Cardinality(Range(s)) <= Cardinality(M)
      BY <2>4, <2>5, FS_Subset
    <3>2. ~ (Cardinality(M) < SampleCap)
      BY <2>5, <2>6, <2>8, <3>1
    <3> QED
      BY <2>4, <2>8, <3>2 DEF M, s, Ascends
  <2> QED
    BY <2>4, <2>6, <2>7, <2>8
<1> QED
  BY <1>1, <1>2, <1>3, SpecInv, PTL DEF Spec

=============================================================================
