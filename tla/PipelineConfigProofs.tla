----------------------- MODULE PipelineConfigProofs -----------------------
(***************************************************************************)
(* Proofs about PipelineConfig, for any clients, environments, settings    *)
(* and bounds: the types, the numbering of versions, that the past is      *)
(* immutable, the agreement of a row with its version, that no setting     *)
(* promotions ask for leaves its environment, and the completeness of the  *)
(* audit.                                                                  *)
(*                                                                         *)
(* The predicates below take the tables as parameters, so that what a      *)
(* handler has read and what it finds when it writes can be compared.      *)
(***************************************************************************)
EXTENDS PipelineConfig, FiniteSetTheorems, SequenceTheorems, TLAPS

-----------------------------------------------------------------------------
(* The inductive invariant.                                                *)

Home(config, env) == \A k \in sensitiveKeys : config[k] \in {env, Unset}

\* A row and its history.
PipelineOK(row, hist) ==
  /\ row \in RowType /\ Home(row.config, row.env)
  /\ hist \in Seq(VersionType)
  /\ \A n \in 1 .. Len(hist) : hist[n].number = n /\ Home(hist[n].config, row.env)
  /\ row.version \in 1 .. Len(hist)
  /\ hist[row.version].note = "rollback" \/ hist[row.version].config = row.config

\* What a handler is going to write agrees with a history at least as long as the one
\* it has read.
WriteOK(h, hist) ==
  /\ h.row.version = h.version.number
  /\ h.version.number \in 1 .. Len(hist) + 1
  /\ ~h.new => h.version.number \in 1 .. Len(hist) /\ hist[h.version.number] = h.version
  /\ h.version.note = "rollback" \/ h.version.config = h.row.config

HandlerOK(h, rows, hists, envs) ==
  /\ h \in HandlerType(DOMAIN rows)
  /\ h.pc \in {"ensure", "insert"} => Home(h.config, h.env)
  /\ h.pc = "insert" => h.env \in envs
  /\ h.pc \in {"update", "rollback", "write"} =>
       h.row.env = rows[h.id].env /\ Home(h.row.config, h.row.env)
  /\ h.pc = "update" => Home(h.config, h.row.env)
  /\ h.pc = "write" => Home(h.version.config, h.row.env) /\ WriteOK(h, hists[h.id])

TablesOK(rows, hists, envs) ==
  /\ rows \in Seq(RowType) /\ hists \in Seq(Seq(VersionType)) /\ Len(hists) = Len(rows)
  /\ \A id \in DOMAIN rows : PipelineOK(rows[id], hists[id]) /\ rows[id].env \in envs
  /\ envs \subseteq Envs

CountersOK ==
  /\ changes \in Nat /\ log \in Nat /\ unaudited \in Nat
  /\ requests \in 0 .. MaxRequests /\ faults \in 0 .. MaxFaults

Inv ==
  /\ TablesOK(pipelines, history, environments)
  /\ DOMAIN handler = Clients
  /\ \A c \in Clients : HandlerOK(handler[c], pipelines, history, environments)
  /\ handler = [c \in Clients |-> handler[c]]

\* What every step does to the tables: rows stay in their environment and histories
\* are only appended to.
Grows(rows, hists, envs, rows2, hists2, envs2) ==
  /\ DOMAIN rows \subseteq DOMAIN rows2 /\ envs \subseteq envs2
  /\ \A id \in DOMAIN rows :
       /\ rows2[id].env = rows[id].env
       /\ Len(hists[id]) <= Len(hists2[id])
       /\ \A n \in 1 .. Len(hists[id]) : hists2[id][n] = hists[id][n]

Growth == Grows(pipelines, history, environments, pipelines', history', environments')

-----------------------------------------------------------------------------
(* Handlers and tables.                                                    *)

\* What a handler carries, by the step it is at.
LEMMA HandlerCases ==
  ASSUME NEW ids, NEW h \in HandlerType(ids)
  PROVE  /\ h.pc \in {"idle", "audit", "ensure", "insert", "update", "rollback",
                      "status", "write"}
         /\ h.pc \in {"ensure", "insert"} =>
              /\ h = [pc |-> h.pc, env |-> h.env, config |-> h.config]
              /\ h.env \in Envs /\ h.config \in ConfigType
         /\ h.pc \in {"update", "rollback", "status", "write"} => h.id \in ids
         /\ h.pc \in {"update", "rollback", "write"} => h.row \in RowType
         /\ h.pc = "update" => h.config \in ConfigType
         /\ h.pc = "rollback" => h.target \in Nat
         /\ h.pc = "status" => h.status \in Statuses
         /\ h.pc = "write" => h.version \in VersionType /\ h.new \in BOOLEAN
BY DEF HandlerType

LEMMA MoreIds ==
  ASSUME NEW ids, NEW ids2, ids \subseteq ids2 PROVE HandlerType(ids) \subseteq HandlerType(ids2)
BY DEF HandlerType

\* A handler that agrees with the tables agrees with what they grow to.
LEMMA GrownHandler ==
  ASSUME NEW h, NEW rows, NEW hists, NEW envs, NEW rows2, NEW hists2, NEW envs2,
         TablesOK(rows, hists, envs), TablesOK(rows2, hists2, envs2),
         Grows(rows, hists, envs, rows2, hists2, envs2),
         HandlerOK(h, rows, hists, envs)
  PROVE  HandlerOK(h, rows2, hists2, envs2)
<1>1. h \in HandlerType(DOMAIN rows2)
  BY MoreIds DEF Grows, HandlerOK
<1>2. h.pc \in {"update", "rollback", "write"} =>
        h.id \in DOMAIN rows /\ rows2[h.id].env = rows[h.id].env
  BY HandlerCases DEF Grows, HandlerOK
<1>3. ASSUME h.pc = "write" PROVE WriteOK(h, hists2[h.id])
  <2>1. /\ h.id \in DOMAIN rows /\ h.id \in DOMAIN rows2
        /\ h.version.number \in Nat
    BY <1>3, HandlerCases DEF HandlerOK, Grows, VersionType
  <2>2. /\ Len(hists[h.id]) \in Nat /\ Len(hists2[h.id]) \in Nat
        /\ Len(hists[h.id]) <= Len(hists2[h.id])
        /\ \A n \in 1 .. Len(hists[h.id]) : hists2[h.id][n] = hists[h.id][n]
    BY <2>1, LenProperties DEF TablesOK, PipelineOK, Grows
  <2> QED
    BY <1>3, <2>1, <2>2 DEF HandlerOK, WriteOK
<1> QED
  BY <1>1, <1>2, <1>3 DEF HandlerOK, Grows

LEMMA SameTablesGrow ==
  ASSUME NEW rows, NEW hists, NEW envs, NEW envs2,
         TablesOK(rows, hists, envs), envs \subseteq envs2, envs2 \subseteq Envs
  PROVE  /\ TablesOK(rows, hists, envs2)
         /\ Grows(rows, hists, envs, rows, hists, envs2)
<1>1. \A id \in DOMAIN rows : Len(hists[id]) \in Nat
  BY LenProperties DEF TablesOK, PipelineOK
<1> QED
  BY <1>1 DEF TablesOK, Grows

\* Another pipeline.
LEMMA AddPipeline ==
  ASSUME NEW rows, NEW hists, NEW envs, TablesOK(rows, hists, envs),
         NEW row, NEW hist, PipelineOK(row, hist), row.env \in envs
  PROVE  /\ TablesOK(Append(rows, row), Append(hists, hist), envs)
         /\ Grows(rows, hists, envs, Append(rows, row), Append(hists, hist), envs)
<1> DEFINE rows2 == Append(rows, row)
           hists2 == Append(hists, hist)
<1>1. /\ rows \in Seq(RowType) /\ row \in RowType
      /\ hists \in Seq(Seq(VersionType)) /\ hist \in Seq(VersionType)
      /\ Len(hists) = Len(rows)
  BY DEF TablesOK, PipelineOK
<1>2. /\ rows2 \in Seq(RowType) /\ Len(rows2) = Len(rows) + 1
      /\ \A id \in 1 .. Len(rows) : rows2[id] = rows[id]
      /\ rows2[Len(rows) + 1] = row
  BY <1>1, AppendProperties
<1>3. /\ hists2 \in Seq(Seq(VersionType)) /\ Len(hists2) = Len(rows) + 1
      /\ \A id \in 1 .. Len(rows) : hists2[id] = hists[id]
      /\ hists2[Len(rows) + 1] = hist
  BY <1>1, AppendProperties
<1>4. /\ Len(rows) \in Nat /\ DOMAIN rows = 1 .. Len(rows)
      /\ DOMAIN rows2 = 1 .. Len(rows) + 1
  BY <1>1, <1>2, LenProperties
<1>5. \A id \in DOMAIN rows : Len(hists[id]) \in Nat
  BY LenProperties DEF TablesOK, PipelineOK
<1>6. \A id \in DOMAIN rows2 : id \in DOMAIN rows \/ id = Len(rows) + 1
  BY <1>4
<1> HIDE DEF rows2, hists2
<1>7. TablesOK(rows2, hists2, envs)
  BY <1>2, <1>3, <1>4, <1>6 DEF TablesOK
<1>8. Grows(rows, hists, envs, rows2, hists2, envs)
  BY <1>2, <1>3, <1>4, <1>5 DEF Grows
<1> QED
  BY <1>7, <1>8 DEF rows2, hists2

\* Another row, and a history that only grows, for a pipeline.
LEMMA ChangePipeline ==
  ASSUME NEW rows, NEW hists, NEW envs, TablesOK(rows, hists, envs),
         NEW id \in DOMAIN rows, NEW row, NEW hist, PipelineOK(row, hist),
         row.env = rows[id].env, Len(hists[id]) <= Len(hist),
         \A n \in 1 .. Len(hists[id]) : hist[n] = hists[id][n]
  PROVE  LET rows2 == [rows EXCEPT ![id] = row]
             hists2 == [hists EXCEPT ![id] = hist]
         IN TablesOK(rows2, hists2, envs) /\ Grows(rows, hists, envs, rows2, hists2, envs)
<1> DEFINE rows2 == [rows EXCEPT ![id] = row]
           hists2 == [hists EXCEPT ![id] = hist]
<1>1. /\ rows \in Seq(RowType) /\ row \in RowType
      /\ hists \in Seq(Seq(VersionType)) /\ hist \in Seq(VersionType)
      /\ Len(hists) = Len(rows)
  BY DEF TablesOK, PipelineOK
<1>2. DOMAIN rows = 1 .. Len(rows) /\ id \in 1 .. Len(rows) /\ id \in 1 .. Len(hists)
  BY <1>1, LenProperties
<1>3. /\ rows2 \in Seq(RowType) /\ Len(rows2) = Len(rows)
      /\ \A j \in 1 .. Len(rows) : rows2[j] = IF j = id THEN row ELSE rows[j]
  BY <1>1, <1>2, ExceptSeq
<1>4. /\ hists2 \in Seq(Seq(VersionType)) /\ Len(hists2) = Len(rows)
      /\ \A j \in 1 .. Len(rows) : hists2[j] = IF j = id THEN hist ELSE hists[j]
  BY <1>1, <1>2, ExceptSeq
<1>5. DOMAIN rows2 = 1 .. Len(rows)
  BY <1>3, LenProperties
<1>6. \A j \in DOMAIN rows : Len(hists[j]) \in Nat
  BY LenProperties DEF TablesOK, PipelineOK
<1> HIDE DEF rows2, hists2
<1>7. TablesOK(rows2, hists2, envs)
  BY <1>2, <1>3, <1>4, <1>5 DEF TablesOK
<1>8. ASSUME NEW j \in DOMAIN rows
      PROVE  /\ rows2[j].env = rows[j].env
             /\ Len(hists[j]) <= Len(hists2[j])
             /\ \A n \in 1 .. Len(hists[j]) : hists2[j][n] = hists[j][n]
  <2>1. CASE j = id
    BY <2>1, <1>2, <1>3, <1>4
  <2>2. CASE j # id
    BY <2>2, <1>2, <1>3, <1>4, <1>6
  <2> QED
    BY <2>1, <2>2
<1>9. Grows(rows, hists, envs, rows2, hists2, envs)
  BY <1>2, <1>5, <1>8 DEF Grows
<1> QED
  BY <1>7, <1>9 DEF rows2, hists2

-----------------------------------------------------------------------------
(* The steps, by what they write.                                          *)

LEMMA InitInv == Init => Inv
BY EmptySeq DEF Init, Inv, TablesOK, HandlerOK, HandlerType, Idle

\* One handler moves on, and the tables may grow.
LEMMA HandlerMoves ==
  ASSUME Inv, NEW c \in Clients, NEW h,
         TablesOK(pipelines', history', environments'), Growth,
         handler' = [handler EXCEPT ![c] = h],
         HandlerOK(h, pipelines', history', environments')
  PROVE  Inv'
<1>1. ASSUME NEW d \in Clients
      PROVE  HandlerOK(handler'[d], pipelines', history', environments')
  <2>1. CASE d = c
    BY <2>1 DEF Inv
  <2>2. CASE d # c
    <3>1. handler'[d] = handler[d]
      BY <2>2 DEF Inv
    <3>2. HandlerOK(handler[d], pipelines, history, environments)
      BY DEF Inv
    <3> QED
      BY <3>1, <3>2, GrownHandler DEF Inv, Growth
  <2> QED
    BY <2>1, <2>2
<1> QED
  BY <1>1 DEF Inv

\* One handler moves on, and the tables stay.
LEMMA HandlerReads ==
  ASSUME Inv, NEW c \in Clients, NEW h,
         UNCHANGED <<pipelines, history, environments>>,
         handler' = [handler EXCEPT ![c] = h],
         HandlerOK(h, pipelines, history, environments)
  PROVE  Inv' /\ Growth
<1>1. TablesOK(pipelines, history, environments) /\ environments \subseteq Envs
  BY DEF Inv, TablesOK
<1>2. /\ TablesOK(pipelines', history', environments') /\ Growth
  BY <1>1, SameTablesGrow DEF Growth
<1> QED
  BY <1>2, HandlerMoves

\* No handler moves on, or all are cut; the tables stay.
LEMMA TablesStay ==
  ASSUME Inv, UNCHANGED <<pipelines, history, environments>>
  PROVE  TablesOK(pipelines', history', environments') /\ Growth
<1>1. TablesOK(pipelines, history, environments) /\ environments \subseteq Envs
  BY DEF Inv, TablesOK
<1> QED
  BY <1>1, SameTablesGrow DEF Growth

LEMMA IdleOK ==
  ASSUME NEW rows, NEW hists, NEW envs, NEW h \in [pc : {"idle", "audit"}]
  PROVE  HandlerOK(h, rows, hists, envs)
BY DEF HandlerOK, HandlerType

\* What is known of the row and history of a pipeline.
LEMMA RowFacts ==
  ASSUME Inv, NEW id \in Ids
  PROVE  /\ PipelineOK(pipelines[id], history[id])
         /\ pipelines[id].env \in environments /\ pipelines[id].env \in Envs
         /\ Len(history[id]) \in Nat \ {0}
         /\ DOMAIN history[id] = 1 .. Len(history[id])
         /\ \A n \in 1 .. Len(history[id]) : history[id][n] \in VersionType
<1>1. PipelineOK(pipelines[id], history[id]) /\ pipelines[id].env \in environments
  BY DEF Inv, TablesOK, Ids
<1>2. history[id] \in Seq(VersionType) /\ pipelines[id] \in RowType
  BY <1>1 DEF PipelineOK
<1>3. Len(history[id]) \in Nat
  BY <1>2, LenProperties
<1> QED
  BY <1>1, <1>2, <1>3, LenProperties, ElementOfSeq DEF PipelineOK, RowType

\* What a request or an override brings are settings of the environment.
LEMMA OwnSettings ==
  ASSUME NEW env \in Envs, NEW config \in Configs(env)
  PROVE  config \in ConfigType /\ Home(config, env)
BY PipelineConfigAssumption DEF PipelineConfigAssumption, Configs, ConfigType, Home

LEMMA ReadsInv ==
  ASSUME Inv, NEW c \in Clients, Submit(c) PROVE Inv' /\ Growth
<1>1. ASSUME NEW env \in Envs, NEW config \in Configs(env), Create(c, env, config)
      PROVE  Inv' /\ Growth
  <2> DEFINE h == [pc |-> "ensure", env |-> env, config |-> config]
  <2>1. HandlerOK(h, pipelines, history, environments)
    BY OwnSettings DEF HandlerOK, HandlerType
  <2> QED
    BY <1>1, <2>1, HandlerReads DEF Create, Unwritten, tables
<1>2. ASSUME NEW id \in Ids, NEW config \in Configs(pipelines[id].env), Update(c, id, config)
      PROVE  Inv' /\ Growth
  <2> DEFINE h == [pc |-> "update", id |-> id, row |-> pipelines[id], config |-> config]
  <2>1. /\ pipelines[id] \in RowType /\ Home(pipelines[id].config, pipelines[id].env)
        /\ pipelines[id].env \in Envs
    BY RowFacts DEF PipelineOK
  <2>2. config \in ConfigType /\ Home(config, pipelines[id].env)
    BY <2>1, OwnSettings
  <2>3. h \in HandlerType(Ids)
    BY <2>1, <2>2 DEF HandlerType
  <2>4. HandlerOK(h, pipelines, history, environments)
    BY <2>1, <2>2, <2>3 DEF HandlerOK, Ids
  <2> QED
    BY <1>2, <2>4, HandlerReads DEF Update, Unwritten, tables
<1>3. ASSUME NEW id \in Ids, NEW target \in 1 .. MaxRequests, Rollback(c, id, target)
      PROVE  Inv' /\ Growth
  <2> DEFINE h == [pc |-> "rollback", id |-> id, row |-> pipelines[id], target |-> target]
  <2>1. pipelines[id] \in RowType /\ Home(pipelines[id].config, pipelines[id].env)
    BY RowFacts DEF PipelineOK
  <2>2. target \in Nat
    BY PipelineConfigAssumption DEF PipelineConfigAssumption
  <2>3. h \in HandlerType(Ids)
    BY <2>1, <2>2 DEF HandlerType
  <2>4. HandlerOK(h, pipelines, history, environments)
    BY <2>1, <2>3 DEF HandlerOK, Ids
  <2> QED
    BY <1>3, <2>4, HandlerReads DEF Rollback, Unwritten, tables
<1>4. ASSUME NEW id \in Ids, NEW status \in Statuses, SetStatus(c, id, status)
      PROVE  Inv' /\ Growth
  <2> DEFINE h == [pc |-> "status", id |-> id, status |-> status]
  <2>1. HandlerOK(h, pipelines, history, environments)
    BY DEF HandlerOK, HandlerType, Ids
  <2> QED
    BY <1>4, <2>1, HandlerReads DEF SetStatus, Unwritten, tables
<1>5. ASSUME NEW id \in Ids, NEW env \in Envs, NEW override \in Configs(env),
             Promote(c, id, env, override)
      PROVE  Inv' /\ Growth
  <2> DEFINE config == Last(history[id]).config
             config2 == Overridden(config, override)
             h == [pc |-> "ensure", env |-> env, config |-> config2]
  <2>1. config \in ConfigType /\ Missing(config, override) = {}
    BY <1>5, RowFacts DEF Promote, Last, VersionType
  <2>2. config2 \in ConfigType /\ Home(config2, env)
    <3>1. \A k \in Keys : config2[k] = IF override[k] # Unset THEN override[k] ELSE config[k]
      BY DEF Overridden
    <3>2. config2 \in ConfigType
      BY <2>1 DEF Overridden, ConfigType, Configs
    <3>3. ASSUME NEW k \in sensitiveKeys PROVE config2[k] \in {env, Unset}
      <4>1. k \in Keys
        BY PipelineConfigAssumption DEF PipelineConfigAssumption
      <4>2. override[k] \in {env, Unset}
        BY <4>1 DEF Configs
      <4>3. config[k] # Unset => override[k] # Unset
        BY <2>1 DEF Missing
      <4> QED
        BY <3>1, <4>1, <4>2, <4>3
    <3> QED
      BY <3>2, <3>3 DEF Home
  <2> HIDE DEF config2
  <2>3. HandlerOK(h, pipelines, history, environments)
    BY <2>2 DEF HandlerOK, HandlerType
  <2>4. handler' = [handler EXCEPT ![c] = h]
    BY <1>5 DEF Promote, config2
  <2>5. UNCHANGED <<pipelines, history, environments>>
    BY <1>5 DEF Promote, Unwritten, tables
  <2> QED
    BY <2>3, <2>4, <2>5, HandlerReads
<1> QED
  BY <1>1, <1>2, <1>3, <1>4, <1>5 DEF Submit

LEMMA UpdateHistoryInv ==
  ASSUME Inv, NEW c \in Clients, UpdateHistory(c) PROVE Inv' /\ Growth
<1> DEFINE g == handler[c]
           hist == history[g.id]
           v == NewVersion(hist, g.config)
           row == [g.row EXCEPT !.config = g.config, !.version = v.number]
           h == [pc |-> "write", id |-> g.id, version |-> v, new |-> IsNew(hist, v), row |-> row]
<1>1. /\ g.pc = "update" /\ g \in HandlerType(Ids)
      /\ g.row.env = pipelines[g.id].env /\ Home(g.config, g.row.env)
  BY DEF UpdateHistory, Inv, HandlerOK, Ids
<1>2. g.id \in Ids /\ g.row \in RowType /\ g.config \in ConfigType
  BY <1>1, HandlerCases
<1>3. /\ PipelineOK(pipelines[g.id], hist) /\ Len(hist) \in Nat \ {0}
      /\ \A n \in 1 .. Len(hist) : hist[n] \in VersionType
  BY <1>2, RowFacts
<1>4. /\ v \in VersionType /\ v.config = g.config /\ v.number \in 1 .. Len(hist) + 1
      /\ ~IsNew(hist, v) => v.number \in 1 .. Len(hist) /\ hist[v.number] = v
  <2>1. CASE hist # <<>> /\ Last(hist).config = g.config
    <3>1. v = hist[Len(hist)]
      BY <2>1 DEF NewVersion, Last
    <3>2. /\ hist[Len(hist)] \in VersionType /\ hist[Len(hist)].number = Len(hist)
          /\ hist[Len(hist)].config = g.config
      <4> HIDE DEF hist
      <4>1. Len(hist) \in 1 .. Len(hist)
        BY <1>3
      <4> QED
        BY <2>1, <4>1, <1>3 DEF PipelineOK, Last
    <3> HIDE DEF v, hist
    <3> QED
      BY <3>1, <3>2, <1>3 DEF IsNew
  <2>2. CASE ~(hist # <<>> /\ Last(hist).config = g.config)
    <3>1. v = Version(Len(hist) + 1, g.config, "update")
      BY <2>2 DEF NewVersion
    <3> QED
      BY <3>1, <1>2, <1>3 DEF IsNew, Version, VersionType
  <2> QED
    BY <2>1, <2>2
<1>5. IsNew(hist, v) \in BOOLEAN
  BY <1>3, <1>4 DEF IsNew, VersionType
<1> HIDE DEF v
<1>6. /\ row \in RowType /\ row.env = g.row.env /\ row.config = g.config
      /\ row.version = v.number
  BY <1>2, <1>4 DEF RowType, VersionType
<1> HIDE DEF row
<1>7. h \in HandlerType(Ids)
  BY <1>2, <1>4, <1>5, <1>6 DEF HandlerType
<1>8. WriteOK(h, history[h.id])
  BY <1>4, <1>6 DEF WriteOK
<1>9. HandlerOK(h, pipelines, history, environments)
  BY <1>1, <1>4, <1>6, <1>7, <1>8 DEF HandlerOK, Ids
<1>10. handler' = [handler EXCEPT ![c] = h]
  BY DEF UpdateHistory, v, row
<1>11. UNCHANGED <<pipelines, history, environments>>
  BY DEF UpdateHistory, Unwritten, tables
<1> QED
  BY <1>9, <1>10, <1>11, HandlerReads

LEMMA RollbackHistoryInv ==
  ASSUME Inv, NEW c \in Clients, RollbackHistory(c) PROVE Inv' /\ Growth
<1> DEFINE g == handler[c]
           hist == history[g.id]
           v == RollbackVersion(hist, g.target)
           row == [g.row EXCEPT !.version = v.number]
           h == [pc |-> "write", id |-> g.id, version |-> v, new |-> TRUE, row |-> row]
<1>1. /\ g.pc = "rollback" /\ g \in HandlerType(Ids)
      /\ g.row.env = pipelines[g.id].env /\ Home(g.row.config, g.row.env)
  BY DEF RollbackHistory, Inv, HandlerOK, Ids
<1>2. g.id \in Ids /\ g.row \in RowType /\ g.target \in Nat
  BY <1>1, HandlerCases
<1>3. /\ PipelineOK(pipelines[g.id], hist) /\ Len(hist) \in Nat \ {0}
      /\ DOMAIN hist = 1 .. Len(hist)
      /\ \A n \in 1 .. Len(hist) : hist[n] \in VersionType
  BY <1>2, RowFacts
<1>4. UNCHANGED <<pipelines, history, environments>>
  BY DEF RollbackHistory, Unwritten, tables
<1>5. CASE g.target \notin DOMAIN hist
  <2>1. handler' = [handler EXCEPT ![c] = Idle]
    BY <1>5 DEF RollbackHistory
  <2>2. HandlerOK(Idle, pipelines, history, environments)
    BY IdleOK DEF Idle
  <2> QED
    BY <1>4, <2>1, <2>2, HandlerReads
<1>6. CASE g.target \in DOMAIN hist
  <2>1. v = [number |-> Len(hist) + 1, config |-> hist[g.target].config, note |-> "rollback"]
    BY DEF RollbackVersion, Version
  <2>2. /\ hist[g.target] \in VersionType
        /\ Home(hist[g.target].config, pipelines[g.id].env)
    BY <1>3, <1>6 DEF PipelineOK
  <2>3. /\ v \in VersionType /\ v.note = "rollback" /\ v.number = Len(hist) + 1
        /\ Home(v.config, g.row.env)
    <3>1. hist[g.target].config \in ConfigType
      BY <2>2 DEF VersionType
    <3>2. Home(hist[g.target].config, g.row.env)
      BY <2>2, <1>1
    <3>3. v.config = hist[g.target].config
      BY <2>1
    <3> HIDE DEF v, hist, g
    <3>4. v \in VersionType /\ v.note = "rollback" /\ v.number = Len(hist) + 1
      BY ONLY <2>1, <1>3, <3>1 DEF VersionType
    <3> QED
      BY ONLY <3>2, <3>3, <3>4
  <2> HIDE DEF v
  <2>4. /\ row \in RowType /\ row.env = g.row.env /\ row.config = g.row.config
        /\ row.version = v.number
    BY <1>2, <2>3 DEF RowType, VersionType
  <2> HIDE DEF row
  <2>5. h \in HandlerType(Ids)
    BY <1>2, <2>3, <2>4 DEF HandlerType
  <2>6. WriteOK(h, history[h.id])
    BY <1>3, <2>3, <2>4 DEF WriteOK
  <2>7. HandlerOK(h, pipelines, history, environments)
    BY <1>1, <2>3, <2>4, <2>5, <2>6 DEF HandlerOK, Ids
  <2>8. handler' = [handler EXCEPT ![c] = h]
    BY <1>6 DEF RollbackHistory, v, row
  <2> QED
    BY <1>4, <2>7, <2>8, HandlerReads
<1> QED
  BY <1>5, <1>6

LEMMA EnsureEnvironmentInv ==
  ASSUME Inv, NEW c \in Clients, EnsureEnvironment(c) PROVE Inv' /\ Growth
<1> DEFINE g == handler[c]
           h == [handler[c] EXCEPT !.pc = "insert"]
<1>1. /\ g.pc = "ensure" /\ g \in HandlerType(Ids) /\ Home(g.config, g.env)
      /\ g = [pc |-> "ensure", env |-> g.env, config |-> g.config]
      /\ g.env \in Envs /\ g.config \in ConfigType
  BY HandlerCases DEF EnsureEnvironment, Inv, HandlerOK, Ids
<1>2. h = [pc |-> "insert", env |-> g.env, config |-> g.config]
  BY <1>1
<1>3. HandlerOK(h, pipelines', history', environments')
  <2> HIDE DEF h
  <2> QED
    BY <1>1, <1>2 DEF HandlerOK, HandlerType, EnsureEnvironment
<1>4. TablesOK(pipelines', history', environments') /\ Growth
  <2>1. environments \subseteq environments' /\ environments' \subseteq Envs
    BY <1>1 DEF EnsureEnvironment, Inv, TablesOK
  <2>2. UNCHANGED <<pipelines, history>>
    BY DEF EnsureEnvironment, tables
  <2> QED
    BY <2>1, <2>2, SameTablesGrow DEF Inv, Growth
<1>5. handler' = [handler EXCEPT ![c] = h]
  BY DEF EnsureEnvironment, Inv
<1> QED
  BY <1>3, <1>4, <1>5, HandlerMoves

\* A transaction that is refused changes nothing.
LEMMA RefusedInv ==
  ASSUME Inv, NEW c \in Clients, Refused(c) PROVE Inv' /\ Growth
<1>1. HandlerOK(Idle, pipelines, history, environments)
  BY IdleOK DEF Idle
<1> QED
  BY <1>1, HandlerReads DEF Refused, Unwritten, tables

\* After a commit the handler has an entry to write and nothing else.
LEMMA CommittedInv ==
  ASSUME Inv, NEW c \in Clients, Committed(c),
         TablesOK(pipelines', history', environments'), Growth
  PROVE  Inv' /\ Growth
<1>1. HandlerOK([pc |-> "audit"], pipelines', history', environments')
  BY IdleOK
<1>2. handler' = [handler EXCEPT ![c] = [pc |-> "audit"]]
  BY DEF Committed
<1> QED
  BY <1>1, <1>2, HandlerMoves

LEMMA CreatePipelineInv ==
  ASSUME Inv, NEW c \in Clients, CreatePipeline(c) PROVE Inv' /\ Growth
<1> DEFINE g == handler[c]
           row == [env |-> g.env, status |-> "active", config |-> g.config, version |-> 1]
           v == Version(1, g.config, "initial")
<1>1. /\ g.pc = "insert" /\ g.env \in environments /\ Home(g.config, g.env)
      /\ g.env \in Envs /\ g.config \in ConfigType
  BY HandlerCases DEF CreatePipeline, Inv, HandlerOK
<1>2. CASE Refused(c)
  BY <1>2, RefusedInv
<1>3. CASE /\ pipelines' = Append(pipelines, row) /\ history' = Append(history, <<v>>)
           /\ Committed(c)
  <2>1. row \in RowType /\ v \in VersionType
    BY <1>1 DEF RowType, VersionType, Version, Statuses
  <2>2. <<v>> \in Seq(VersionType) /\ Len(<<v>>) = 1 /\ <<v>>[1] = v
    BY <2>1
  <2>3. v.number = 1 /\ v.config = g.config
    BY DEF Version
  <2>4. row.env = g.env /\ row.config = g.config /\ row.version = 1
    OBVIOUS
  <2> HIDE DEF v, row
  <2>5. PipelineOK(row, <<v>>)
    BY <1>1, <2>1, <2>2, <2>3, <2>4 DEF PipelineOK
  <2>6. environments' = environments
    BY <1>3 DEF Committed
  <2>7. TablesOK(pipelines', history', environments') /\ Growth
    BY <1>1, <1>3, <2>4, <2>5, <2>6, AddPipeline DEF Inv, Growth
  <2> QED
    BY <1>3, <2>7, CommittedInv
<1> QED
  BY <1>2, <1>3 DEF CreatePipeline

\* The whole row and, when it is new, the version.
LEMMA UpdatePipelineInv ==
  ASSUME Inv, NEW c \in Clients, UpdatePipeline(c) PROVE Inv' /\ Growth
<1> DEFINE g == handler[c]
           id == g.id
           hist == history[id]
           hist2 == IF g.new THEN Append(hist, g.version) ELSE hist
<1>1. /\ g.pc = "write" /\ g \in HandlerType(Ids)
      /\ g.row.env = pipelines[id].env /\ Home(g.row.config, g.row.env)
      /\ Home(g.version.config, g.row.env) /\ WriteOK(g, hist)
  BY DEF UpdatePipeline, Inv, HandlerOK, Ids
<1>2. id \in Ids /\ g.row \in RowType /\ g.version \in VersionType /\ g.new \in BOOLEAN
  BY <1>1, HandlerCases
<1>3. /\ PipelineOK(pipelines[id], hist) /\ Len(hist) \in Nat \ {0}
      /\ DOMAIN hist = 1 .. Len(hist)
  BY <1>2, RowFacts
<1>4. CASE Refused(c)
  BY <1>4, RefusedInv
<1>5. CASE /\ ~(g.new /\ g.version.number \in DOMAIN hist) /\ Committed(c)
           /\ pipelines' = [pipelines EXCEPT ![id] = g.row]
           /\ history' = IF g.new THEN [history EXCEPT ![id] = Append(@, g.version)]
                         ELSE history
  <2>1. hist \in Seq(VersionType)
    BY <1>3 DEF PipelineOK
  <2>2. /\ hist2 \in Seq(VersionType) /\ Len(hist) <= Len(hist2) /\ Len(hist2) \in Nat
        /\ \A n \in 1 .. Len(hist) : hist2[n] = hist[n]
        /\ g.version.number \in 1 .. Len(hist2) /\ hist2[g.version.number] = g.version
        /\ \A n \in 1 .. Len(hist2) : n \in 1 .. Len(hist) \/ n = g.version.number
    <3>1. CASE g.new
      <4>1. hist2 = Append(hist, g.version) /\ g.version.number = Len(hist) + 1
        <5>1. hist2 = Append(hist, g.version)
          BY <3>1
        <5>2. g.version.number \notin 1 .. Len(hist)
          BY <3>1, <1>3, <1>5, Zenon
        <5>3. g.version.number \in 1 .. Len(hist) + 1
          BY <1>1, Zenon DEF WriteOK
        <5> HIDE DEF hist2, hist, g
        <5> QED
          BY ONLY <1>3, <5>1, <5>2, <5>3
      <4>2. /\ hist2 \in Seq(VersionType) /\ Len(hist2) = Len(hist) + 1
            /\ \A n \in 1 .. Len(hist) : hist2[n] = hist[n]
            /\ hist2[Len(hist) + 1] = g.version
        BY <4>1, <1>2, <2>1, AppendProperties
      <4> HIDE DEF hist2, hist
      <4> QED
        BY <4>1, <4>2, <1>3
    <3>2. CASE ~g.new
      BY <3>2, <1>1, <1>3, <2>1 DEF WriteOK
    <3> QED
      BY <3>1, <3>2
  <2>3. history' = [history EXCEPT ![id] = hist2]
    <3>1. history \in Seq(Seq(VersionType))
      BY DEF Inv, TablesOK
    <3>2. history = [history EXCEPT ![id] = history[id]]
      BY <3>1
    <3> QED
      BY <1>5, <3>2
  <2> HIDE DEF hist2
  <2>4. PipelineOK(g.row, hist2)
    <3>1. \A n \in 1 .. Len(hist) : hist[n].number = n /\ Home(hist[n].config, g.row.env)
      BY <1>1, <1>3 DEF PipelineOK
    <3>2. \A n \in 1 .. Len(hist2) : hist2[n].number = n /\ Home(hist2[n].config, g.row.env)
      BY <1>1, <2>2, <3>1
    <3> QED
      BY <1>1, <1>2, <2>2, <3>2 DEF PipelineOK, WriteOK
  <2>5. environments' = environments
    BY <1>5 DEF Committed
  <2>6. TablesOK(pipelines', history', environments') /\ Growth
    <3> DEFINE rows2 == [pipelines EXCEPT ![id] = g.row]
               hists2 == [history EXCEPT ![id] = hist2]
    <3>1. TablesOK(pipelines, history, environments) /\ id \in DOMAIN pipelines
      BY <1>2 DEF Inv, Ids
    <3>2. /\ TablesOK(rows2, hists2, environments)
          /\ Grows(pipelines, history, environments, rows2, hists2, environments)
      BY <3>1, <1>1, <2>2, <2>4, ChangePipeline
    <3>3. pipelines' = rows2 /\ history' = hists2
      BY <1>5, <2>3
    <3> HIDE DEF rows2, hists2
    <3> QED
      BY <3>2, <3>3, <2>5 DEF Growth
  <2> QED
    BY <1>5, <2>6, CommittedInv
<1> QED
  BY <1>4, <1>5 DEF UpdatePipeline

LEMMA WriteStatusInv ==
  ASSUME Inv, NEW c \in Clients, WriteStatus(c) PROVE Inv' /\ Growth
<1> DEFINE g == handler[c]
           id == g.id
           row == [pipelines[id] EXCEPT !.status = g.status]
<1>1. id \in Ids /\ g.status \in Statuses
  <2>1. g.pc = "status" /\ g \in HandlerType(Ids)
    BY DEF WriteStatus, Inv, HandlerOK, Ids
  <2> QED
    BY <2>1, HandlerCases
<1>2. PipelineOK(pipelines[id], history[id]) /\ Len(history[id]) \in Nat
  BY <1>1, RowFacts
<1>3. PipelineOK(row, history[id]) /\ row.env = pipelines[id].env
  <2>1. pipelines[id] \in RowType
    BY <1>2 DEF PipelineOK
  <2>2. /\ row \in RowType /\ row.env = pipelines[id].env
        /\ row.config = pipelines[id].config /\ row.version = pipelines[id].version
    BY <2>1, <1>1 DEF RowType
  <2> HIDE DEF row
  <2> QED
    BY <2>2, <1>2 DEF PipelineOK
<1>4. pipelines' = [pipelines EXCEPT ![id] = row] /\ Committed(c)
  BY DEF WriteStatus
<1>5. history' = [history EXCEPT ![id] = history[id]]
  <2>1. history \in Seq(Seq(VersionType))
    BY DEF Inv, TablesOK
  <2> QED
    BY <2>1 DEF WriteStatus
<1>6. environments' = environments
  BY <1>4 DEF Committed
<1>7. TablesOK(pipelines', history', environments') /\ Growth
  <2> DEFINE rows2 == [pipelines EXCEPT ![id] = row]
             hists2 == [history EXCEPT ![id] = history[id]]
  <2> HIDE DEF row
  <2>1. TablesOK(pipelines, history, environments) /\ id \in DOMAIN pipelines
    BY <1>1 DEF Inv, Ids
  <2>2. /\ TablesOK(rows2, hists2, environments)
        /\ Grows(pipelines, history, environments, rows2, hists2, environments)
    BY <2>1, <1>2, <1>3, ChangePipeline
  <2>3. pipelines' = rows2 /\ history' = hists2
    BY <1>4, <1>5
  <2> HIDE DEF rows2, hists2
  <2> QED
    BY <2>2, <2>3, <1>6 DEF Growth
<1> QED
  BY <1>4, <1>7, CommittedInv

LEMMA AuditInv ==
  ASSUME Inv, NEW c \in Clients, Audit(c) PROVE Inv' /\ Growth
<1>1. HandlerOK(Idle, pipelines, history, environments)
  BY IdleOK DEF Idle
<1>2. /\ handler' = [handler EXCEPT ![c] = Idle]
      /\ UNCHANGED <<pipelines, history, environments>>
  BY DEF Audit, tables
<1> QED
  BY <1>1, <1>2, HandlerReads

LEMMA RestartInv == ASSUME Inv, Restart PROVE Inv' /\ Growth
<1>1. UNCHANGED <<pipelines, history, environments>>
  BY DEF Restart, tables
<1>2. handler' = [c \in Clients |-> Idle]
  BY DEF Restart
<1>3. \A c \in Clients : HandlerOK(handler'[c], pipelines, history, environments)
  BY <1>2, IdleOK DEF Idle
<1> QED
  BY <1>1, <1>2, <1>3, TablesStay DEF Inv

LEMMA NextInv == Inv /\ [Next]_vars => Inv' /\ Growth
<1> SUFFICES ASSUME Inv, [Next]_vars PROVE Inv' /\ Growth
  OBVIOUS
<1>1. ASSUME NEW c \in Clients, Step(c) PROVE Inv' /\ Growth
  BY <1>1, UpdateHistoryInv, RollbackHistoryInv, EnsureEnvironmentInv, CreatePipelineInv,
     UpdatePipelineInv, WriteStatusInv, AuditInv DEF Step
<1>2. ASSUME UNCHANGED vars PROVE Inv' /\ Growth
  BY <1>2, TablesStay DEF vars, Inv
<1> QED
  BY <1>1, <1>2, ReadsInv, RestartInv DEF Next

-----------------------------------------------------------------------------
(* The theorems about the tables.                                          *)

LEMMA Always == Spec => []Inv
BY InitInv, NextInv, PTL DEF Spec

(***************************************************************************)
(* UpdatePipeline and CreatePipeline: whatever handlers have read, and     *)
(* however their statements interleave, the versions in                    *)
(* pipeline_config_versions are numbered from 1 without a gap or a double. *)
(***************************************************************************)
THEOREM VersionsAreNumbered == Spec => []HistoryNumbered
<1>1. Inv => HistoryNumbered
  BY RowFacts DEF HistoryNumbered, PipelineOK
<1> QED
  BY <1>1, Always, PTL

(***************************************************************************)
(* The row and its version are written in one transaction, so that the     *)
(* version a row names has the configuration that runs read from the row,  *)
(* unless it is a rollback's.                                              *)
(***************************************************************************)
THEOREM RowNamesItsVersion == Spec => []RowMatchesVersion
<1>1. Inv => RowMatchesVersion
  BY RowFacts DEF RowMatchesVersion, PipelineOK
<1> QED
  BY <1>1, Always, PTL

(***************************************************************************)
(* envs.Promote: no sequence of promotions, updates and rollbacks puts a   *)
(* setting that MissingCredentials asks for into a row or a version of     *)
(* another environment, whichever settings those are.                      *)
(***************************************************************************)
THEOREM ListedSettingsStay == Spec => []SettingsStayHome
<1>1. ASSUME Inv PROVE SettingsStayHome
  <2>1. ASSUME NEW id \in Ids,
               NEW config \in {pipelines[id].config}
                              \cup {history[id][n].config : n \in DOMAIN history[id]},
               NEW k \in sensitiveKeys
        PROVE  config[k] \in {pipelines[id].env, Unset}
    <3>1. CASE config = pipelines[id].config
      BY <1>1, <3>1, RowFacts DEF PipelineOK, Home
    <3>2. CASE \E n \in DOMAIN history[id] : config = history[id][n].config
      BY <1>1, <3>2, RowFacts DEF PipelineOK, Home
    <3> QED
      BY <3>1, <3>2
  <2> QED
    BY <2>1 DEF SettingsStayHome
<1> QED
  BY <1>1, Always, PTL

LEMMA GrowthAppends == ASSUME Inv, Inv', Growth, NEW id \in Ids PROVE IsPrefix(history[id], history'[id])
<1> DEFINE old == history[id]
           new == history'[id]
<1>1. /\ id \in Ids' /\ Len(old) <= Len(new)
      /\ \A n \in 1 .. Len(old) : new[n] = old[n]
  BY DEF Growth, Grows, Ids
<1>2. old \in Seq(VersionType) /\ new \in Seq(VersionType)
  BY <1>1 DEF Inv, TablesOK, PipelineOK, Ids
<1> HIDE DEF old, new
<1>3. Len(old) \in Nat /\ Len(new) \in Nat
  BY <1>2, LenProperties
<1>4. \A n \in 1 .. Len(old) : new[n] \in VersionType
  BY <1>1, <1>2, <1>3, ElementOfSeq
<1>5. /\ SubSeq(new, 1, Len(old)) \in Seq(VersionType)
      /\ Len(SubSeq(new, 1, Len(old))) = Len(old)
      /\ \A n \in 1 .. Len(old) : SubSeq(new, 1, Len(old))[n] = new[n]
  <2>1. 1 \in Int /\ Len(old) \in Int
    BY <1>3
  <2>2. /\ SubSeq(new, 1, Len(old)) \in Seq(VersionType)
        /\ Len(SubSeq(new, 1, Len(old))) = IF 1 <= Len(old) THEN Len(old) - 1 + 1 ELSE 0
        /\ \A n \in 1 .. Len(old) - 1 + 1 : SubSeq(new, 1, Len(old))[n] = new[1 + n - 1]
    BY <2>1, <1>4, SubSeqProperties
  <2> QED
    BY <2>2, <1>3
<1>6. SubSeq(new, 1, Len(old)) = old
  BY <1>1, <1>2, <1>5, SeqEqual
<1>7. IsPrefix(old, new)
  BY <1>1, <1>6 DEF IsPrefix
<1> QED
  BY <1>7 DEF old, new

(***************************************************************************)
(* configver: no update, import, rollback or promotion changes or removes  *)
(* a version that is there.                                                *)
(***************************************************************************)
THEOREM PastIsImmutable == Spec => HistoryAppendOnly
<1>1. Inv /\ Inv' /\ Growth => \A id \in Ids : IsPrefix(history[id], history'[id])
  BY GrowthAppends
<1>2. Inv /\ [Next]_vars
        => [\A id \in Ids : IsPrefix(history[id], history'[id])]_vars
  BY <1>1, NextInv
<1> QED
  BY <1>2, Always, PTL DEF Spec, HistoryAppendOnly

-----------------------------------------------------------------------------
(* The audit, and type correctness.                                        *)

Waiting == {c \in Clients : handler[c].pc = "audit"}
AccountInv == CountersOK /\ AuditComplete

LEMMA WaitingFinite == IsFiniteSet(Waiting) /\ Cardinality(Waiting) \in Nat
<1>1. Waiting \in SUBSET Clients /\ IsFiniteSet(Clients)
  BY PipelineConfigAssumption DEF Waiting, PipelineConfigAssumption
<1> QED
  BY <1>1, FS_Subset, FS_CardinalityType

LEMMA InitAccountInv == Init => AccountInv
<1> SUFFICES ASSUME Init PROVE AccountInv
  OBVIOUS
<1>1. Waiting = {}
  BY DEF Waiting, Init, Idle
<1>2. Cardinality(Waiting) = 0
  BY <1>1, FS_EmptySet
<1> QED
  BY <1>2, PipelineConfigAssumption
     DEF Init, AccountInv, CountersOK, AuditComplete, Waiting, PipelineConfigAssumption

\* A handler that moves on, neither to the audit nor from it.
LEMMA SameWaiting ==
  ASSUME DOMAIN handler = Clients, NEW c \in Clients, NEW h, h.pc # "audit",
         handler[c].pc # "audit", handler' = [handler EXCEPT ![c] = h]
  PROVE  Waiting' = Waiting
BY DEF Waiting

LEMMA SubmitAccounts ==
  ASSUME Inv, AccountInv, NEW c \in Clients, Submit(c) PROVE AccountInv'
<1>1. Waiting' = Waiting
  <2> USE DEF Inv, Idle
  <2>1. ASSUME NEW env \in Envs, NEW config, Create(c, env, config)
        PROVE  Waiting' = Waiting
    BY <2>1, SameWaiting DEF Create
  <2>2. ASSUME NEW id \in Ids, NEW config, Update(c, id, config) PROVE Waiting' = Waiting
    BY <2>2, SameWaiting DEF Update
  <2>3. ASSUME NEW id \in Ids, NEW target, Rollback(c, id, target)
        PROVE  Waiting' = Waiting
    BY <2>3, SameWaiting DEF Rollback
  <2>4. ASSUME NEW id \in Ids, NEW status, SetStatus(c, id, status)
        PROVE  Waiting' = Waiting
    BY <2>4, SameWaiting DEF SetStatus
  <2>5. ASSUME NEW id \in Ids, NEW env \in Envs, NEW override,
               Promote(c, id, env, override)
        PROVE  Waiting' = Waiting
    <3> DEFINE config == Last(history[id]).config
               config2 == Overridden(config, override)
    <3>1. handler' = [handler EXCEPT ![c] = [pc |-> "ensure", env |-> env, config |-> config2]]
      BY <2>5 DEF Promote
    <3>2. handler[c].pc # "audit"
      BY <2>5 DEF Promote
    <3> HIDE DEF config2
    <3> QED
      BY <3>1, <3>2, SameWaiting
  <2> QED
    BY <2>1, <2>2, <2>3, <2>4, <2>5 DEF Submit
<1>2. Request /\ UNCHANGED accounts
  BY DEF Submit, Create, Update, Rollback, SetStatus, Promote, Unwritten
<1>3. AuditComplete'
  BY <1>1, <1>2 DEF AccountInv, AuditComplete, Waiting, accounts
<1>4. CountersOK'
  BY <1>2, PipelineConfigAssumption
     DEF AccountInv, CountersOK, Request, accounts, PipelineConfigAssumption
<1> QED
  BY <1>3, <1>4 DEF AccountInv

\* The reads of a handler and a refused transaction.
LEMMA QuietAccounts ==
  ASSUME Inv, AccountInv, NEW c \in Clients, NEW h, h.pc # "audit",
         handler[c].pc # "audit", handler' = [handler EXCEPT ![c] = h],
         UNCHANGED <<accounts, requests, faults>>
  PROVE  AccountInv'
<1>1. Waiting' = Waiting
  BY SameWaiting DEF Inv
<1> QED
  BY <1>1 DEF AccountInv, CountersOK, AuditComplete, Waiting, accounts

LEMMA RefusedAccounts ==
  ASSUME Inv, AccountInv, NEW c \in Clients, handler[c].pc # "audit", Refused(c)
  PROVE  AccountInv'
BY QuietAccounts DEF Refused, Unwritten, Idle

LEMMA CommittedAccounts ==
  ASSUME Inv, AccountInv, NEW c \in Clients, handler[c].pc # "audit", Committed(c)
  PROVE  AccountInv'
<1>1. Waiting' = Waiting \cup {c} /\ c \notin Waiting
  BY DEF Waiting, Committed, Inv
<1>2. Cardinality(Waiting') = Cardinality(Waiting) + 1
  BY <1>1, WaitingFinite, FS_AddElement
<1> QED
  BY <1>2, WaitingFinite DEF AccountInv, CountersOK, AuditComplete, Waiting, Committed

LEMMA AuditAccounts ==
  ASSUME Inv, AccountInv, NEW c \in Clients, Audit(c) PROVE AccountInv'
<1>1. Waiting' = Waiting \ {c} /\ c \in Waiting
  BY DEF Waiting, Audit, Inv, Idle
<1>2. Cardinality(Waiting') = Cardinality(Waiting) - 1
  BY <1>1, WaitingFinite, FS_RemoveElement
<1>3. \/ log' = log + 1 /\ unaudited' = unaudited /\ faults' = faults
      \/ log' = log /\ unaudited' = unaudited + 1 /\ Fault
  BY DEF Audit
<1>4. changes' = changes /\ requests' = requests
  BY DEF Audit
<1> QED
  BY <1>2, <1>3, <1>4, WaitingFinite, PipelineConfigAssumption
     DEF AccountInv, CountersOK, AuditComplete, Waiting, Fault, PipelineConfigAssumption

LEMMA RestartAccounts == ASSUME Inv, AccountInv, Restart PROVE AccountInv'
<1>1. Waiting' = {}
  BY DEF Waiting, Restart, Idle
<1>2. Cardinality(Waiting') = 0
  BY <1>1, FS_EmptySet
<1>3. unaudited' = unaudited + Cardinality(Waiting) /\ UNCHANGED <<changes, log, requests>>
  BY DEF Restart, Waiting
<1> QED
  BY <1>2, <1>3, WaitingFinite, PipelineConfigAssumption
     DEF AccountInv, CountersOK, AuditComplete, Waiting, Restart, Fault,
         PipelineConfigAssumption

LEMMA NextAccountInv == Inv /\ AccountInv /\ [Next]_vars => AccountInv'
<1> SUFFICES ASSUME Inv, AccountInv, [Next]_vars PROVE AccountInv'
  OBVIOUS
<1>1. ASSUME NEW c \in Clients, UpdateHistory(c) PROVE AccountInv'
  BY <1>1, QuietAccounts DEF UpdateHistory, Unwritten
<1>2. ASSUME NEW c \in Clients, RollbackHistory(c) PROVE AccountInv'
  <2>1. CASE handler' = [handler EXCEPT ![c] = Idle]
    BY <1>2, <2>1, QuietAccounts DEF RollbackHistory, Unwritten, Idle
  <2>2. CASE handler' # [handler EXCEPT ![c] = Idle]
    BY <1>2, <2>2, QuietAccounts DEF RollbackHistory, Unwritten
  <2> QED
    BY <2>1, <2>2
<1>3. ASSUME NEW c \in Clients, EnsureEnvironment(c) PROVE AccountInv'
  <2>1. handler[c] \in HandlerType(Ids) /\ handler[c].pc = "ensure"
    BY <1>3 DEF EnsureEnvironment, Inv, HandlerOK, Ids
  <2>2. handler[c] = [pc |-> "ensure", env |-> handler[c].env, config |-> handler[c].config]
    BY <2>1, HandlerCases
  <2>3. [handler[c] EXCEPT !.pc = "insert"].pc = "insert"
    BY <2>2
  <2>4. handler' = [handler EXCEPT ![c] = [handler[c] EXCEPT !.pc = "insert"]]
    BY <1>3 DEF EnsureEnvironment, Inv
  <2> QED
    BY <1>3, <2>1, <2>3, <2>4, QuietAccounts DEF EnsureEnvironment
<1>4. ASSUME NEW c \in Clients, CreatePipeline(c) PROVE AccountInv'
  BY <1>4, RefusedAccounts, CommittedAccounts DEF CreatePipeline
<1>5. ASSUME NEW c \in Clients, UpdatePipeline(c) PROVE AccountInv'
  BY <1>5, RefusedAccounts, CommittedAccounts DEF UpdatePipeline
<1>6. ASSUME NEW c \in Clients, WriteStatus(c) PROVE AccountInv'
  BY <1>6, CommittedAccounts DEF WriteStatus
<1>8. ASSUME UNCHANGED vars PROVE AccountInv'
  BY <1>8 DEF vars, AccountInv, CountersOK, AuditComplete
<1> QED
  BY <1>1, <1>2, <1>3, <1>4, <1>5, <1>6, <1>8, SubmitAccounts, AuditAccounts,
     RestartAccounts DEF Next, Step

LEMMA AlwaysAccounts == Spec => []AccountInv
BY Always, InitAccountInv, NextAccountInv, PTL DEF Spec

(***************************************************************************)
(* audit.Log runs after the commit: each committed change has its entry,   *)
(* or its caller was told of an error or cut off, or the handler is about  *)
(* to write it.                                                            *)
(***************************************************************************)
LEMMA ChangesAreAccounted == Spec => []AuditComplete
<1>1. AccountInv => AuditComplete
  BY DEF AccountInv
<1> QED
  BY <1>1, AlwaysAccounts, PTL

(***************************************************************************)
(* The tables, the handlers and the counters keep their types; every       *)
(* handler works on a pipeline that is there.                              *)
(***************************************************************************)
THEOREM TypeCorrect == Spec => []TypeOK
<1>1. ASSUME Inv, AccountInv PROVE TypeOK
  <2>1. \A id \in Ids : history[id] # <<>> /\ pipelines[id].env \in environments
    <3>1. Len(<<>>) = 0
      BY EmptySeq
    <3> QED
      BY <1>1, <3>1, RowFacts
  <2>2. handler \in [Clients -> HandlerType(Ids)]
    BY <1>1 DEF Inv, HandlerOK, Ids
  <2> QED
    BY <1>1, <2>1, <2>2 DEF TypeOK, Inv, TablesOK, AccountInv, CountersOK
<1> QED
  BY <1>1, Always, AlwaysAccounts, PTL
=============================================================================
