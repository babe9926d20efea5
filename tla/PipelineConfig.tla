--------------------------- MODULE PipelineConfig ---------------------------
(***************************************************************************)
(* Pipelines and their configuration versions: pipelines.Service over      *)
(* pgRepo, configver, envs.Promote and the handlers that call them.  A run  *)
(* reads the row of its pipeline, when it is not archived.                 *)
(*                                                                         *)
(* A handler reads the row and the history in separate statements and      *)
(* writes in one transaction; handlers of several clients interleave, and  *)
(* the process may stop between any two steps.                             *)
(*                                                                         *)
(* Simplifications: all pipelines have one name, so an environment has at  *)
(* most one (UNIQUE (environment_id, slug)); a configuration is the        *)
(* settings of its endpoints, each named for the environment it belongs    *)
(* to, or Unset; requests that validate rejects, which change nothing, are *)
(* left out; the database fails only in audit.Log.                         *)
(***************************************************************************)
EXTENDS Naturals, Sequences, SequencesExt, FiniteSets

CONSTANTS
  Clients, Envs,
  Keys,          \* the settings of an endpoint that differ between environments
  sensitiveKeys, \* those of them that a promotion asks for: host, password, user,
                 \* database, bucket, token, url and path, but not MongoDB's uri,
                 \* the object stores' access_key, secret_key, connection_string,
                 \* account_key and endpoint, or Kafka's brokers
  MaxRequests, MaxFaults,
  Unset

ASSUME PipelineConfigAssumption ==
  /\ MaxRequests \in Nat /\ MaxFaults \in Nat
  /\ Unset \notin Envs /\ sensitiveKeys \subseteq Keys
  /\ IsFiniteSet(Clients)

VARIABLES
  pipelines,     \* the pipelines table, by id
  history,       \* the pipeline_config_versions of each pipeline
  environments,  \* the environments table
  handler,       \* where the request of each client is
  changes, log, unaudited,  \* history: committed changes, audit entries, changes
                            \* whose caller was not told that they succeeded
  requests, faults

vars == <<pipelines, history, environments, handler,
          changes, log, unaudited, requests, faults>>
tables == <<pipelines, history>>
accounts == <<changes, log, unaudited>>

Ids == DOMAIN pipelines
Statuses == {"active", "paused", "archived"}
Configs(env) == [Keys -> {env, Unset}]

Idle == [pc |-> "idle"]

Init ==
  /\ pipelines = <<>> /\ history = <<>>
  /\ environments = {}
  /\ handler = [c \in Clients |-> Idle]
  /\ changes = 0 /\ log = 0 /\ unaudited = 0
  /\ requests = 0 /\ faults = 0

Request == requests < MaxRequests /\ requests' = requests + 1 /\ UNCHANGED faults
Fault == faults < MaxFaults /\ faults' = faults + 1

-----------------------------------------------------------------------------
(* configver.                                                              *)

Version(number, config, note) == [number |-> number, config |-> config, note |-> note]

\* The next version, or the latest one when the configuration is that of it: two
\* configurations are equal when their canonical YAML is.
NewVersion(hist, config) ==
  IF hist # <<>> /\ Last(hist).config = config THEN Last(hist)
  ELSE Version(Len(hist) + 1, config, "update")

IsNew(hist, v) == v.number > Len(hist)

\* A new version with the content of an earlier one.
RollbackVersion(hist, target) == Version(Len(hist) + 1, hist[target].config, "rollback")

-----------------------------------------------------------------------------
(* Requests and their reads.                                               *)

Unwritten == <<tables, environments, accounts>>

\* POST /pipelines.
Create(c, env, config) ==
  /\ handler[c] = Idle /\ config \in Configs(env)
  /\ handler' = [handler EXCEPT ![c] = [pc |-> "ensure", env |-> env, config |-> config]]
  /\ Request
  /\ UNCHANGED Unwritten

\* PUT /pipelines/{id} and POST /pipelines/{id}/config: GetPipeline.
Update(c, id, config) ==
  /\ handler[c] = Idle /\ config \in Configs(pipelines[id].env)
  /\ handler' = [handler EXCEPT ![c] =
       [pc |-> "update", id |-> id, row |-> pipelines[id], config |-> config]]
  /\ Request
  /\ UNCHANGED Unwritten

\* POST /pipelines/{id}/rollback/{version}: GetPipeline.
Rollback(c, id, target) ==
  /\ handler[c] = Idle
  /\ handler' = [handler EXCEPT ![c] =
       [pc |-> "rollback", id |-> id, row |-> pipelines[id], target |-> target]]
  /\ Request
  /\ UNCHANGED Unwritten

\* Pause, resume and archive: the row is there; its status is not looked at.
SetStatus(c, id, status) ==
  /\ handler[c] = Idle
  /\ handler' = [handler EXCEPT ![c] = [pc |-> "status", id |-> id, status |-> status]]
  /\ Request
  /\ UNCHANGED Unwritten

\* MissingCredentials: the sensitive settings that are there and not overridden.
Missing(config, override) ==
  {k \in sensitiveKeys : config[k] # Unset /\ override[k] = Unset}

\* applyOverrides: an override wins, the other settings stay.
Overridden(config, override) ==
  [k \in Keys |-> IF override[k] # Unset THEN override[k] ELSE config[k]]

\* Fault: the credentials are looked for in the pipeline's row.
PromoteCheckingRow(c, id, env, override) ==
  /\ handler[c] = Idle /\ override \in Configs(env)
  /\ Missing(pipelines[id].config, override) = {}
  /\ handler' = [handler EXCEPT ![c] = [pc |-> "ensure", env |-> env,
       config |-> Overridden(Last(history[id]).config, override)]]
  /\ Request
  /\ UNCHANGED Unwritten

\* POST /pipelines/{id}/promote: the latest version with the overrides, unless a
\* sensitive setting of it is not among them; then as Create.
Promote(c, id, env, override) ==
  LET config == Last(history[id]).config
  IN /\ handler[c] = Idle /\ override \in Configs(env)
     /\ Missing(config, override) = {}
     /\ handler' = [handler EXCEPT ![c] = [pc |-> "ensure", env |-> env,
          config |-> Overridden(config, override)]]
     /\ Request
     /\ UNCHANGED Unwritten

\* ConfigHistory, and the version and row that Update is going to write: the
\* status is the one GetPipeline returned.
UpdateHistory(c) ==
  LET h == handler[c]
      v == NewVersion(history[h.id], h.config)
  IN /\ h.pc = "update"
     /\ handler' = [handler EXCEPT ![c] = [pc |-> "write", id |-> h.id, version |-> v,
          new |-> IsNew(history[h.id], v),
          row |-> [h.row EXCEPT !.config = h.config, !.version = v.number]]]
     /\ UNCHANGED <<Unwritten, requests, faults>>

\* ConfigHistory, and what Rollback is going to write: the row GetPipeline returned
\* with another version number.  An unknown version is refused.
RollbackHistory(c) ==
  LET h == handler[c]
  IN /\ h.pc = "rollback"
     /\ handler' = [handler EXCEPT ![c] =
          IF h.target \notin DOMAIN history[h.id] THEN Idle
          ELSE LET v == RollbackVersion(history[h.id], h.target)
               IN [pc |-> "write", id |-> h.id, version |-> v, new |-> TRUE,
                   row |-> [h.row EXCEPT !.version = v.number]]]
     /\ UNCHANGED <<Unwritten, requests, faults>>

-----------------------------------------------------------------------------
(* Transactions and the audit.                                             *)

Committed(c) ==
  /\ handler' = [handler EXCEPT ![c] = [pc |-> "audit"]]
  /\ changes' = changes + 1
  /\ UNCHANGED <<environments, log, unaudited, requests, faults>>

Refused(c) ==
  /\ handler' = [handler EXCEPT ![c] = Idle]
  /\ UNCHANGED <<Unwritten, requests, faults>>

\* The environment is made before, and outside, the transaction.
EnsureEnvironment(c) ==
  /\ handler[c].pc = "ensure"
  /\ environments' = environments \cup {handler[c].env}
  /\ handler' = [handler EXCEPT ![c].pc = "insert"]
  /\ UNCHANGED <<tables, accounts, requests, faults>>

\* The row and version 1, unless the environment has a pipeline of the name.
CreatePipeline(c) ==
  LET h == handler[c]
  IN /\ h.pc = "insert"
     /\ IF \E id \in Ids : pipelines[id].env = h.env THEN Refused(c)
        ELSE /\ pipelines' = Append(pipelines,
                  [env |-> h.env, status |-> "active", config |-> h.config, version |-> 1])
             /\ history' = Append(history, <<Version(1, h.config, "initial")>>)
             /\ Committed(c)

\* Fault: versions are not unique in the table.
UpdatePipelineAnyNumber(c) ==
  LET h == handler[c]
  IN /\ h.pc = "write"
     /\ pipelines' = [pipelines EXCEPT ![h.id] = h.row]
     /\ history' = IF h.new THEN [history EXCEPT ![h.id] = Append(@, h.version)] ELSE history
     /\ Committed(c)

\* Fault: the row is written before the transaction begins.
UpdatePipelineTorn(c) ==
  LET h == handler[c]
  IN /\ h.pc = "write"
     /\ pipelines' = [pipelines EXCEPT ![h.id] = h.row]
     /\ IF h.new /\ h.version.number \in DOMAIN history[h.id]
        THEN /\ handler' = [handler EXCEPT ![c] = Idle]
             /\ UNCHANGED <<history, environments, accounts, requests, faults>>
        ELSE /\ history' = IF h.new THEN [history EXCEPT ![h.id] = Append(@, h.version)]
                           ELSE history
             /\ Committed(c)

\* One transaction: the whole row, and the version when it is new.  The table has a
\* number of a pipeline once (UNIQUE (pipeline_id, version)).
UpdatePipeline(c) ==
  LET h == handler[c]
  IN /\ h.pc = "write"
     /\ IF h.new /\ h.version.number \in DOMAIN history[h.id] THEN Refused(c)
        ELSE /\ pipelines' = [pipelines EXCEPT ![h.id] = h.row]
             /\ history' = IF h.new THEN [history EXCEPT ![h.id] = Append(@, h.version)]
                           ELSE history
             /\ Committed(c)

WriteStatus(c) ==
  LET h == handler[c]
  IN /\ h.pc = "status"
     /\ pipelines' = [pipelines EXCEPT ![h.id].status = h.status]
     /\ history' = history
     /\ Committed(c)

\* audit.Log after the commit: when it fails the request reports an error although
\* the change is there.
Audit(c) ==
  /\ handler[c].pc = "audit"
  /\ \/ log' = log + 1 /\ UNCHANGED <<unaudited, faults>>
     \/ Fault /\ unaudited' = unaudited + 1 /\ log' = log
  /\ handler' = [handler EXCEPT ![c] = Idle]
  /\ UNCHANGED <<tables, environments, changes, requests>>

-----------------------------------------------------------------------------
\* Requests in progress are cut; what they committed stays.
Restart ==
  /\ Fault
  /\ handler' = [c \in Clients |-> Idle]
  /\ unaudited' = unaudited + Cardinality({c \in Clients : handler[c].pc = "audit"})
  /\ UNCHANGED <<tables, environments, changes, log, requests>>

Submit(c) ==
  \/ \E env \in Envs : \E config \in Configs(env) : Create(c, env, config)
  \/ \E id \in Ids :
       \/ \E config \in Configs(pipelines[id].env) : Update(c, id, config)
       \/ \E target \in 1 .. MaxRequests : Rollback(c, id, target)
       \/ \E status \in Statuses : SetStatus(c, id, status)
       \/ \E env \in Envs : \E override \in Configs(env) : Promote(c, id, env, override)

Step(c) ==
  \/ UpdateHistory(c) \/ RollbackHistory(c)
  \/ EnsureEnvironment(c) \/ CreatePipeline(c) \/ UpdatePipeline(c) \/ WriteStatus(c)
  \/ Audit(c)

Next ==
  \/ \E c \in Clients : Submit(c) \/ Step(c)
  \/ Restart

Spec == Init /\ [][Next]_vars
-----------------------------------------------------------------------------
(* Properties.                                                             *)

ConfigType == [Keys -> Envs \cup {Unset}]
RowType == [env : Envs, status : Statuses, config : ConfigType, version : Nat \ {0}]
VersionType ==
  [number : Nat \ {0}, config : ConfigType, note : {"initial", "update", "rollback"}]

HandlerType(ids) ==
  [pc : {"idle", "audit"}]
  \cup [pc : {"ensure", "insert"}, env : Envs, config : ConfigType]
  \cup [pc : {"update"}, id : ids, row : RowType, config : ConfigType]
  \cup [pc : {"rollback"}, id : ids, row : RowType, target : Nat]
  \cup [pc : {"status"}, id : ids, status : Statuses]
  \cup [pc : {"write"}, id : ids, version : VersionType, new : BOOLEAN, row : RowType]

\* The tables and the handlers keep their types; every pipeline has an environment,
\* an initial version and a handler works on a pipeline that is there.
TypeOK ==
  /\ pipelines \in Seq(RowType)
  /\ history \in Seq(Seq(VersionType)) /\ Len(history) = Len(pipelines)
  /\ \A id \in Ids : history[id] # <<>> /\ pipelines[id].env \in environments
  /\ environments \subseteq Envs
  /\ handler \in [Clients -> HandlerType(Ids)]
  /\ changes \in Nat /\ log \in Nat /\ unaudited \in Nat
  /\ requests \in 0 .. MaxRequests /\ faults \in 0 .. MaxFaults

\* However the reads and writes of several handlers interleave, the versions of a
\* pipeline are numbered from 1 without a gap or a double.
HistoryNumbered ==
  \A id \in Ids : \A n \in DOMAIN history[id] : history[id][n].number = n

\* The past is immutable: no update, import, rollback or promotion changes or
\* removes a version.
HistoryAppendOnly ==
  [][\A id \in Ids : IsPrefix(history[id], history'[id])]_vars

\* The version a row names has the configuration that runs read from the row,
\* unless that version is a rollback's.
RowMatchesVersion ==
  \A id \in Ids :
    LET v == history[id][pipelines[id].version]
    IN /\ pipelines[id].version \in DOMAIN history[id]
       /\ v.note = "rollback" \/ v.config = pipelines[id].config

\* A setting of another environment that a row, which runs read, or a version of a
\* pipeline has is one that promotions do not ask for, whatever is promoted, rolled
\* back or updated in between.  (Those travel: a promotion carries along what is not
\* on the list.)
SettingsStayHome ==
  \A id \in Ids :
    LET configs ==
          {pipelines[id].config} \cup {history[id][n].config : n \in DOMAIN history[id]}
    IN \A config \in configs, k \in sensitiveKeys :
          config[k] \in {pipelines[id].env, Unset}

\* Every committed change is in the audit log, or its caller was told of an error
\* or cut off, or the handler is about to write the entry.
AuditComplete ==
  changes = log + unaudited + Cardinality({c \in Clients : handler[c].pc = "audit"})

\* A rollback restores: from its commit on, a run reads the configuration of the
\* version it makes.
RollbackRestores ==
  [][\A id \in Ids :
       (Len(history'[id]) > Len(history[id]) /\ Last(history'[id]).note = "rollback")
         => pipelines'[id].config = Last(history'[id]).config]_vars

=============================================================================
