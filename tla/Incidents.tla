----------------------------- MODULE Incidents -----------------------------
(***************************************************************************)
(* Alerting: rules.Engine.Evaluate on ingested events, the incidents and   *)
(* rules tables, channel delivery, the escalation worker, and the admin    *)
(* endpoints that acknowledge, snooze, resolve and delete.                 *)
(*                                                                         *)
(* Evaluators are the ingesting goroutines: two runs of a pipeline can be  *)
(* ingested at once (Scheduler!RunNow).  The escalation worker is one      *)
(* goroutine.  A restart of the backend forgets everything but the tables. *)
(*                                                                         *)
(* Simplifications: one pipeline; time is the choice of when a delay       *)
(* elapses, when the rule cache expires and when quiet hours begin and     *)
(* end; the database does not fail; a policy has the steps it had when the *)
(* rule was created (no endpoint edits one); maintenance windows, which no *)
(* endpoint sets, are left out.  A rule created disabled stays so and is   *)
(* never loaded: it is as good as absent.  Nothing checks the channel ids  *)
(* of a rule: they may name a channel that is not there, or not yet.       *)
(***************************************************************************)
EXTENDS Naturals, Sequences, FiniteSets

CONSTANTS
  Rules, Channels, Events, Evaluators,
  InitialRules, InitialChannels, \* the rules and channels there from the start
  KindOf,       \* the kind (and stream) of each event: what a fingerprint keeps of it
  Matches,      \* the events a rule's condition matches
  ChannelsOf,   \* the channel ids each rule names, in order
  QuietRules,   \* the rules with quiet hours
  PolicySteps,  \* the number of steps of each rule's policy, or NoPolicy
  BrokenRules,  \* the rules whose policy names an on-call schedule that is not there
  WorkerEvents, \* the events that the anomaly and quality workers emit
  MaxEvents, MaxRequests, MaxFaults,
  NoPolicy, NoEvent

ASSUME IncidentsAssumption ==
  /\ ChannelsOf \in [Rules -> Seq(Channels)]
  /\ Matches \in [Rules -> SUBSET Events]
  /\ PolicySteps \in [Rules -> Nat \cup {NoPolicy}]
  /\ NoPolicy \notin Nat
  /\ {InitialRules, QuietRules, BrokenRules} \subseteq SUBSET Rules
  /\ InitialChannels \subseteq Channels
  /\ WorkerEvents \subseteq Events /\ DOMAIN KindOf = Events
  /\ NoEvent \notin Events
  /\ {MaxEvents, MaxRequests, MaxFaults} \subseteq Nat

VARIABLES
  ruleState,    \* the rules table
  channelState, \* the channels table; an id is not used again
  incidents,    \* the incidents table; paged, late, muted and tried are history
  cache,        \* CachedLoader's entry for the pipeline
  eval,         \* where each evaluator is
  due,          \* what is left of the worker's list of due incidents
  current,      \* the incident the worker has notified and not yet advanced
  emitted,      \* history: the workers' events that were handed to Ingest
  events, requests, faults   \* counters of the bounds

vars == <<ruleState, channelState, incidents, cache, eval, due, current, emitted,
          events, requests, faults>>
tables == <<ruleState, channelState>>
worker == <<due, current>>
counters == <<events, requests, faults>>

Ids == 1 .. Len(incidents)
LiveRules == {r \in Rules : ruleState[r] = "live"}
Fingerprint(r, e) == <<r, KindOf[e]>>
RuleOf(i) == incidents[i].fp[1]
Unresolved(fp) == {i \in Ids : incidents[i].fp = fp /\ incidents[i].status # "resolved"}

Idle == [pc |-> "idle", event |-> NoEvent, rules |-> {}, id |-> 0, targets |-> <<>>]
NotDue == [id |-> 0, step |-> 0]
NoEntry == [fresh |-> FALSE, rules |-> {}]

Init ==
  /\ ruleState = [r \in Rules |-> IF r \in InitialRules THEN "live" ELSE "absent"]
  /\ channelState = [c \in Channels |-> IF c \in InitialChannels THEN "live" ELSE "absent"]
  /\ incidents = <<>>
  /\ cache = NoEntry
  /\ eval = [v \in Evaluators |-> Idle]
  /\ due = {} /\ current = NotDue
  /\ emitted = {}
  /\ events = 0 /\ requests = 0 /\ faults = 0

-----------------------------------------------------------------------------
(* Ingest and Evaluate.                                                    *)

\* Go on with the rules that are left.
Continue(e, ruleSet) ==
  IF ruleSet = {} THEN Idle
  ELSE [Idle EXCEPT !.pc = "next", !.event = e, !.rules = ruleSet]

\* An event is stored and handed to the processor: CachedLoader.LoadRules takes
\* the cached set, unless it has expired, and the rules of it that match remain.
Ingest(v, e) ==
  /\ eval[v].pc = "idle" /\ events < MaxEvents
  /\ e \notin WorkerEvents
  /\ \E ruleSet \in {LiveRules} \cup (IF cache.fresh THEN {cache.rules} ELSE {}) :
       /\ cache' = [fresh |-> TRUE, rules |-> ruleSet]
       /\ eval' = [eval EXCEPT ![v] = Continue(e, {r \in ruleSet : e \in Matches[r]})]
  /\ events' = events + 1
  /\ UNCHANGED <<tables, incidents, worker, emitted, requests, faults>>

\* The workers write pipeline_id as a number and Event declares it as a text, so
\* the line does not decode and Ingest passes over it.
PassOver(e) ==
  /\ e \in WorkerEvents /\ events < MaxEvents
  /\ emitted' = emitted \cup {e}
  /\ events' = events + 1
  /\ UNCHANGED <<tables, incidents, cache, eval, worker, requests, faults>>

\* FindOpenIncident for the next rule; the set has no order.
FindOpenIncident(v, r) ==
  /\ eval[v].pc = "next" /\ r \in eval[v].rules
  /\ LET open == Unresolved(Fingerprint(r, eval[v].event))
     IN eval' = [eval EXCEPT ![v] =
          [pc |-> IF open = {} THEN "create" ELSE "bump", event |-> @.event,
           rules |-> @.rules \ {r}, id |-> IF open = {} THEN 0 ELSE CHOOSE i \in open : TRUE,
           targets |-> <<r>>]]
  /\ UNCHANGED <<tables, incidents, cache, worker, emitted, counters>>

\* The dedup path: the count grows whatever has become of the incident since.
BumpIncident(v) ==
  /\ eval[v].pc = "bump"
  /\ incidents' = [incidents EXCEPT ![eval[v].id].count = @ + 1]
  /\ eval' = [eval EXCEPT ![v] = Continue(@.event, @.rules)]
  /\ UNCHANGED <<tables, cache, worker, emitted, counters>>

\* Evaluate ends, with an error or at the end of the rule set.
EndEvaluation(v) == eval' = [eval EXCEPT ![v] = Idle]

NewIncident(r, fp, mute) ==
  [fp |-> fp, status |-> "open", count |-> 1, step |-> 0,
   timer |-> IF PolicySteps[r] = NoPolicy THEN "none" ELSE "set",
   muted |-> mute, tried |-> {}, paged |-> {}, late |-> 0]

\* The insert, and the choice to dispatch: not in quiet hours.  The unique index on
\* the fingerprints of unresolved incidents refuses a second thread.
InsertIncident(v) ==
  \E mute \in BOOLEAN :
    LET r == eval[v].targets[1]
        silent == mute \/ ChannelsOf[r] = <<>>
    IN /\ mute => r \in QuietRules
       /\ incidents' = Append(incidents, NewIncident(r, Fingerprint(r, eval[v].event), mute))
       /\ eval' = [eval EXCEPT ![v] =
            IF silent THEN Continue(@.event, @.rules)
            ELSE [pc |-> "send", event |-> @.event, rules |-> @.rules,
                  id |-> Len(incidents) + 1, targets |-> ChannelsOf[r]]]

\* Fault: the table has no unique index on open fingerprints.
CreateIncidentUnchecked(v) ==
  /\ eval[v].pc = "create"
  /\ InsertIncident(v)
  /\ UNCHANGED <<tables, cache, worker, emitted, counters>>

CreateIncident(v) ==
  /\ eval[v].pc = "create"
  /\ IF Unresolved(Fingerprint(eval[v].targets[1], eval[v].event)) = {}
     THEN InsertIncident(v)
     ELSE EndEvaluation(v) /\ incidents' = incidents
  /\ UNCHANGED <<tables, cache, worker, emitted, counters>>

\* Fault: dispatch returns at the first delivery that fails.
SendAborting(v) ==
  LET rest == Tail(eval[v].targets)
  IN /\ eval[v].pc = "send"
     /\ incidents' = [incidents EXCEPT ![eval[v].id].tried = @ \cup {Head(eval[v].targets)}]
     /\ \E delivered \in BOOLEAN :
          eval' = [eval EXCEPT ![v] = IF ~delivered THEN Idle
                                      ELSE IF rest = <<>> THEN Continue(@.event, @.rules)
                                      ELSE [@ EXCEPT !.targets = rest]]
     /\ UNCHANGED <<tables, cache, worker, emitted, counters>>

\* dispatch: one attempt for each channel, whether or not the delivery succeeds.
\* The alerts table refuses a row for a rule or a channel that is not there, and
\* that error ends the evaluation.
SendAndRecord(v) ==
  LET rest == Tail(eval[v].targets)
      channel == Head(eval[v].targets)
  IN /\ eval[v].pc = "send"
     /\ incidents' = [incidents EXCEPT ![eval[v].id].tried = @ \cup {channel}]
     /\ IF channelState[channel] = "live" /\ ruleState[RuleOf(eval[v].id)] = "live"
        THEN eval' = [eval EXCEPT ![v] = IF rest = <<>> THEN Continue(@.event, @.rules)
                                         ELSE [@ EXCEPT !.targets = rest]]
        ELSE EndEvaluation(v)
     /\ UNCHANGED <<tables, cache, worker, emitted, counters>>

Fault == faults < MaxFaults /\ faults' = faults + 1

-----------------------------------------------------------------------------
(* The escalation worker.                                                  *)

\* Fault: the query of due incidents forgets the status.
DueIncidentsAnyStatus == {i \in Ids : incidents[i].timer = "set"}

\* Open incidents with a policy and a next_escalation_at; any of them may be due.
DueIncidents == {i \in Ids : incidents[i].status = "open" /\ incidents[i].timer = "set"}

\* Tick reads once the incidents whose delay has run out, with the step each has
\* reached: CreateIncident and AdvanceEscalation set a delay of any length.
Tick ==
  /\ due = {} /\ current = NotDue
  /\ \E late \in SUBSET DueIncidents :
       /\ late # {}
       /\ due' = {[id |-> i, step |-> incidents[i].step] : i \in late}
  /\ UNCHANGED <<tables, incidents, cache, eval, current, emitted, counters>>

\* A policy or an on-call schedule that is not there or cannot be loaded is an
\* error, which ends the tick.
EscalateFails(d) ==
  /\ current = NotDue /\ d \in due
  /\ \/ RuleOf(d.id) \in BrokenRules /\ d.step < PolicySteps[RuleOf(d.id)] /\ faults' = faults
     \/ Fault
  /\ due' = {}
  /\ UNCHANGED <<tables, incidents, cache, eval, current, emitted, events, requests>>

\* Fault: a step that has targets to notify is counted before they are.
NotifyAdvancing(d) ==
  /\ current = NotDue /\ d \in due
  /\ RuleOf(d.id) \notin BrokenRules /\ d.step < PolicySteps[RuleOf(d.id)]
  /\ IF incidents[d.id].step = d.step
     THEN /\ incidents' = [incidents EXCEPT ![d.id].step = d.step + 1,
               ![d.id].timer = IF d.step + 1 < PolicySteps[RuleOf(d.id)] THEN "set" ELSE "none"]
          /\ UNCHANGED <<current, due>>
     ELSE /\ incidents' = [incidents EXCEPT ![d.id].paged = @ \cup {d.step}]
          /\ current' = d /\ due' = due \ {d}
  /\ UNCHANGED <<tables, cache, eval, emitted, counters>>

\* Send to every target of the step; failed deliveries are passed over.
Notify(d) ==
  /\ current = NotDue /\ d \in due
  /\ RuleOf(d.id) \notin BrokenRules /\ d.step < PolicySteps[RuleOf(d.id)]
  /\ incidents' = [incidents EXCEPT ![d.id].paged = @ \cup {d.step},
                     ![d.id].late = IF incidents[d.id].status = "open" THEN @ ELSE @ + 1]
  /\ current' = d
  /\ due' = due \ {d}
  /\ UNCHANGED <<tables, cache, eval, emitted, counters>>

\* The next step and its delay, or no further escalation, whatever the status.
AdvanceEscalation ==
  /\ current # NotDue
  /\ LET next == current.step + 1
     IN incidents' = [incidents EXCEPT ![current.id].step = next,
          ![current.id].timer = IF next < PolicySteps[RuleOf(current.id)] THEN "set" ELSE "none"]
  /\ current' = NotDue
  /\ UNCHANGED <<tables, cache, eval, due, emitted, counters>>

\* Fault: a policy that is exhausted keeps its due time.
ExhaustKeepingDue(d) ==
  /\ current = NotDue /\ d \in due
  /\ d.step >= PolicySteps[RuleOf(d.id)]
  /\ due' = due \ {d}
  /\ UNCHANGED <<tables, incidents, cache, eval, current, emitted, counters>>

\* A policy without steps: the due time is cleared.
Exhaust(d) ==
  /\ current = NotDue /\ d \in due
  /\ d.step >= PolicySteps[RuleOf(d.id)]
  /\ incidents' = [incidents EXCEPT ![d.id].timer = "none"]
  /\ due' = due \ {d}
  /\ UNCHANGED <<tables, cache, eval, current, emitted, counters>>

-----------------------------------------------------------------------------
(* The admin endpoints, of which users make MaxRequests requests; restarts. *)

Request ==
  /\ requests < MaxRequests
  /\ requests' = requests + 1
  /\ UNCHANGED <<events, faults>>

SetStatus(i, from, to) ==
  /\ i \in Ids /\ incidents[i].status \in from
  /\ incidents' = [incidents EXCEPT ![i].status = to]
  /\ UNCHANGED <<tables, cache, eval, worker, emitted>>
  /\ Request

AckIncident(i) == SetStatus(i, {"open", "snoozed"}, "acked")
SnoozeIncident(i) == SetStatus(i, {"open", "acked"}, "snoozed")
ResolveIncident(i) == SetStatus(i, {"open", "acked", "snoozed"}, "resolved")

CreateRule(r) ==
  /\ ruleState[r] = "absent"
  /\ ruleState' = [ruleState EXCEPT ![r] = "live"]
  /\ UNCHANGED <<channelState, incidents, cache, eval, worker, emitted, counters>>

DeleteRule(r) ==
  /\ ruleState[r] = "live"
  /\ ruleState' = [ruleState EXCEPT ![r] = "deleted"]
  /\ UNCHANGED <<channelState, incidents, cache, eval, worker, emitted>>
  /\ Request

CreateChannel(c) ==
  /\ channelState[c] = "absent"
  /\ channelState' = [channelState EXCEPT ![c] = "live"]
  /\ UNCHANGED <<ruleState, incidents, cache, eval, worker, emitted, counters>>

DeleteChannel(c) ==
  /\ channelState[c] = "live"
  /\ channelState' = [channelState EXCEPT ![c] = "deleted"]
  /\ UNCHANGED <<ruleState, incidents, cache, eval, worker, emitted>>
  /\ Request

\* What is in memory is lost: events being evaluated, the list of the tick, the cache.
Restart ==
  /\ Fault
  /\ eval' = [v \in Evaluators |-> Idle]
  /\ due' = {} /\ current' = NotDue
  /\ cache' = NoEntry
  /\ UNCHANGED <<tables, incidents, emitted, events, requests>>

-----------------------------------------------------------------------------
Evaluate(v) ==
  \/ BumpIncident(v) \/ CreateIncident(v) \/ SendAndRecord(v)
  \/ \E r \in Rules : FindOpenIncident(v, r)

Escalate == \E d \in due : EscalateFails(d) \/ Notify(d) \/ Exhaust(d)

Admin ==
  \/ \E i \in Ids : AckIncident(i) \/ SnoozeIncident(i) \/ ResolveIncident(i)
  \/ \E r \in Rules : CreateRule(r) \/ DeleteRule(r)
  \/ \E c \in Channels : CreateChannel(c) \/ DeleteChannel(c)

Next ==
  \/ \E v \in Evaluators, e \in Events : Ingest(v, e)
  \/ \E e \in Events : PassOver(e)
  \/ \E v \in Evaluators : Evaluate(v)
  \/ Tick \/ Escalate \/ AdvanceEscalation
  \/ Admin \/ Restart

\* The goroutines run, the ticker ticks and delays run out; users owe nothing.
Fairness ==
  /\ \A v \in Evaluators : WF_vars(Evaluate(v))
  /\ WF_vars(Tick) /\ WF_vars(Escalate) /\ WF_vars(AdvanceEscalation)

Spec == Init /\ [][Next]_vars /\ Fairness
-----------------------------------------------------------------------------
(* Properties.                                                             *)

IncidentType ==
  [fp : {Fingerprint(r, e) : r \in Rules, e \in Events},
   status : {"open", "acked", "snoozed", "resolved"},
   count : Nat \ {0}, step : Nat, timer : {"none", "set"},
   muted : BOOLEAN, tried : SUBSET Channels, paged : SUBSET Nat, late : Nat]

\* The tables and the goroutines keep their types.
TypeOK ==
  /\ ruleState \in [Rules -> {"absent", "live", "deleted"}]
  /\ channelState \in [Channels -> {"absent", "live", "deleted"}]
  /\ incidents \in Seq(IncidentType)
  /\ cache \in [fresh : BOOLEAN, rules : SUBSET Rules]
  /\ \A v \in Evaluators :
       /\ eval[v].pc \in {"idle", "next", "bump", "create", "send"}
       /\ eval[v].event \in Events \cup {NoEvent} /\ eval[v].rules \subseteq Rules
       /\ eval[v].id \in 0 .. Len(incidents)
  /\ \A d \in due \cup {current} : d.id \in 0 .. Len(incidents) /\ d.step \in Nat
  /\ emitted \subseteq WorkerEvents
  /\ events \in 0 .. MaxEvents /\ requests \in 0 .. MaxRequests
  /\ faults \in 0 .. MaxFaults

\* A storm is one thread: however the evaluations of two runs interleave between
\* FindOpenIncident and CreateIncident, a fingerprint has one unresolved incident.
OneOpenThread ==
  \A i, j \in Ids :
    /\ incidents[i].fp = incidents[j].fp
    /\ incidents[i].status # "resolved" /\ incidents[j].status # "resolved"
    => i = j

\* Escalation climbs in order and skips nobody: the steps notified are those up to
\* the incident's step, and the one above it while Tick is between Send and
\* AdvanceEscalation or was stopped there; when nothing more is due all were.
NobodySkipped ==
  \A i \in Ids :
    LET inc == incidents[i]
        last == PolicySteps[RuleOf(i)]
    IN last # NoPolicy =>
         /\ inc.paged \in {0 .. inc.step - 1, 0 .. inc.step}
         /\ inc.timer = "none" => inc.paged = 0 .. last - 1

\* An acknowledgement (or a snooze, or a resolution) that comes while a tick works
\* on its list stops the escalation after at most one more step.
OnePageAfterAck == \A i \in Ids : incidents[i].late <= 1

\* An incident opened outside quiet hours is offered to the channels of its rule in
\* order, whatever deliveries fail; the offer goes to the end unless the backend
\* restarts, or the rule or the channel reached last is not there any more (or, of a
\* channel, was not there yet): RecordAlert's error cuts it there.
FirstAlertReachesAll ==
  \A i \in Ids :
    LET inc == incidents[i]
        names == ChannelsOf[RuleOf(i)]
    IN IF inc.muted THEN inc.tried = {}
       ELSE \E n \in 0 .. Len(names) :
              /\ inc.tried = {names[k] : k \in 1 .. n}
              /\ \/ n = Len(names)
                 \/ \E v \in Evaluators : eval[v].pc = "send" /\ eval[v].id = i
                 \/ faults > 0
                 \/ n > 0 /\ \/ ruleState[RuleOf(i)] = "deleted"
                             \/ channelState[names[n]] = "deleted"
                             \/ names[n] \notin InitialChannels

\* An open incident climbs its policy to the end unless somebody reacts, even when
\* the backend restarts in the middle of a step.
UnackedClimbs ==
  <>[](\A i \in Ids : incidents[i].status = "open" => incidents[i].timer = "none")

\* A breach that a worker emits opens or finds the incident of every rule on it.
BreachesReachRules ==
  [][\A e \in emitted' \ emitted, r \in LiveRules :
       e \in Matches[r] => \E i \in DOMAIN incidents' : incidents'[i].fp = Fingerprint(r, e)]_vars

=============================================================================
