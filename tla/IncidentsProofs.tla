-------------------------- MODULE IncidentsProofs --------------------------
(***************************************************************************)
(* Proofs about Incidents, for any rules, channels, policies, evaluators   *)
(* and bounds: types; one unresolved incident for a fingerprint; that      *)
(* escalation climbs in order and skips no step; that at most one page     *)
(* follows an acknowledgement; how far the first alert of an incident      *)
(* gets through the channels of its rule.                                  *)
(***************************************************************************)
EXTENDS Incidents, SequenceTheorems, TLAPS

-----------------------------------------------------------------------------
(* The inductive invariant.                                                *)

\* Escalation of one incident: a step above the last one notified, or that one, for as
\* long as there are steps; a page after a reaction is the only one.
ClimbOK(inc) ==
  LET last == PolicySteps[inc.fp[1]]
  IN /\ inc.timer = "set" => last # NoPolicy
     /\ last # NoPolicy =>
          /\ inc.step <= last
          /\ inc.paged = 0 .. inc.step - 1 \/ (inc.step < last /\ inc.paged = 0 .. inc.step)
          /\ inc.timer = "none" => inc.step = last
     /\ inc.late \in {0, 1} /\ (inc.late = 1 => inc.status # "open")

IncidentsOK ==
  /\ incidents \in Seq(IncidentType)
  /\ \A i \in Ids : ClimbOK(incidents[i])

\* What an evaluator carries from step to step; n is the number of incidents.
EvalType(n) ==
  [pc : {"idle", "next", "bump", "create", "send"}, event : Events \cup {NoEvent},
   rules : SUBSET Rules, id : 0 .. n, targets : Seq(Rules \cup Channels)]

EvalOK(e, n) ==
  /\ e \in EvalType(n)
  /\ e.pc # "idle" => e.event \in Events
  /\ e.pc \in {"bump", "send"} => e.id # 0
  /\ e.pc = "create" => e.targets[1] \in Rules
  /\ e.pc = "send" => e.targets # <<>> /\ e.targets \in Seq(Channels)

EvalsOK ==
  /\ eval = [v \in Evaluators |-> eval[v]]
  /\ \A v \in Evaluators : EvalOK(eval[v], Len(incidents))

\* An incident on the worker's list has the step it had when the list was read.
ListedOK(d, inc) == d.step = inc.step /\ inc.timer = "set"

DueOK ==
  /\ due \subseteq [id : Ids, step : Nat]
  /\ \A d \in due : ListedOK(d, incidents[d.id]) /\ incidents[d.id].late = 0

CurrentOK ==
  current # NotDue =>
    /\ current \in [id : Ids, step : Nat]
    /\ ListedOK(current, incidents[current.id])
    /\ current.step < PolicySteps[incidents[current.id].fp[1]]
    /\ incidents[current.id].paged = 0 .. current.step
    /\ \A d \in due : d.id # current.id

OthersOK ==
  /\ ruleState \in [Rules -> {"absent", "live", "deleted"}]
  /\ channelState \in [Channels -> {"absent", "live", "deleted"}]
  /\ cache \in [fresh : BOOLEAN, rules : SUBSET Rules]
  /\ emitted \subseteq WorkerEvents
  /\ events \in 0 .. MaxEvents /\ requests \in 0 .. MaxRequests
  /\ faults \in 0 .. MaxFaults

Inv ==
  /\ IncidentsOK /\ EvalsOK /\ DueOK /\ CurrentOK /\ OthersOK
  /\ OneOpenThread

-----------------------------------------------------------------------------
(* Incidents.                                                              *)

LEMMA IncidentFacts ==
  ASSUME IncidentsOK, NEW i \in Ids
  PROVE  /\ incidents[i] \in IncidentType /\ ClimbOK(incidents[i])
         /\ incidents[i].fp[1] \in Rules /\ PolicySteps[incidents[i].fp[1]] \in Nat \cup {NoPolicy}
<1>1. incidents[i] \in IncidentType /\ ClimbOK(incidents[i])
  BY ElementOfSeq DEF IncidentsOK, Ids
<1>2. incidents[i].fp[1] \in Rules
  BY <1>1 DEF IncidentType, Fingerprint
<1> QED
  BY <1>1, <1>2, IncidentsAssumption DEF IncidentsAssumption

\* An incident that is updated keeps its place and the others stay as they are.
LEMMA ChangeIncident ==
  ASSUME IncidentsOK, NEW i \in Ids, NEW inc \in IncidentType, ClimbOK(inc),
         incidents' = [incidents EXCEPT ![i] = inc]
  PROVE  /\ IncidentsOK' /\ Len(incidents') = Len(incidents) /\ Ids' = Ids
         /\ \A j \in Ids : incidents'[j] = IF j = i THEN inc ELSE incidents[j]
<1>1. incidents \in Seq(IncidentType) /\ i \in 1 .. Len(incidents)
  BY DEF IncidentsOK, Ids
<1>2. /\ incidents' \in Seq(IncidentType) /\ Len(incidents') = Len(incidents)
      /\ \A j \in 1 .. Len(incidents) : incidents'[j] = IF j = i THEN inc ELSE incidents[j]
  BY <1>1, ExceptSeq
<1> QED
  BY <1>2 DEF IncidentsOK, Ids

\* Nothing that is resolved opens again, so that one thread stays one.
LEMMA SameThread ==
  ASSUME IncidentsOK, OneOpenThread, NEW i \in Ids, NEW inc \in IncidentType, ClimbOK(inc),
         incidents' = [incidents EXCEPT ![i] = inc],
         inc.fp = incidents[i].fp, incidents[i].status = "resolved" => inc.status = "resolved"
  PROVE  OneOpenThread'
<1>1. /\ Ids' = Ids
      /\ \A j \in Ids : incidents'[j] = IF j = i THEN inc ELSE incidents[j]
  BY ChangeIncident
<1>2. \A j \in Ids : /\ incidents'[j].fp = incidents[j].fp
                     /\ incidents'[j].status # "resolved" => incidents[j].status # "resolved"
  BY <1>1
<1> QED
  BY <1>1, <1>2 DEF OneOpenThread

LEMMA AddIncident ==
  ASSUME IncidentsOK, NEW inc \in IncidentType, ClimbOK(inc),
         incidents' = Append(incidents, inc)
  PROVE  /\ IncidentsOK' /\ Len(incidents') = Len(incidents) + 1
         /\ Ids' = Ids \cup {Len(incidents) + 1} /\ Len(incidents) + 1 \notin Ids
         /\ \A j \in Ids : incidents'[j] = incidents[j]
         /\ incidents'[Len(incidents) + 1] = inc
<1>1. incidents \in Seq(IncidentType) /\ Len(incidents) \in Nat
  BY LenProperties DEF IncidentsOK
<1>2. /\ incidents' \in Seq(IncidentType) /\ Len(incidents') = Len(incidents) + 1
      /\ \A j \in 1 .. Len(incidents) : incidents'[j] = incidents[j]
      /\ incidents'[Len(incidents) + 1] = inc
  BY <1>1, AppendProperties
<1>3. Ids' = Ids \cup {Len(incidents) + 1} /\ Len(incidents) + 1 \notin Ids
  BY <1>1, <1>2 DEF Ids
<1> QED
  BY <1>2, <1>3 DEF IncidentsOK, Ids

\* A thread that is opened where none is unresolved is the only one.
LEMMA NewThread ==
  ASSUME IncidentsOK, OneOpenThread, NEW inc \in IncidentType, ClimbOK(inc),
         incidents' = Append(incidents, inc), Unresolved(inc.fp) = {}
  PROVE  OneOpenThread'
<1>1. /\ Ids' = Ids \cup {Len(incidents) + 1} /\ Len(incidents) + 1 \notin Ids
      /\ \A j \in Ids : incidents'[j] = incidents[j]
      /\ incidents'[Len(incidents) + 1] = inc
  BY AddIncident
<1>2. \A j \in Ids : incidents[j].fp = inc.fp => incidents[j].status = "resolved"
  BY DEF Unresolved
<1> DEFINE Apart(i, j) ==
      /\ incidents'[i].fp = incidents'[j].fp
      /\ incidents'[i].status # "resolved" /\ incidents'[j].status # "resolved"
      => i = j
<1>3. ASSUME NEW i \in Ids, NEW j \in Ids PROVE Apart(i, j)
  BY <1>1, <1>3 DEF OneOpenThread
<1>4. ASSUME NEW i \in Ids
      PROVE  Apart(i, Len(incidents) + 1) /\ Apart(Len(incidents) + 1, i)
  BY <1>1, <1>2, <1>4
<1>5. Apart(Len(incidents) + 1, Len(incidents) + 1)
  OBVIOUS
<1> HIDE DEF Apart
<1>6. \A i \in Ids', j \in Ids' : Apart(i, j)
  BY <1>1, <1>3, <1>4, <1>5
<1> QED
  BY <1>6 DEF OneOpenThread, Apart

-----------------------------------------------------------------------------
(* Evaluators.                                                             *)

LEMMA IdleOK == ASSUME NEW n \in Nat PROVE EvalOK(Idle, n)
BY EmptySeq DEF EvalOK, EvalType, Idle

LEMMA ContinueOK ==
  ASSUME NEW n \in Nat, NEW e \in Events, NEW ruleSet \in SUBSET Rules
  PROVE  EvalOK(Continue(e, ruleSet), n)
<1>1. CASE ruleSet = {}
  BY <1>1, IdleOK DEF Continue
<1>2. CASE ruleSet # {}
  <2>1. Continue(e, ruleSet) = [pc |-> "next", event |-> e, rules |-> ruleSet,
                                id |-> 0, targets |-> <<>>]
    BY <1>2 DEF Continue, Idle
  <2>2. <<>> \in Seq(Rules \cup Channels)
    BY EmptySeq
  <2> QED
    BY <2>1, <2>2 DEF EvalOK, EvalType
<1> QED
  BY <1>1, <1>2

\* One evaluator moves on; the incidents do not get fewer.
LEMMA EvaluatorMoves ==
  ASSUME EvalsOK, NEW v \in Evaluators, NEW e, EvalOK(e, Len(incidents')),
         Len(incidents) \in Nat, Len(incidents') \in Nat, Len(incidents) <= Len(incidents'),
         eval' = [eval EXCEPT ![v] = e]
  PROVE  EvalsOK'
<1>1. ASSUME NEW w \in Evaluators PROVE EvalOK(eval'[w], Len(incidents'))
  <2>1. CASE w = v
    BY <2>1 DEF EvalsOK
  <2>2. CASE w # v
    <3>1. eval'[w] = eval[w] /\ EvalOK(eval[w], Len(incidents))
      BY <2>2 DEF EvalsOK
    <3> HIDE DEF EvalsOK
    <3> QED
      BY <3>1 DEF EvalOK, EvalType
  <2> QED
    BY <2>1, <2>2
<1> QED
  BY <1>1 DEF EvalsOK

LEMMA OneEvaluatorMoves ==
  ASSUME EvalsOK, IncidentsOK, NEW v \in Evaluators, NEW e, EvalOK(e, Len(incidents)),
         Len(incidents') = Len(incidents), eval' = [eval EXCEPT ![v] = e]
  PROVE  EvalsOK'
<1>1. Len(incidents) \in Nat
  BY LenProperties DEF IncidentsOK
<1>2. EvalOK(e, Len(incidents')) /\ Len(incidents') \in Nat /\ Len(incidents) <= Len(incidents')
  BY <1>1
<1> HIDE DEF EvalOK, EvalsOK
<1> QED
  BY <1>1, <1>2, EvaluatorMoves

LEMMA EvaluatorsStay ==
  ASSUME EvalsOK, Len(incidents') = Len(incidents), eval' = eval PROVE EvalsOK'
BY DEF EvalsOK

\* What evaluators and users change of an incident is not what the worker knows of it.
LEMMA WorkerStays ==
  ASSUME DueOK, CurrentOK, Ids \subseteq Ids', UNCHANGED worker,
         \A j \in Ids : /\ incidents'[j].step = incidents[j].step
                       /\ incidents'[j].timer = incidents[j].timer
                       /\ incidents'[j].late = incidents[j].late
                       /\ incidents'[j].fp = incidents[j].fp
                       /\ incidents'[j].paged = incidents[j].paged
  PROVE  DueOK' /\ CurrentOK'
<1>1. DueOK'
  BY DEF DueOK, ListedOK, worker
<1>2. CurrentOK'
  BY DEF CurrentOK, ListedOK, worker, NotDue
<1> QED
  BY <1>1, <1>2

LEMMA IncidentsStay ==
  ASSUME IncidentsOK, OneOpenThread, UNCHANGED incidents
  PROVE  IncidentsOK' /\ OneOpenThread' /\ Ids' = Ids
BY DEF IncidentsOK, OneOpenThread, Ids

LEMMA LenNat == ASSUME IncidentsOK PROVE Len(incidents) \in Nat
BY LenProperties DEF IncidentsOK

\* An evaluator or a user updates an incident.
LEMMA OutsideUpdate ==
  ASSUME Inv, NEW i \in Ids, NEW inc \in IncidentType,
         incidents' = [incidents EXCEPT ![i] = inc],
         inc.fp = incidents[i].fp, inc.step = incidents[i].step,
         inc.timer = incidents[i].timer, inc.late = incidents[i].late,
         inc.paged = incidents[i].paged,
         incidents[i].status = "resolved" => inc.status = "resolved",
         inc.status = "open" => incidents[i].status = "open",
         UNCHANGED worker
  PROVE  /\ IncidentsOK' /\ OneOpenThread' /\ DueOK' /\ CurrentOK'
         /\ Len(incidents') = Len(incidents)
<1>1. ClimbOK(inc)
  <2>1. ClimbOK(incidents[i])
    BY IncidentFacts DEF Inv
  <2> QED
    BY <2>1 DEF ClimbOK
<1>2. /\ IncidentsOK' /\ Len(incidents') = Len(incidents) /\ Ids' = Ids
      /\ \A j \in Ids : incidents'[j] = IF j = i THEN inc ELSE incidents[j]
  BY <1>1, ChangeIncident DEF Inv
<1>3. OneOpenThread'
  BY <1>1, SameThread DEF Inv
<1>4. DueOK' /\ CurrentOK'
  BY <1>2, WorkerStays DEF Inv
<1> QED
  BY <1>2, <1>3, <1>4

-----------------------------------------------------------------------------
(* The steps of the evaluators.                                            *)

\* An evaluator that goes on to the channels of a new incident, and to the next one.
LEMMA SendingOK ==
  ASSUME NEW n \in Nat, NEW e \in Events, NEW ruleSet \in SUBSET Rules,
         NEW id \in 1 .. n, NEW targets \in Seq(Channels), targets # <<>>
  PROVE  EvalOK([pc |-> "send", event |-> e, rules |-> ruleSet, id |-> id,
                 targets |-> targets], n)
<1>1. targets \in Seq(Rules \cup Channels)
  OBVIOUS
<1> QED
  BY <1>1 DEF EvalOK, EvalType

LEMMA NextChannelOK ==
  ASSUME NEW n \in Nat, NEW e, EvalOK(e, n), e.pc = "send",
         NEW targets \in Seq(Channels), targets # <<>>
  PROVE  EvalOK([e EXCEPT !.targets = targets], n)
<1> DEFINE f == [e EXCEPT !.targets = targets]
<1>1. targets \in Seq(Rules \cup Channels) /\ e \in EvalType(n)
  BY DEF EvalOK
<1>2. f \in EvalType(n)
  BY <1>1 DEF EvalType
<1>3. f.pc = "send" /\ f.event = e.event /\ f.id = e.id /\ f.targets = targets
  BY <1>1 DEF EvalType
<1> HIDE DEF f
<1>4. EvalOK(f, n)
  BY <1>2, <1>3 DEF EvalOK
<1> QED
  BY <1>4 DEF f

LEMMA TriedType ==
  ASSUME NEW old \in IncidentType, NEW channel \in Channels
  PROVE  LET inc == [old EXCEPT !.tried = @ \cup {channel}]
         IN /\ inc \in IncidentType /\ inc.fp = old.fp /\ inc.step = old.step
            /\ inc.timer = old.timer /\ inc.late = old.late
            /\ inc.paged = old.paged /\ inc.status = old.status
BY DEF IncidentType

LEMMA TriedGrows ==
  ASSUME NEW old \in IncidentType, NEW channel \in Channels
  PROVE  LET inc == [old EXCEPT !.tried = @ \cup {channel}]
         IN inc.muted = old.muted /\ inc.tried = old.tried \cup {channel}
BY DEF IncidentType

LEMMA InitInv == Init => Inv
<1> SUFFICES ASSUME Init PROVE Inv
  OBVIOUS
<1>1. incidents = <<>> /\ Len(incidents) = 0 /\ Ids = {}
  BY DEF Init, Ids
<1>2. IncidentsOK /\ OneOpenThread
  BY <1>1, EmptySeq DEF IncidentsOK, OneOpenThread
<1>3. EvalsOK
  BY <1>1, IdleOK DEF Init, EvalsOK
<1>4. DueOK /\ CurrentOK
  BY DEF Init, DueOK, CurrentOK
<1>5. OthersOK
  BY IncidentsAssumption DEF Init, OthersOK, NoEntry, IncidentsAssumption
<1> QED
  BY <1>2, <1>3, <1>4, <1>5 DEF Inv

LEMMA IngestInv ==
  ASSUME Inv, NEW v \in Evaluators, NEW e \in Events, Ingest(v, e) PROVE Inv'
<1>1. PICK ruleSet \in SUBSET Rules :
        /\ cache' = [fresh |-> TRUE, rules |-> ruleSet]
        /\ eval' = [eval EXCEPT ![v] = Continue(e, {r \in ruleSet : e \in Matches[r]})]
  BY DEF Ingest, LiveRules, Inv, OthersOK
<1>2. /\ events < MaxEvents /\ events' = events + 1
      /\ UNCHANGED <<ruleState, channelState, incidents, due, current, emitted, requests, faults>>
  BY DEF Ingest, tables, worker
<1>3. OthersOK'
  BY <1>1, <1>2, IncidentsAssumption DEF Inv, OthersOK, IncidentsAssumption
<1>4. EvalsOK'
  <2> DEFINE f == Continue(e, {r \in ruleSet : e \in Matches[r]})
  <2>1. EvalOK(f, Len(incidents))
    BY ContinueOK, LenNat DEF Inv
  <2> HIDE DEF f
  <2>2. eval' = [eval EXCEPT ![v] = f]
    BY <1>1 DEF f
  <2> QED
    BY <1>2, <2>1, <2>2, OneEvaluatorMoves DEF Inv
<1>5. IncidentsOK' /\ OneOpenThread' /\ DueOK' /\ CurrentOK'
  BY <1>2, IncidentsStay, WorkerStays DEF Inv, worker
<1> QED
  BY <1>3, <1>4, <1>5 DEF Inv

LEMMA FindOpenIncidentInv ==
  ASSUME Inv, NEW v \in Evaluators, NEW r \in Rules, FindOpenIncident(v, r) PROVE Inv'
<1> DEFINE open == Unresolved(Fingerprint(r, eval[v].event))
           e == [pc |-> IF open = {} THEN "create" ELSE "bump", event |-> eval[v].event,
                 rules |-> eval[v].rules \ {r},
                 id |-> IF open = {} THEN 0 ELSE CHOOSE i \in open : TRUE,
                 targets |-> <<r>>]
<1>1. EvalOK(eval[v], Len(incidents)) /\ eval[v].pc = "next"
  BY DEF Inv, EvalsOK, FindOpenIncident
<1>2. eval' = [eval EXCEPT ![v] = e]
  BY DEF FindOpenIncident
<1>3. open \subseteq Ids /\ (open # {} => (CHOOSE i \in open : TRUE) \in Ids)
  BY DEF Unresolved
<1>4. <<r>> \in Seq(Rules \cup Channels) /\ <<r>>[1] = r
  OBVIOUS
<1> HIDE DEF open
<1>5. EvalOK(e, Len(incidents))
  BY <1>1, <1>3, <1>4, LenNat DEF EvalOK, EvalType, Inv, Ids
<1> HIDE DEF e
<1>6. UNCHANGED <<ruleState, channelState, incidents, cache, due, current, emitted, events,
                  requests, faults>>
  BY DEF FindOpenIncident, tables, worker, counters
<1>7. EvalsOK'
  BY <1>2, <1>5, <1>6, OneEvaluatorMoves DEF Inv
<1>8. IncidentsOK' /\ OneOpenThread' /\ DueOK' /\ CurrentOK'
  BY <1>6, IncidentsStay, WorkerStays DEF Inv, worker
<1> QED
  BY <1>6, <1>7, <1>8 DEF Inv, OthersOK

LEMMA BumpIncidentInv ==
  ASSUME Inv, NEW v \in Evaluators, BumpIncident(v) PROVE Inv'
<1> DEFINE i == eval[v].id
           inc == [incidents[i] EXCEPT !.count = @ + 1]
<1>1. EvalOK(eval[v], Len(incidents)) /\ eval[v].pc = "bump"
  BY DEF Inv, EvalsOK, BumpIncident
<1>2. i \in Ids /\ eval[v].event \in Events /\ eval[v].rules \in SUBSET Rules
  BY <1>1, LenNat DEF EvalOK, EvalType, Ids, Inv
<1>3. incidents[i] \in IncidentType
  BY <1>2, IncidentFacts DEF Inv
<1>4. incidents' = [incidents EXCEPT ![i] = inc]
  BY DEF BumpIncident
<1>5. /\ inc \in IncidentType /\ inc.fp = incidents[i].fp /\ inc.step = incidents[i].step
      /\ inc.timer = incidents[i].timer /\ inc.late = incidents[i].late
      /\ inc.paged = incidents[i].paged /\ inc.status = incidents[i].status
  BY <1>3 DEF IncidentType
<1> HIDE DEF inc
<1>6. UNCHANGED <<ruleState, channelState, cache, due, current, emitted, events, requests, faults>>
  BY DEF BumpIncident, tables, worker, counters
<1>7. /\ IncidentsOK' /\ OneOpenThread' /\ DueOK' /\ CurrentOK'
      /\ Len(incidents') = Len(incidents)
  BY <1>2, <1>4, <1>5, <1>6, OutsideUpdate DEF worker
<1>8. eval' = [eval EXCEPT ![v] = Continue(eval[v].event, eval[v].rules)]
  BY DEF BumpIncident, Inv, EvalsOK
<1>9. EvalsOK'
  <2>1. EvalOK(Continue(eval[v].event, eval[v].rules), Len(incidents))
    BY <1>2, ContinueOK, LenNat DEF Inv
  <2> QED
    BY <1>7, <1>8, <2>1, OneEvaluatorMoves DEF Inv
<1> QED
  BY <1>6, <1>7, <1>9 DEF Inv, OthersOK

LEMMA EndEvaluationOK ==
  ASSUME EvalsOK, IncidentsOK, NEW v \in Evaluators, EndEvaluation(v),
         Len(incidents') = Len(incidents)
  PROVE  EvalsOK'
<1>1. EvalOK(Idle, Len(incidents))
  BY IdleOK, LenNat
<1> HIDE DEF EvalsOK, IncidentsOK
<1> QED
  BY <1>1, OneEvaluatorMoves DEF EndEvaluation

\* The insert is guarded by the unique index, not by what FindOpenIncident found.
LEMMA CreateIncidentInv ==
  ASSUME Inv, NEW v \in Evaluators, CreateIncident(v) PROVE Inv'
<1> DEFINE r == eval[v].targets[1]
           fp == Fingerprint(r, eval[v].event)
           n == Len(incidents)
<1>1. EvalOK(eval[v], n) /\ eval[v].pc = "create"
  BY DEF Inv, EvalsOK, CreateIncident
<1>2. r \in Rules /\ eval[v].event \in Events /\ eval[v].rules \in SUBSET Rules /\ n \in Nat
  BY <1>1, LenNat DEF EvalOK, EvalType, Inv
<1>3. UNCHANGED <<ruleState, channelState, cache, due, current, emitted, events, requests, faults>>
  BY DEF CreateIncident, tables, worker, counters
<1>4. CASE Unresolved(fp) # {}
  <2>1. EndEvaluation(v) /\ incidents' = incidents
    BY <1>4 DEF CreateIncident
  <2>2. EvalsOK'
    BY <2>1, EndEvaluationOK DEF Inv
  <2>3. IncidentsOK' /\ OneOpenThread' /\ DueOK' /\ CurrentOK'
    BY <1>3, <2>1, IncidentsStay, WorkerStays DEF Inv, worker
  <2> QED
    BY <1>3, <2>2, <2>3 DEF Inv, OthersOK
<1>5. CASE Unresolved(fp) = {}
  <2>1. PICK mute \in BOOLEAN :
          /\ incidents' = Append(incidents, NewIncident(r, fp, mute))
          /\ eval' = [eval EXCEPT ![v] =
               IF mute \/ ChannelsOf[r] = <<>> THEN Continue(@.event, @.rules)
               ELSE [pc |-> "send", event |-> @.event, rules |-> @.rules, id |-> n + 1,
                     targets |-> ChannelsOf[r]]]
    BY <1>5 DEF CreateIncident, InsertIncident
  <2> DEFINE inc == NewIncident(r, fp, mute)
  <2>2. /\ inc = [fp |-> fp, status |-> "open", count |-> 1, step |-> 0,
                  timer |-> IF PolicySteps[r] = NoPolicy THEN "none" ELSE "set",
                  muted |-> mute, tried |-> {}, paged |-> {}, late |-> 0]
        /\ fp \in {Fingerprint(q, e) : q \in Rules, e \in Events} /\ fp[1] = r
        /\ PolicySteps[r] \in Nat \cup {NoPolicy} /\ NoPolicy \notin Nat
    BY <1>2, IncidentsAssumption DEF NewIncident, Fingerprint, IncidentsAssumption
  <2>3. inc \in IncidentType /\ inc.fp = fp
    BY <2>2 DEF IncidentType
  <2>4. ClimbOK(inc)
    <3>1. 0 .. 0 - 1 = {}
      OBVIOUS
    <3> HIDE DEF fp
    <3> QED
      BY <2>2, <3>1 DEF ClimbOK
  <2> HIDE DEF inc
  <2>5. /\ IncidentsOK' /\ Len(incidents') = n + 1 /\ Ids \subseteq Ids'
        /\ \A j \in Ids : incidents'[j] = incidents[j]
    BY <2>1, <2>3, <2>4, AddIncident DEF Inv, inc
  <2>6. OneOpenThread'
    BY <1>5, <2>1, <2>3, <2>4, NewThread DEF Inv, inc
  <2>7. DueOK' /\ CurrentOK'
    BY <1>3, <2>5, WorkerStays DEF Inv, worker
  <2>8. EvalsOK'
    <3> DEFINE sending == [pc |-> "send", event |-> eval[v].event, rules |-> eval[v].rules,
                           id |-> n + 1, targets |-> ChannelsOf[r]]
               going == Continue(eval[v].event, eval[v].rules)
               next == IF mute \/ ChannelsOf[r] = <<>> THEN going ELSE sending
    <3>1. EvalOK(going, n + 1)
      BY <1>2, ContinueOK
    <3>2. ASSUME ChannelsOf[r] # <<>> PROVE EvalOK(sending, n + 1)
      <4>1. ChannelsOf[r] \in Seq(Channels)
        BY <1>2, IncidentsAssumption DEF IncidentsAssumption
      <4>2. n + 1 \in 1 .. n + 1 /\ n + 1 \in Nat
        BY <1>2
      <4> QED
        BY <1>2, <3>2, <4>1, <4>2, SendingOK
    <3> HIDE DEF going, sending
    <3>4. EvalOK(next, n + 1)
      BY <3>1, <3>2
    <3>5. eval' = [eval EXCEPT ![v] = next]
      BY <2>1 DEF going, sending
    <3> HIDE DEF next
    <3>6. EvalOK(next, Len(incidents')) /\ Len(incidents') \in Nat /\ n <= Len(incidents')
      BY <1>2, <2>5, <3>4
    <3> QED
      BY <1>2, <3>5, <3>6, EvaluatorMoves DEF Inv
  <2> QED
    BY <1>3, <2>5, <2>6, <2>7, <2>8 DEF Inv, OthersOK
<1> QED
  BY <1>4, <1>5

LEMMA SendAndRecordInv ==
  ASSUME Inv, NEW v \in Evaluators, SendAndRecord(v) PROVE Inv'
<1> DEFINE i == eval[v].id
           channel == Head(eval[v].targets)
           rest == Tail(eval[v].targets)
           inc == [incidents[i] EXCEPT !.tried = @ \cup {channel}]
           n == Len(incidents)
<1>1. EvalOK(eval[v], n) /\ eval[v].pc = "send"
  BY DEF Inv, EvalsOK, SendAndRecord
<1>2. /\ i \in Ids /\ eval[v].event \in Events /\ eval[v].rules \in SUBSET Rules
      /\ eval[v].targets # <<>> /\ eval[v].targets \in Seq(Channels)
      /\ n \in Nat
  BY <1>1, LenNat DEF EvalOK, EvalType, Ids, Inv
<1>3. channel \in Channels /\ rest \in Seq(Channels)
  BY <1>2, HeadTailProperties
<1>4. incidents[i] \in IncidentType
  BY <1>2, IncidentFacts DEF Inv
<1>5. /\ inc \in IncidentType /\ inc.fp = incidents[i].fp /\ inc.step = incidents[i].step
      /\ inc.timer = incidents[i].timer /\ inc.late = incidents[i].late
      /\ inc.paged = incidents[i].paged /\ inc.status = incidents[i].status
  BY <1>3, <1>4, TriedType
<1>6. incidents' = [incidents EXCEPT ![i] = inc]
  BY DEF SendAndRecord
<1> HIDE DEF inc
<1>7. UNCHANGED <<ruleState, channelState, cache, due, current, emitted, events, requests, faults>>
  BY DEF SendAndRecord, tables, worker, counters
<1>8. /\ IncidentsOK' /\ OneOpenThread' /\ DueOK' /\ CurrentOK' /\ Len(incidents') = n
  BY <1>2, <1>5, <1>6, <1>7, OutsideUpdate DEF worker
<1>9. EvalsOK'
  <2>1. CASE EndEvaluation(v)
    BY <1>8, <2>1, EndEvaluationOK DEF Inv
  <2>2. CASE eval' = [eval EXCEPT ![v] = IF rest = <<>> THEN Continue(@.event, @.rules)
                                         ELSE [@ EXCEPT !.targets = rest]]
    <3> DEFINE going == Continue(eval[v].event, eval[v].rules)
               sending == [eval[v] EXCEPT !.targets = rest]
    <3>1. CASE rest = <<>>
      <4>1. EvalOK(going, n)
        BY <1>2, ContinueOK
      <4>2. eval' = [eval EXCEPT ![v] = going]
        BY <2>2, <3>1
      <4> HIDE DEF going
      <4> QED
        BY <1>8, <4>1, <4>2, OneEvaluatorMoves DEF Inv
    <3>2. CASE rest # <<>>
      <4>3. EvalOK(sending, n)
        BY <1>1, <1>2, <1>3, <3>2, NextChannelOK
      <4>4. eval' = [eval EXCEPT ![v] = sending]
        BY <2>2, <3>2
      <4> HIDE DEF sending
      <4> QED
        BY <1>8, <4>3, <4>4, OneEvaluatorMoves DEF Inv
    <3> QED
      BY <3>1, <3>2
  <2> QED
    BY <2>1, <2>2 DEF SendAndRecord
<1> QED
  BY <1>7, <1>8, <1>9 DEF Inv, OthersOK

-----------------------------------------------------------------------------
(* The steps of the worker.                                                *)

\* What is known of an incident on the worker's list.
LEMMA DueFacts ==
  ASSUME Inv, NEW d \in due
  PROVE  /\ d.id \in Ids /\ d.step \in Nat /\ d = [id |-> d.id, step |-> d.step]
         /\ incidents[d.id] \in IncidentType /\ ClimbOK(incidents[d.id])
         /\ d.step = incidents[d.id].step /\ incidents[d.id].timer = "set"
         /\ incidents[d.id].late = 0 /\ PolicySteps[incidents[d.id].fp[1]] \in Nat
         /\ \A e \in due : e.id = d.id => e = d
<1>1. /\ \A e \in due : /\ e.id \in Ids /\ e.step \in Nat /\ e = [id |-> e.id, step |-> e.step]
                        /\ e.step = incidents[e.id].step
      /\ incidents[d.id].timer = "set" /\ incidents[d.id].late = 0
  BY DEF Inv, DueOK, ListedOK
<1>2. /\ incidents[d.id] \in IncidentType /\ ClimbOK(incidents[d.id])
      /\ PolicySteps[incidents[d.id].fp[1]] \in Nat \cup {NoPolicy}
  BY <1>1, IncidentFacts DEF Inv
<1>3. PolicySteps[incidents[d.id].fp[1]] # NoPolicy
  BY <1>1, <1>2 DEF ClimbOK
<1> QED
  BY <1>1, <1>2, <1>3

\* The worker updates the incident it is at, and nothing else.
LEMMA WorkerUpdate ==
  ASSUME Inv, NEW i \in Ids, NEW inc \in IncidentType, ClimbOK(inc),
         incidents' = [incidents EXCEPT ![i] = inc],
         inc.fp = incidents[i].fp, inc.status = incidents[i].status,
         UNCHANGED <<ruleState, channelState, cache, eval, emitted, events, requests, faults>>,
         DueOK', CurrentOK'
  PROVE  Inv'
<1>1. IncidentsOK' /\ Len(incidents') = Len(incidents) /\ OneOpenThread'
  BY ChangeIncident, SameThread DEF Inv
<1>2. EvalsOK'
  BY <1>1, EvaluatorsStay DEF Inv
<1> QED
  BY <1>1, <1>2 DEF Inv, OthersOK

LEMMA TickInv == ASSUME Inv, Tick PROVE Inv'
<1>1. /\ UNCHANGED <<ruleState, channelState, incidents, cache, eval, current, emitted, events,
                     requests, faults>>
      /\ current = NotDue
  BY DEF Tick, tables, counters
<1>2. DueOK'
  <2>1. PICK late \in SUBSET DueIncidents :
          due' = {[id |-> i, step |-> incidents[i].step] : i \in late}
    BY DEF Tick
  <2>2. ASSUME NEW i \in late
        PROVE  /\ i \in Ids /\ incidents[i].step \in Nat /\ incidents[i].timer = "set"
               /\ incidents[i].late = 0
    <3>1. i \in Ids /\ incidents[i].status = "open" /\ incidents[i].timer = "set"
      BY DEF DueIncidents
    <3>2. incidents[i] \in IncidentType /\ ClimbOK(incidents[i])
      BY <3>1, IncidentFacts DEF Inv
    <3> QED
      BY <3>1, <3>2 DEF IncidentType, ClimbOK
  <2>3. Ids' = Ids /\ incidents' = incidents
    BY <1>1 DEF Ids
  <2> QED
    BY <2>1, <2>2, <2>3 DEF DueOK, ListedOK
<1>3. CurrentOK'
  BY <1>1 DEF CurrentOK
<1>4. IncidentsOK' /\ OneOpenThread' /\ EvalsOK'
  BY <1>1, IncidentsStay, EvaluatorsStay DEF Inv
<1> QED
  BY <1>1, <1>2, <1>3, <1>4 DEF Inv, OthersOK

LEMMA EscalateFailsInv == ASSUME Inv, NEW d \in due, EscalateFails(d) PROVE Inv'
<1>1. /\ UNCHANGED <<ruleState, channelState, incidents, cache, eval, current, emitted, events,
                     requests>>
      /\ current = NotDue /\ due' = {} /\ (faults' = faults \/ Fault)
  BY DEF EscalateFails, tables
<1>2. DueOK' /\ CurrentOK'
  BY <1>1 DEF DueOK, CurrentOK
<1>3. IncidentsOK' /\ OneOpenThread' /\ EvalsOK'
  BY <1>1, IncidentsStay, EvaluatorsStay DEF Inv
<1>4. OthersOK'
  BY <1>1, IncidentsAssumption DEF Inv, OthersOK, Fault, IncidentsAssumption
<1> QED
  BY <1>2, <1>3, <1>4 DEF Inv

\* The other incidents of the list stay as they were listed.
LEMMA RestOfList ==
  ASSUME Inv, NEW i \in Ids, Ids' = Ids, due' \subseteq due,
         \A j \in Ids : j # i => incidents'[j] = incidents[j],
         \A e \in due' : e.id # i
  PROVE  DueOK'
BY DEF Inv, DueOK, ListedOK

LEMMA NotifyInv == ASSUME Inv, NEW d \in due, Notify(d) PROVE Inv'
<1> DEFINE i == d.id
           old == incidents[i]
           paged == old.paged \cup {d.step}
           late == IF old.status = "open" THEN old.late ELSE old.late + 1
           inc == [old EXCEPT !.paged = paged, !.late = late]
           last == PolicySteps[old.fp[1]]
<1>1. /\ i \in Ids /\ d \in [id : Ids, step : Nat] /\ old \in IncidentType /\ ClimbOK(old)
      /\ d.step = old.step /\ old.timer = "set" /\ old.late = 0 /\ last \in Nat
      /\ \A e \in due : e.id = d.id => e = d
  BY DueFacts
<1>2. /\ d.step < last /\ current' = d /\ due' = due \ {d}
      /\ UNCHANGED <<ruleState, channelState, cache, eval, emitted, events, requests, faults>>
  BY DEF Notify, tables, counters, RuleOf
<1>3. incidents' = [incidents EXCEPT ![i] = inc]
  BY Zenon DEF Notify
<1>4. paged = 0 .. d.step /\ last # NoPolicy
  <2>1. last # NoPolicy
    BY <1>1, IncidentsAssumption DEF IncidentsAssumption
  <2>2. old.paged = 0 .. old.step - 1 \/ old.paged = 0 .. old.step
    BY <1>1, <2>1 DEF ClimbOK
  <2> HIDE DEF old, last
  <2>3. d.step \in Nat
    BY <1>1
  <2> QED
    BY <1>1, <2>1, <2>2, <2>3
<1>5. paged \in SUBSET Nat /\ late \in {0, 1} /\ (late = 1 => old.status # "open")
  <2> HIDE DEF paged
  <2>1. d.step \in Nat
    BY <1>1
  <2> QED
    BY <1>1, <1>4, <2>1
<1> HIDE DEF paged, late
<1>6. /\ inc \in IncidentType /\ inc.paged = paged /\ inc.late = late
      /\ inc.fp = old.fp /\ inc.status = old.status /\ inc.step = old.step
      /\ inc.timer = old.timer
  <2>1. paged \in SUBSET Nat /\ late \in Nat /\ old \in IncidentType
    BY <1>1, <1>5
  <2> DEFINE mid == [old EXCEPT !.paged = paged]
  <2> HIDE DEF old
  <2>2. mid \in IncidentType
    BY <2>1 DEF IncidentType
  <2>3. inc = [mid EXCEPT !.late = late]
    BY <2>1 DEF IncidentType
  <2>4. inc \in IncidentType
    <3> HIDE DEF mid, inc
    <3> QED
      BY <2>1, <2>2, <2>3 DEF IncidentType
  <2> QED
    BY <2>1, <2>4 DEF IncidentType
<1> HIDE DEF inc
<1>7. ClimbOK(inc)
  BY <1>1, <1>2, <1>4, <1>5, <1>6 DEF ClimbOK
<1>8. Ids' = Ids /\ \A j \in Ids : incidents'[j] = IF j = i THEN inc ELSE incidents[j]
  BY <1>1, <1>3, <1>6, <1>7, ChangeIncident DEF Inv
<1>9. \A e \in due' : e.id # i
  BY <1>1, <1>2
<1>10. DueOK'
  BY <1>1, <1>2, <1>8, <1>9, RestOfList
<1>11. CurrentOK'
  <2>1. incidents'[i] = inc
    BY <1>1, <1>8
  <2> HIDE DEF old, last
  <2>2. /\ d \in [id : Ids', step : Nat] /\ d.step = inc.step /\ inc.timer = "set"
        /\ d.step < PolicySteps[inc.fp[1]] /\ inc.paged = 0 .. d.step
    BY <1>1, <1>2, <1>4, <1>6, <1>8 DEF last
  <2> QED
    BY <1>2, <1>9, <2>1, <2>2 DEF CurrentOK, ListedOK
<1> QED
  BY <1>1, <1>2, <1>3, <1>6, <1>7, <1>10, <1>11, WorkerUpdate

LEMMA AdvanceInv == ASSUME Inv, AdvanceEscalation PROVE Inv'
<1> DEFINE i == current.id
           old == incidents[i]
           last == PolicySteps[old.fp[1]]
           step == current.step + 1
           timer == IF step < last THEN "set" ELSE "none"
           inc == [old EXCEPT !.step = step, !.timer = timer]
<1>1. /\ current' = NotDue /\ current # NotDue
      /\ UNCHANGED <<ruleState, channelState, cache, eval, due, emitted, events, requests, faults>>
  BY DEF AdvanceEscalation, tables, counters
<1>2. /\ i \in Ids /\ current.step \in Nat /\ current.step = old.step /\ old.timer = "set"
      /\ current.step < last /\ old.paged = 0 .. current.step
      /\ \A d \in due : d.id # i
  BY <1>1 DEF Inv, CurrentOK, ListedOK
<1>3. /\ old \in IncidentType /\ ClimbOK(old) /\ last \in Nat \cup {NoPolicy}
  BY <1>2, IncidentFacts DEF Inv
<1>4. last \in Nat /\ last # NoPolicy
  BY <1>2, <1>3 DEF ClimbOK
<1>5. incidents' = [incidents EXCEPT ![i] = inc]
  BY Zenon DEF AdvanceEscalation, RuleOf
<1>6. step \in Nat /\ timer \in {"none", "set"} /\ step - 1 = current.step
  BY <1>2
<1>7. /\ inc \in IncidentType /\ inc.step = step /\ inc.timer = timer
      /\ inc.fp = old.fp /\ inc.status = old.status /\ inc.paged = old.paged
      /\ inc.late = old.late
  <2>1. old \in IncidentType
    BY <1>3
  <2> DEFINE mid == [old EXCEPT !.step = step]
  <2> HIDE DEF step, timer, old
  <2>2. mid \in IncidentType
    BY <1>6, <2>1 DEF IncidentType
  <2>3. inc = [mid EXCEPT !.timer = timer]
    BY <2>1 DEF IncidentType
  <2>4. inc \in IncidentType
    <3> HIDE DEF mid, inc
    <3> QED
      BY <1>6, <2>2, <2>3 DEF IncidentType
  <2> QED
    BY <2>1, <2>4 DEF IncidentType
<1> HIDE DEF inc
<1>8. ClimbOK(inc)
  <2>1. step <= last /\ (timer = "none" => step = last)
    BY <1>2, <1>4
  <2>2. inc.paged = 0 .. step - 1
    BY <1>2, <1>6, <1>7
  <2> HIDE DEF step, timer
  <2> QED
    BY <1>3, <1>4, <1>7, <2>1, <2>2 DEF ClimbOK
<1>9. Ids' = Ids /\ \A j \in Ids : incidents'[j] = IF j = i THEN inc ELSE incidents[j]
  BY <1>2, <1>5, <1>7, <1>8, ChangeIncident DEF Inv
<1>10. DueOK'
  BY <1>1, <1>2, <1>9, RestOfList
<1>11. CurrentOK'
  BY <1>1 DEF CurrentOK, NotDue
<1> QED
  BY <1>1, <1>2, <1>5, <1>7, <1>8, <1>10, <1>11, WorkerUpdate

LEMMA ExhaustInv == ASSUME Inv, NEW d \in due, Exhaust(d) PROVE Inv'
<1> DEFINE i == d.id
           old == incidents[i]
           inc == [old EXCEPT !.timer = "none"]
           last == PolicySteps[old.fp[1]]
<1>1. /\ i \in Ids /\ old \in IncidentType /\ ClimbOK(old) /\ d.step \in Nat
      /\ d.step = old.step /\ last \in Nat /\ \A e \in due : e.id = d.id => e = d
  BY DueFacts
<1>2. /\ d.step >= last /\ current = NotDue /\ due' = due \ {d}
      /\ UNCHANGED <<ruleState, channelState, cache, eval, current, emitted, events, requests, faults>>
  BY DEF Exhaust, tables, counters, RuleOf
<1>3. incidents' = [incidents EXCEPT ![i] = inc]
  BY Zenon DEF Exhaust
<1>4. /\ inc \in IncidentType /\ inc.timer = "none" /\ inc.step = old.step
      /\ inc.fp = old.fp /\ inc.status = old.status /\ inc.paged = old.paged
      /\ inc.late = old.late
  BY <1>1 DEF IncidentType
<1> HIDE DEF inc
<1>5. ClimbOK(inc)
  BY <1>1, <1>2, <1>4 DEF ClimbOK
<1>6. Ids' = Ids /\ \A j \in Ids : incidents'[j] = IF j = i THEN inc ELSE incidents[j]
  BY <1>1, <1>3, <1>4, <1>5, ChangeIncident DEF Inv
<1>7. \A e \in due' : e.id # i
  BY <1>1, <1>2
<1>8. DueOK'
  BY <1>1, <1>2, <1>6, <1>7, RestOfList
<1>9. CurrentOK'
  BY <1>2 DEF CurrentOK, NotDue
<1> QED
  BY <1>1, <1>2, <1>3, <1>4, <1>5, <1>8, <1>9, WorkerUpdate

-----------------------------------------------------------------------------
(* Users, restarts, and all steps together.                                *)

LEMMA SetStatusInv ==
  ASSUME Inv, NEW i, NEW from \in SUBSET {"open", "acked", "snoozed"},
         NEW to \in {"acked", "snoozed", "resolved"}, SetStatus(i, from, to)
  PROVE  Inv'
<1> DEFINE inc == [incidents[i] EXCEPT !.status = to]
<1>1. /\ i \in Ids /\ incidents[i].status \in from
      /\ UNCHANGED <<ruleState, channelState, cache, eval, due, current, emitted, events, faults>>
      /\ requests < MaxRequests /\ requests' = requests + 1
  BY DEF SetStatus, Request, tables, worker
<1>2. incidents[i] \in IncidentType
  BY <1>1, IncidentFacts DEF Inv
<1>3. /\ inc \in IncidentType /\ inc.fp = incidents[i].fp /\ inc.step = incidents[i].step
      /\ inc.timer = incidents[i].timer /\ inc.late = incidents[i].late
      /\ inc.paged = incidents[i].paged /\ inc.status = to
  BY <1>2 DEF IncidentType
<1>4. incidents' = [incidents EXCEPT ![i] = inc]
  BY DEF SetStatus
<1> HIDE DEF inc
<1>5. /\ IncidentsOK' /\ OneOpenThread' /\ DueOK' /\ CurrentOK'
      /\ Len(incidents') = Len(incidents)
  BY <1>1, <1>3, <1>4, OutsideUpdate DEF worker
<1>6. EvalsOK'
  BY <1>1, <1>5, EvaluatorsStay DEF Inv
<1>7. OthersOK'
  BY <1>1, IncidentsAssumption DEF Inv, OthersOK, IncidentsAssumption
<1> QED
  BY <1>5, <1>6, <1>7 DEF Inv

\* The steps that touch neither incidents nor what is being done with them.
LEMMA AsideInv ==
  ASSUME Inv, UNCHANGED <<incidents, eval, worker>>, OthersOK' PROVE Inv'
<1>1. IncidentsOK' /\ OneOpenThread' /\ EvalsOK' /\ Ids' = Ids
  BY IncidentsStay, EvaluatorsStay DEF Inv
<1>2. DueOK' /\ CurrentOK'
  BY <1>1, WorkerStays DEF Inv
<1> QED
  BY <1>1, <1>2 DEF Inv

LEMMA AdminInv == ASSUME Inv, Admin PROVE Inv'
<1>1. ASSUME NEW i \in Ids, AckIncident(i) \/ SnoozeIncident(i) \/ ResolveIncident(i) PROVE Inv'
  BY <1>1, SetStatusInv DEF AckIncident, SnoozeIncident, ResolveIncident
<1>2. ASSUME NEW r \in Rules, CreateRule(r) \/ DeleteRule(r) PROVE Inv'
  <2>1. UNCHANGED <<incidents, eval, worker>>
    BY <1>2 DEF CreateRule, DeleteRule
  <2>2. OthersOK'
    <3>1. CASE CreateRule(r)
      BY <3>1 DEF CreateRule, counters, Inv, OthersOK
    <3>2. CASE DeleteRule(r)
      <4>1. ruleState' \in [Rules -> {"absent", "live", "deleted"}]
        BY <3>2 DEF DeleteRule, Inv, OthersOK
      <4>2. requests' \in 0 .. MaxRequests
        BY <3>2, IncidentsAssumption
           DEF DeleteRule, Request, Inv, OthersOK, IncidentsAssumption
      <4> QED
        BY <3>2, <4>1, <4>2 DEF DeleteRule, Request, Inv, OthersOK
    <3> QED
      BY <1>2, <3>1, <3>2
  <2> QED
    BY <2>1, <2>2, AsideInv
<1>3. ASSUME NEW c \in Channels, CreateChannel(c) \/ DeleteChannel(c) PROVE Inv'
  <2>1. UNCHANGED <<incidents, eval, worker>>
    BY <1>3 DEF CreateChannel, DeleteChannel
  <2>2. OthersOK'
    <3>1. channelState' \in [Channels -> {"absent", "live", "deleted"}]
      BY <1>3 DEF CreateChannel, DeleteChannel, Inv, OthersOK
    <3>2. requests' \in 0 .. MaxRequests
      BY <1>3, IncidentsAssumption
         DEF CreateChannel, DeleteChannel, Request, counters, Inv, OthersOK, IncidentsAssumption
    <3> QED
      BY <1>3, <3>1, <3>2
         DEF CreateChannel, DeleteChannel, Request, counters, Inv, OthersOK
  <2> QED
    BY <2>1, <2>2, AsideInv
<1> QED
  BY <1>1, <1>2, <1>3 DEF Admin

LEMMA PassOverInv == ASSUME Inv, NEW e \in Events, PassOver(e) PROVE Inv'
<1>1. UNCHANGED <<incidents, eval, worker>>
  BY DEF PassOver
<1>2. OthersOK'
  BY IncidentsAssumption DEF PassOver, tables, Inv, OthersOK, IncidentsAssumption
<1> QED
  BY <1>1, <1>2, AsideInv

LEMMA RestartInv == ASSUME Inv, Restart PROVE Inv'
<1>1. /\ eval' = [v \in Evaluators |-> Idle] /\ due' = {} /\ current' = NotDue
      /\ cache' = NoEntry /\ Fault
      /\ UNCHANGED <<ruleState, channelState, incidents, emitted, events, requests>>
  BY DEF Restart, tables
<1>2. IncidentsOK' /\ OneOpenThread'
  BY <1>1, IncidentsStay DEF Inv
<1>3. EvalsOK'
  <2>1. EvalOK(Idle, Len(incidents'))
    BY <1>1, IdleOK, LenNat DEF Inv
  <2> QED
    BY <1>1, <2>1 DEF EvalsOK
<1>4. DueOK' /\ CurrentOK'
  BY <1>1 DEF DueOK, CurrentOK, NotDue
<1>5. OthersOK'
  BY <1>1, IncidentsAssumption DEF Fault, NoEntry, Inv, OthersOK, IncidentsAssumption
<1> QED
  BY <1>2, <1>3, <1>4, <1>5 DEF Inv

LEMMA NextInv == Inv /\ [Next]_vars => Inv'
<1> SUFFICES ASSUME Inv, [Next]_vars PROVE Inv'
  OBVIOUS
<1>1. ASSUME NEW v \in Evaluators, Evaluate(v) PROVE Inv'
  BY <1>1, BumpIncidentInv, CreateIncidentInv, SendAndRecordInv, FindOpenIncidentInv
     DEF Evaluate
<1>2. ASSUME Escalate PROVE Inv'
  BY <1>2, EscalateFailsInv, NotifyInv, ExhaustInv DEF Escalate
<1>3. ASSUME UNCHANGED vars PROVE Inv'
  <2>1. OthersOK'
    BY <1>3 DEF vars, Inv, OthersOK
  <2>2. UNCHANGED <<incidents, eval, worker>>
    BY <1>3 DEF vars, worker
  <2> QED
    BY <2>1, <2>2, AsideInv
<1> QED
  BY <1>1, <1>2, <1>3, IngestInv, PassOverInv, TickInv, AdvanceInv, AdminInv, RestartInv
     DEF Next

LEMMA Always == Spec => []Inv
BY InitInv, NextInv, PTL DEF Spec

(***************************************************************************)
(* The rules, incidents, goroutines and counters keep their types.         *)
(***************************************************************************)
THEOREM TypeCorrect == Spec => []TypeOK
<1>1. ASSUME Inv PROVE TypeOK
  <2>1. Len(incidents) \in Nat /\ Ids = 1 .. Len(incidents)
    BY <1>1, LenNat DEF Inv, Ids
  <2>2. \A d \in due \cup {current} : d.id \in 0 .. Len(incidents) /\ d.step \in Nat
    BY <1>1, <2>1 DEF Inv, DueOK, CurrentOK, NotDue
  <2>3. \A v \in Evaluators :
          /\ eval[v].pc \in {"idle", "next", "bump", "create", "send"}
          /\ eval[v].event \in Events \cup {NoEvent} /\ eval[v].rules \subseteq Rules
          /\ eval[v].id \in 0 .. Len(incidents)
    BY <1>1 DEF Inv, EvalsOK, EvalOK, EvalType
  <2> QED
    BY <1>1, <2>2, <2>3 DEF TypeOK, Inv, IncidentsOK, OthersOK
<1> QED
  BY <1>1, Always, PTL

(***************************************************************************)
(* FindOpenIncident and CreateIncident are two statements, between which   *)
(* another run's evaluation may create the incident: the unique index on   *)
(* unresolved fingerprints keeps a storm one thread.                       *)
(***************************************************************************)
THEOREM StormIsOneThread == Spec => []OneOpenThread
<1>1. Inv => OneOpenThread
  BY DEF Inv
<1> QED
  BY <1>1, Always, PTL

(***************************************************************************)
(* The escalation worker notifies a policy's steps in order and skips      *)
(* none, whatever tick is cut by an error or a restart; when an incident   *)
(* has nothing due any more, every step was notified.                      *)
(***************************************************************************)
THEOREM EscalationSkipsNobody == Spec => []NobodySkipped
<1>1. ASSUME Inv, NEW i \in Ids
      PROVE  LET inc == incidents[i]
                 last == PolicySteps[RuleOf(i)]
             IN last # NoPolicy =>
                  /\ inc.paged \in {0 .. inc.step - 1, 0 .. inc.step}
                  /\ inc.timer = "none" => inc.paged = 0 .. last - 1
  <2>1. /\ incidents[i] \in IncidentType /\ ClimbOK(incidents[i])
        /\ PolicySteps[incidents[i].fp[1]] \in Nat \cup {NoPolicy}
    BY <1>1, IncidentFacts DEF Inv
  <2> QED
    BY <2>1 DEF ClimbOK, RuleOf, IncidentType
<1>2. Inv => NobodySkipped
  BY <1>1 DEF NobodySkipped
<1> QED
  BY <1>2, Always, PTL

(***************************************************************************)
(* A tick that has read its list sends the step it is at although the      *)
(* incident was acknowledged, snoozed or resolved meanwhile, but no later  *)
(* tick sends another.                                                     *)
(***************************************************************************)
THEOREM ReactionStopsPages == Spec => []OnePageAfterAck
<1>1. Inv => OnePageAfterAck
  BY IncidentFacts DEF Inv, OnePageAfterAck, ClimbOK
<1> QED
  BY <1>1, Always, PTL

-----------------------------------------------------------------------------
(* The first alert.  A second invariant, on top of the first: the rules    *)
(* that evaluators and incidents name were created, and an incident was    *)
(* told to the channels of its rule up to the last or to where the telling *)
(* could be cut, or one evaluator is on its way through them.              *)

CreatedRules == {r \in Rules : ruleState[r] # "absent"}

\* Where RecordAlert may fail.
CutIn(r, c, rules, chans) ==
  rules[r] = "deleted" \/ chans[c] = "deleted" \/ c \notin InitialChannels
Cut(r, c) == CutIn(r, c, ruleState, channelState)

\* The first n channels of a list have been tried, and no more are going to be.
ToldTo(n, names, tried) == tried = {names[k] : k \in 1 .. n}
Over(n, names, r, count, rules, chans) ==
  n = Len(names) \/ count > 0 \/ (n > 0 /\ CutIn(r, names[n], rules, chans))
ToldIn(inc, count, rules, chans) ==
  LET r == inc.fp[1]
  IN IF inc.muted THEN inc.tried = {}
     ELSE \E n \in 0 .. Len(ChannelsOf[r]) :
            ToldTo(n, ChannelsOf[r], inc.tried) /\ Over(n, ChannelsOf[r], r, count, rules, chans)
Told(inc) == ToldIn(inc, faults, ruleState, channelState)
ToldNext(inc) == ToldIn(inc, faults', ruleState', channelState')
Sends(v, i) == eval[v].pc = "send" /\ eval[v].id = i

\* The channels before the targets that are left have been tried.
Between(k, targets, all, tried) ==
  /\ Len(all) = k + Len(targets)
  /\ \A j \in 1 .. Len(targets) : targets[j] = all[k + j]
  /\ ToldTo(k, all, tried)

Halfway(targets, inc) ==
  /\ ~ inc.muted
  /\ \E k \in 0 .. Len(ChannelsOf[inc.fp[1]]) :
       Between(k, targets, ChannelsOf[inc.fp[1]], inc.tried)

RulesKnown(e, rules) ==
  e.rules \subseteq rules /\ (e.pc = "create" => e.targets[1] \in rules)
RulesThere ==
  /\ cache.rules \subseteq CreatedRules
  /\ \A v \in Evaluators : RulesKnown(eval[v], CreatedRules)
  /\ \A i \in Ids : incidents[i].fp[1] \in CreatedRules

AlertsGoOut ==
  /\ \A i \in Ids : Told(incidents[i]) \/ \E v \in Evaluators : Sends(v, i)
  /\ \A v \in Evaluators :
        eval[v].pc = "send" => Halfway(eval[v].targets, incidents[eval[v].id])
  /\ \A v, w \in Evaluators : eval[v].pc = "send" /\ Sends(w, eval[v].id) => v = w

\* A channel that is absent from the table was not there at the start.
ChannelsThere == \A c \in InitialChannels : channelState[c] # "absent"

AlertInv == RulesThere /\ ChannelsThere /\ AlertsGoOut

\* Nothing is taken back of what may cut an alert short.
Later ==
  /\ faults > 0 => faults' > 0
  /\ \A r \in Rules : ruleState[r] = "deleted" => ruleState'[r] = "deleted"
  /\ \A c \in Channels :
       /\ channelState[c] = "deleted" => channelState'[c] = "deleted"
       /\ channelState[c] # "absent" => channelState'[c] # "absent"
  /\ CreatedRules \subseteq CreatedRules'

\* An evaluator that sends nothing before and after a step, and takes live rules only.
Aside(v) ==
  /\ eval[v].pc # "send" /\ eval'[v].pc # "send"
  /\ RulesKnown(eval'[v], CreatedRules)

LEMMA ContinueFacts ==
  ASSUME NEW e, NEW ruleSet
  PROVE  Continue(e, ruleSet).pc \in {"idle", "next"} /\ Continue(e, ruleSet).rules = ruleSet
BY DEF Continue, Idle

LEMMA SendFacts ==
  ASSUME Inv, NEW v \in Evaluators, eval[v].pc \in {"send", "bump"} PROVE eval[v].id \in Ids
<1>1. EvalOK(eval[v], Len(incidents)) /\ Len(incidents) \in Nat
  BY LenNat DEF Inv, EvalsOK
<1> QED
  BY <1>1 DEF EvalOK, EvalType, Ids

LEMMA HalfwayKept ==
  ASSUME NEW targets, NEW inc, Halfway(targets, inc), NEW new,
         new.fp = inc.fp, new.muted = inc.muted, new.tried = inc.tried
  PROVE  Halfway(targets, new)
BY DEF Halfway

LEMMA RulesOf ==
  ASSUME Inv, NEW i \in Ids PROVE incidents[i].fp[1] \in Rules
<1>1. incidents[i] \in IncidentType
  BY IncidentFacts DEF Inv
<1> QED
  BY <1>1 DEF IncidentType, Fingerprint

\* What was told stays told.
LEMMA ToldStays ==
  ASSUME Later, NEW inc, NEW new, inc.fp[1] \in Rules, ChannelsOf[inc.fp[1]] \in Seq(Channels),
         new.fp = inc.fp, new.muted = inc.muted, new.tried = inc.tried, Told(inc)
  PROVE  ToldNext(new)
<1> DEFINE r == inc.fp[1]
           names == ChannelsOf[r]
<1>1. CASE inc.muted
  BY <1>1 DEF Told, ToldNext, ToldIn
<1>2. CASE ~ inc.muted
  <2>1. PICK n \in 0 .. Len(names) :
          ToldTo(n, names, inc.tried) /\ Over(n, names, r, faults, ruleState, channelState)
    BY <1>2 DEF Told, ToldIn
  <2>2. n > 0 => names[n] \in Channels
    <3>1. Len(names) \in Nat
      BY LenProperties
    <3>2. n > 0 => n \in 1 .. Len(names)
      BY <3>1
    <3> HIDE DEF names
    <3> QED
      BY <3>2, ElementOfSeq DEF names
  <2>3. n > 0 /\ CutIn(r, names[n], ruleState, channelState)
          => CutIn(r, names[n], ruleState', channelState')
    BY <2>2 DEF Later, CutIn
  <2>4. Over(n, names, r, faults', ruleState', channelState')
    BY <2>1, <2>3 DEF Over, Later
  <2> QED
    BY <1>2, <2>1, <2>4 DEF ToldNext, ToldIn
<1> QED
  BY <1>1, <1>2

\* A step that sends nothing and opens nothing.
LEMMA AlertsStay ==
  ASSUME Inv, AlertInv, Later, Ids' = Ids,
         \A j \in Ids : /\ incidents'[j].fp = incidents[j].fp
                        /\ incidents'[j].muted = incidents[j].muted
                        /\ incidents'[j].tried = incidents[j].tried,
         cache'.rules \subseteq CreatedRules,
         \A v \in Evaluators : eval'[v] = eval[v] \/ Aside(v)
  PROVE  AlertInv'
<1>1. /\ CreatedRules \subseteq CreatedRules' /\ RulesThere /\ AlertsGoOut
      /\ ChannelsThere'
  BY IncidentsAssumption DEF AlertInv, Later, ChannelsThere, IncidentsAssumption
<1>2. RulesThere'
  <2>1. \A v \in Evaluators : RulesKnown(eval'[v], CreatedRules')
    BY <1>1 DEF RulesThere, Aside, RulesKnown
  <2>2. \A i \in Ids' : incidents'[i].fp[1] \in CreatedRules'
    BY <1>1 DEF RulesThere
  <2> QED
    BY <1>1, <2>1, <2>2 DEF RulesThere
<1>3. \A v \in Evaluators : /\ eval'[v].pc = "send" <=> eval[v].pc = "send"
                            /\ eval[v].pc = "send" => eval'[v] = eval[v] /\ eval[v].id \in Ids
  BY <1>1, SendFacts DEF Aside
<1>4. ASSUME NEW i \in Ids PROVE Told(incidents[i])' \/ \E v \in Evaluators : Sends(v, i)'
  <2>1. Told(incidents[i]) => ToldNext(incidents'[i])
    <3>1. /\ incidents'[i].fp = incidents[i].fp /\ incidents'[i].muted = incidents[i].muted
          /\ incidents'[i].tried = incidents[i].tried
      BY <1>4, Zenon
    <3>2. incidents[i].fp[1] \in Rules /\ ChannelsOf[incidents[i].fp[1]] \in Seq(Channels)
      BY RulesOf, IncidentsAssumption DEF IncidentsAssumption
    <3> QED
      BY <3>1, <3>2, ToldStays
  <2>2. ASSUME NEW v \in Evaluators, Sends(v, i) PROVE Sends(v, i)'
    BY <1>3, <2>2 DEF Sends
  <2> QED
    BY <1>1, <2>1, <2>2 DEF AlertsGoOut, Told, ToldNext
<1>5. ASSUME NEW v \in Evaluators, eval'[v].pc = "send"
      PROVE  Halfway(eval'[v].targets, incidents'[eval'[v].id])
  <2>1. Halfway(eval[v].targets, incidents[eval[v].id]) /\ eval'[v] = eval[v] /\ eval[v].id \in Ids
    BY <1>1, <1>3, <1>5 DEF AlertsGoOut
  <2>2. Halfway(eval[v].targets, incidents'[eval[v].id])
    BY <2>1, HalfwayKept
  <2> QED
    BY <2>1, <2>2
<1>6. \A v, w \in Evaluators : eval'[v].pc = "send" /\ Sends(w, eval[v].id)' => v = w
  BY <1>1, <1>3 DEF AlertsGoOut, Sends
<1> QED
  BY <1>1, <1>2, <1>3, <1>4, <1>5, <1>6 DEF AlertsGoOut, AlertInv

\* The same, when the tables, the cache and the goroutines stay too.
LEMMA AlertsAside ==
  ASSUME Inv, AlertInv, UNCHANGED <<ruleState, channelState, cache, eval>>,
         faults > 0 => faults' > 0, Ids' = Ids,
         \A j \in Ids : /\ incidents'[j].fp = incidents[j].fp
                        /\ incidents'[j].muted = incidents[j].muted
                        /\ incidents'[j].tried = incidents[j].tried
  PROVE  AlertInv'
<1>1. Later /\ CreatedRules' = CreatedRules
  BY DEF Later, CreatedRules
<1>2. cache.rules \subseteq CreatedRules
  BY DEF AlertInv, RulesThere
<1> QED
  BY <1>1, <1>2, AlertsStay

\* One incident is updated, in what is not said of alerts.
LEMMA OtherUpdate ==
  ASSUME IncidentsOK, NEW i \in Ids, NEW inc \in IncidentType, inc.fp = incidents[i].fp,
         inc.muted = incidents[i].muted, inc.tried = incidents[i].tried,
         incidents' = [incidents EXCEPT ![i] = inc]
  PROVE  /\ Ids' = Ids
         /\ \A j \in Ids : /\ incidents'[j].fp = incidents[j].fp
                           /\ incidents'[j].muted = incidents[j].muted
                           /\ incidents'[j].tried = incidents[j].tried
<1>1. incidents \in Seq(IncidentType) /\ i \in 1 .. Len(incidents)
  BY DEF IncidentsOK, Ids
<1>2. /\ Len(incidents') = Len(incidents)
      /\ \A j \in 1 .. Len(incidents) : incidents'[j] = IF j = i THEN inc ELSE incidents[j]
  BY <1>1, ExceptSeq
<1> QED
  BY <1>2 DEF Ids

LEMMA AlertEvaluate ==
  ASSUME Inv, AlertInv, NEW v \in Evaluators,
         BumpIncident(v) \/ \E r \in Rules : FindOpenIncident(v, r)
  PROVE  AlertInv'
<1>1. /\ UNCHANGED <<ruleState, channelState, cache, faults>> /\ DOMAIN eval = Evaluators
      /\ \A w \in Evaluators \ {v} : eval'[w] = eval[w]
  BY DEF BumpIncident, FindOpenIncident, tables, counters, Inv, EvalsOK
<1>2. Later /\ CreatedRules' = CreatedRules
  BY <1>1 DEF Later, CreatedRules
<1>3. cache.rules \subseteq CreatedRules /\ eval[v].rules \subseteq CreatedRules
  BY DEF AlertInv, RulesThere, RulesKnown
<1>4. CASE BumpIncident(v)
  <2> DEFINE i == eval[v].id
             inc == [incidents[i] EXCEPT !.count = @ + 1]
             e == Continue(eval[v].event, eval[v].rules)
  <2>1. eval[v].pc = "bump" /\ eval' = [eval EXCEPT ![v] = e]
    BY <1>1, <1>4 DEF BumpIncident
  <2>2. i \in Ids /\ incidents[i] \in IncidentType
    BY <2>1, SendFacts, IncidentFacts DEF Inv
  <2>3. /\ inc.fp = incidents[i].fp /\ inc.muted = incidents[i].muted
        /\ inc.tried = incidents[i].tried /\ inc \in IncidentType
    BY <2>2 DEF IncidentType
  <2>4. incidents' = [incidents EXCEPT ![i] = inc]
    BY <1>4 DEF BumpIncident
  <2> HIDE DEF inc
  <2>5. /\ Ids' = Ids
        /\ \A j \in Ids : /\ incidents'[j].fp = incidents[j].fp
                          /\ incidents'[j].muted = incidents[j].muted
                          /\ incidents'[j].tried = incidents[j].tried
    BY <2>2, <2>3, <2>4, OtherUpdate DEF Inv
  <2>6. eval'[v] = e /\ e.pc \in {"idle", "next"} /\ e.rules = eval[v].rules
    BY <1>1, <2>1, ContinueFacts
  <2>7. Aside(v)
    BY <1>3, <2>1, <2>6 DEF Aside, RulesKnown
  <2> QED
    BY <1>1, <1>2, <1>3, <2>5, <2>7, AlertsStay
<1>5. ASSUME NEW r \in Rules, FindOpenIncident(v, r) PROVE AlertInv'
  <2>1. eval[v].pc = "next" /\ r \in eval[v].rules /\ incidents' = incidents
    BY <1>5 DEF FindOpenIncident
  <2>2. /\ eval'[v].pc \in {"create", "bump"} /\ eval'[v].targets = <<r>>
        /\ eval'[v].rules \subseteq eval[v].rules
    BY <1>1, <1>5 DEF FindOpenIncident
  <2>3. Aside(v)
    <3>1. eval'[v].targets[1] = r
      BY <2>2
    <3> QED
      BY <1>3, <2>1, <2>2, <3>1 DEF Aside, RulesKnown
  <2> QED
    BY <1>1, <1>2, <1>3, <2>1, <2>3, AlertsStay DEF Ids
<1> QED
  BY <1>4, <1>5

LEMMA AlertIngest ==
  ASSUME Inv, AlertInv, NEW v \in Evaluators, NEW e \in Events, Ingest(v, e) PROVE AlertInv'
<1>1. PICK ruleSet \in {LiveRules} \cup (IF cache.fresh THEN {cache.rules} ELSE {}) :
        /\ cache' = [fresh |-> TRUE, rules |-> ruleSet]
        /\ eval' = [eval EXCEPT ![v] = Continue(e, {r \in ruleSet : e \in Matches[r]})]
  BY DEF Ingest
<1>2. /\ UNCHANGED <<ruleState, channelState, incidents, faults>> /\ eval[v].pc = "idle"
      /\ DOMAIN eval = Evaluators
  BY DEF Ingest, tables, Inv, EvalsOK
<1>3. Later /\ CreatedRules' = CreatedRules
  BY <1>2 DEF Later, CreatedRules
<1>4. ruleSet \subseteq CreatedRules
  BY <1>1 DEF AlertInv, RulesThere, CreatedRules, LiveRules
<1>5. Aside(v)
  <2> DEFINE f == Continue(e, {r \in ruleSet : e \in Matches[r]})
  <2>1. f.pc \in {"idle", "next"} /\ f.rules \subseteq ruleSet
    BY ContinueFacts
  <2> HIDE DEF f
  <2>2. eval'[v] = f
    BY <1>1, <1>2 DEF f
  <2> QED
    BY <1>2, <1>4, <2>1, <2>2 DEF Aside, RulesKnown
<1>6. \A w \in Evaluators \ {v} : eval'[w] = eval[w]
  BY <1>1, <1>2
<1>7. cache'.rules = ruleSet
  BY <1>1
<1> QED
  BY <1>2, <1>3, <1>4, <1>5, <1>6, <1>7, AlertsStay DEF Ids

LEMMA AppendAny ==
  ASSUME NEW s \in Seq(IncidentType), NEW x
  PROVE  /\ Len(Append(s, x)) = Len(s) + 1
         /\ (\A j \in 1 .. Len(s) : Append(s, x)[j] = s[j])
         /\ Append(s, x)[Len(s) + 1] = x
OBVIOUS

\* A new incident goes to its channels, unless it is muted or has none.
LEMMA AlertCreate ==
  ASSUME Inv, AlertInv, NEW v \in Evaluators, CreateIncident(v) PROVE AlertInv'
<1> DEFINE r == eval[v].targets[1]
           fp == Fingerprint(r, eval[v].event)
           n == Len(incidents)
<1>1. /\ UNCHANGED <<ruleState, channelState, cache, faults>> /\ DOMAIN eval = Evaluators
      /\ eval[v].pc = "create" /\ eval[v].event \in Events /\ r \in Rules
      /\ \A w \in Evaluators : EvalOK(eval[w], n)
      /\ n \in Nat /\ incidents \in Seq(IncidentType)
  BY LenNat DEF CreateIncident, tables, counters, Inv, EvalsOK, EvalOK, IncidentsOK
<1>2. Later /\ CreatedRules' = CreatedRules
  BY <1>1 DEF Later, CreatedRules
<1>3. CASE Unresolved(fp) # {}
  <2>1. eval' = [eval EXCEPT ![v] = Idle] /\ incidents' = incidents
    BY <1>3 DEF CreateIncident, EndEvaluation
  <2>2. eval'[v] = Idle /\ \A w \in Evaluators \ {v} : eval'[w] = eval[w]
    BY <1>1, <2>1
  <2>3. Aside(v) /\ cache.rules \subseteq CreatedRules
    BY <1>1, <2>2 DEF Aside, RulesKnown, Idle, AlertInv, RulesThere
  <2> QED
    BY <1>1, <1>2, <2>1, <2>2, <2>3, AlertsStay DEF Ids
<1>4. ASSUME Unresolved(fp) = {} PROVE RulesThere' /\ AlertsGoOut' /\ ChannelsThere'
  <2>1. PICK mute \in BOOLEAN :
          /\ incidents' = Append(incidents, NewIncident(r, fp, mute))
          /\ eval' = [eval EXCEPT ![v] =
               IF mute \/ ChannelsOf[r] = <<>> THEN Continue(@.event, @.rules)
               ELSE [pc |-> "send", event |-> @.event, rules |-> @.rules, id |-> n + 1,
                     targets |-> ChannelsOf[r]]]
    BY <1>4 DEF CreateIncident, InsertIncident
  <2> DEFINE inc == NewIncident(r, fp, mute)
             going == Continue(eval[v].event, eval[v].rules)
             sending == [pc |-> "send", event |-> eval[v].event, rules |-> eval[v].rules,
                         id |-> n + 1, targets |-> ChannelsOf[r]]
  <2>2. inc.fp[1] = r /\ inc.muted = mute /\ inc.tried = {}
    BY DEF NewIncident, Fingerprint
  <2>3. /\ going.pc \in {"idle", "next"} /\ going.rules = eval[v].rules
        /\ sending.pc = "send" /\ sending.rules = eval[v].rules /\ sending.id = n + 1
        /\ sending.targets = ChannelsOf[r]
    BY ContinueFacts
  <2> HIDE DEF inc, going, sending
  <2>4. /\ eval'[v] = IF mute \/ ChannelsOf[r] = <<>> THEN going ELSE sending
        /\ \A w \in Evaluators \ {v} : eval'[w] = eval[w]
    BY <1>1, <2>1 DEF going, sending
  <2>5. Ids' = Ids \cup {n + 1} /\ n + 1 \notin Ids
        /\ (\A j \in Ids : incidents'[j] = incidents[j]) /\ incidents'[n + 1] = inc
    <3>1. /\ Len(incidents') = n + 1 /\ (\A j \in 1 .. n : incidents'[j] = incidents[j])
          /\ incidents'[n + 1] = inc
      BY <1>1, <2>1, AppendAny DEF inc
    <3> QED
      BY <1>1, <3>1 DEF Ids
  <2>6. RulesThere /\ AlertsGoOut
    BY <1>4 DEF AlertInv
  <2>7. r \in CreatedRules /\ eval[v].rules \subseteq CreatedRules
    BY <1>1, <2>6 DEF RulesThere, RulesKnown
  <2>8. RulesThere'
    <3>1. RulesKnown(eval'[v], CreatedRules)
      BY <2>3, <2>4, <2>7 DEF RulesKnown
    <3>2. \A w \in Evaluators : RulesKnown(eval'[w], CreatedRules)
      BY <2>4, <2>6, <3>1 DEF RulesThere
    <3>3. \A i \in Ids' : incidents'[i].fp[1] \in CreatedRules
      BY <2>2, <2>5, <2>6, <2>7 DEF RulesThere
    <3> QED
      BY <1>1, <1>2, <2>6, <3>2, <3>3 DEF RulesThere
  <2>9. \A w \in Evaluators : eval[w].pc = "send" => eval[w].id \in Ids /\ w # v /\ eval'[w] = eval[w]
    BY <1>1, <2>4, SendFacts
  <2>10. ChannelsOf[r] \in Seq(Channels)
    BY <1>1, IncidentsAssumption DEF IncidentsAssumption
  <2>11. ASSUME NEW i \in Ids' PROVE Told(incidents[i])' \/ \E w \in Evaluators : Sends(w, i)'
    <3>1. CASE i \in Ids
      <4>1. incidents[i].fp[1] \in Rules /\ ChannelsOf[incidents[i].fp[1]] \in Seq(Channels)
        BY <3>1, RulesOf, IncidentsAssumption DEF IncidentsAssumption
      <4>2. Told(incidents[i]) => ToldNext(incidents'[i])
        BY <1>2, <2>5, <3>1, <4>1, ToldStays
      <4>3. \A w \in Evaluators : Sends(w, i) => Sends(w, i)'
        BY <2>9 DEF Sends
      <4> QED
        BY <2>6, <3>1, <4>2, <4>3 DEF AlertsGoOut, Told, ToldNext
    <3>2. CASE i = n + 1 /\ (mute \/ ChannelsOf[r] = <<>>)
      <4>1. inc.muted \/ Len(ChannelsOf[inc.fp[1]]) = 0
        BY <2>2, <3>2, EmptySeq
      <4>2. ToldNext(inc)
        <5>1. CASE inc.muted
          BY <2>2, <5>1 DEF ToldNext, ToldIn
        <5>2. CASE ~ inc.muted
          <6>1. 0 \in 0 .. Len(ChannelsOf[inc.fp[1]]) /\ 1 .. 0 = {}
            BY <4>1, <5>2
          <6>2. ToldTo(0, ChannelsOf[inc.fp[1]], inc.tried)
            BY <2>2, <6>1 DEF ToldTo
          <6>3. Over(0, ChannelsOf[inc.fp[1]], inc.fp[1], faults', ruleState', channelState')
            BY <4>1, <5>2 DEF Over
          <6> QED
            BY <5>2, <6>1, <6>2, <6>3 DEF ToldNext, ToldIn
        <5> QED
          BY <5>1, <5>2
      <4> QED
        BY <2>5, <3>2, <4>2 DEF Told, ToldNext
    <3>3. CASE i = n + 1 /\ ~ (mute \/ ChannelsOf[r] = <<>>)
      BY <2>3, <2>4, <3>3 DEF Sends
    <3> QED
      BY <2>5, <3>1, <3>2, <3>3
  <2>12. ASSUME NEW w \in Evaluators, eval'[w].pc = "send"
         PROVE  Halfway(eval'[w].targets, incidents'[eval'[w].id])
    <3>1. CASE w # v
      BY <2>4, <2>5, <2>6, <2>9, <2>12, <3>1 DEF AlertsGoOut
    <3>2. CASE w = v
      <4>1. /\ eval'[w].targets = ChannelsOf[r] /\ eval'[w].id = n + 1 /\ ~ mute
        BY <2>3, <2>4, <2>12, <3>2
      <4>2. Halfway(ChannelsOf[r], inc)
        <5>1. /\ Len(ChannelsOf[r]) \in Nat /\ 1 .. 0 = {}
          BY <2>10, LenProperties
        <5>2. /\ 0 \in 0 .. Len(ChannelsOf[r]) /\ Len(ChannelsOf[r]) = 0 + Len(ChannelsOf[r])
              /\ \A j \in 1 .. Len(ChannelsOf[r]) : ChannelsOf[r][j] = ChannelsOf[r][0 + j]
              /\ ToldTo(0, ChannelsOf[r], inc.tried)
          BY <2>2, <5>1 DEF ToldTo
        <5> QED
          BY <2>2, <4>1, <5>2 DEF Halfway, Between
      <4> QED
        BY <2>5, <4>1, <4>2
    <3> QED
      BY <3>1, <3>2
  <2>13. ASSUME NEW w \in Evaluators, NEW u \in Evaluators, eval'[w].pc = "send",
                Sends(u, eval[w].id)'
         PROVE  w = u
    <3>1. eval'[u].pc = "send" /\ eval'[u].id = eval'[w].id
      BY <2>13 DEF Sends
    <3>2. \A x \in Evaluators : eval'[x].pc = "send" =>
             IF x = v THEN eval'[x].id = n + 1
             ELSE eval'[x] = eval[x] /\ eval[x].pc = "send" /\ eval[x].id \in Ids
      BY <2>3, <2>4, <2>9
    <3>3. CASE w = v \/ u = v
      BY <2>5, <2>13, <3>1, <3>2, <3>3
    <3>4. CASE w # v /\ u # v
      BY <2>6, <2>13, <3>1, <3>2, <3>4 DEF AlertsGoOut, Sends
    <3> QED
      BY <3>3, <3>4
  <2>14. ChannelsThere'
    BY <1>1 DEF AlertInv, ChannelsThere
  <2> QED
    BY <2>8, <2>11, <2>12, <2>13, <2>14 DEF AlertsGoOut
<1>5. CASE Unresolved(fp) = {}
  BY <1>2, <1>4, <1>5 DEF AlertInv
<1> QED
  BY <1>3, <1>5

LEMMA OneMore ==
  ASSUME NEW n \in Nat, NEW names, NEW tried, ToldTo(n, names, tried)
  PROVE  ToldTo(n + 1, names, tried \cup {names[n + 1]})
<1>1. 1 .. n + 1 = (1 .. n) \cup {n + 1}
  OBVIOUS
<1> QED
  BY <1>1 DEF ToldTo

\* The channel at hand has been tried: the targets that are left are one fewer.
LEMMA HalfwayOn ==
  ASSUME NEW inc, NEW new, new.fp = inc.fp, new.muted = inc.muted,
         ChannelsOf[inc.fp[1]] \in Seq(Channels),
         NEW targets \in Seq(Channels), targets # <<>>, Halfway(targets, inc),
         new.tried = inc.tried \cup {Head(targets)}
  PROVE  /\ Tail(targets) # <<>> => Halfway(Tail(targets), new)
         /\ Tail(targets) = <<>> \/ Cut(inc.fp[1], Head(targets)) => Told(new)
<1> DEFINE all == ChannelsOf[inc.fp[1]]
           rest == Tail(targets)
           m == Len(targets)
<1>1. /\ m \in Nat \ {0} /\ rest \in Seq(Channels) /\ Len(rest) = m - 1
      /\ Head(targets) = targets[1] /\ \A j \in 1 .. m - 1 : rest[j] = targets[j + 1]
  <2>1. m \in Nat /\ m # 0
    BY LenProperties, EmptySeq
  <2> QED
    BY <2>1, HeadTailProperties
<1>2. PICK k \in 0 .. Len(all) : /\ Len(all) = k + m
                                /\ \A j \in 1 .. m : targets[j] = all[k + j]
                                /\ ToldTo(k, all, inc.tried)
  BY DEF Halfway, Between
<1>3. Len(all) \in Nat
  BY LenProperties
<1> HIDE DEF all, rest, m
<1>4. /\ k \in Nat /\ k + 1 \in 0 .. Len(all) /\ Len(all) = (k + 1) + (m - 1)
      /\ 1 \in 1 .. m /\ \A j \in 1 .. m - 1 : j + 1 \in 1 .. m /\ k + (j + 1) = (k + 1) + j
      /\ 1 .. k + 1 = 1 .. k \cup {k + 1}
  BY <1>1, <1>2, <1>3
<1>5. targets[1] = all[k + 1] /\ ToldTo(k + 1, all, new.tried)
  <2>1. targets[1] = all[k + 1]
    BY <1>2, <1>4
  <2>2. new.tried = inc.tried \cup {all[k + 1]}
    BY <1>1, <2>1
  <2> QED
    BY <1>2, <1>4, <2>1, <2>2, OneMore
<1>6. \A j \in 1 .. m - 1 : rest[j] = all[(k + 1) + j]
  <2> TAKE j \in 1 .. m - 1
  <2>1. rest[j] = targets[j + 1] /\ targets[j + 1] = all[k + (j + 1)]
    BY <1>1, <1>2, <1>4
  <2> QED
    BY <1>4, <2>1
<1>7. ~ new.muted /\ ChannelsOf[new.fp[1]] = all
  BY DEF Halfway, all
<1>8. Halfway(rest, new)
  <2>1. Between(k + 1, rest, all, new.tried)
    BY <1>1, <1>4, <1>5, <1>6 DEF Between
  <2> QED
    BY <1>4, <1>7, <2>1, Zenon DEF Halfway
<1>9. rest = <<>> \/ Cut(inc.fp[1], Head(targets)) => Told(new)
  <2> SUFFICES ASSUME rest = <<>> \/ Cut(inc.fp[1], Head(targets)) PROVE Told(new)
    OBVIOUS
  <2>1. Over(k + 1, all, new.fp[1], faults, ruleState, channelState)
    <3>1. CASE rest = <<>>
      <4>1. m - 1 = 0
        BY <1>1, <3>1, EmptySeq
      <4> QED
        BY <1>1, <1>4, <4>1 DEF Over
    <3>2. CASE Cut(inc.fp[1], Head(targets))
      <4>1. k + 1 > 0 /\ Head(targets) = all[k + 1]
        BY <1>1, <1>4, <1>5
      <4> QED
        BY <3>2, <4>1 DEF Over, Cut
    <3> QED
      BY <3>1, <3>2
  <2> QED
    BY <1>4, <1>5, <1>7, <2>1, Zenon DEF Told, ToldIn
<1> QED
  BY <1>8, <1>9 DEF rest

LEMMA AlertSend ==
  ASSUME Inv, AlertInv, NEW v \in Evaluators, SendAndRecord(v) PROVE AlertInv'
<1> DEFINE i == eval[v].id
           targets == eval[v].targets
           channel == Head(targets)
           rest == Tail(targets)
           inc == [incidents[i] EXCEPT !.tried = @ \cup {channel}]
           recorded == channelState[channel] = "live" /\ ruleState[RuleOf(i)] = "live"
<1>1. /\ UNCHANGED <<ruleState, channelState, cache, faults>> /\ DOMAIN eval = Evaluators
      /\ eval[v].pc = "send" /\ targets # <<>> /\ targets \in Seq(Channels)
      /\ eval[v] \in EvalType(Len(incidents)) /\ i \in Ids /\ incidents[i] \in IncidentType
      /\ incidents' = [incidents EXCEPT ![i] = inc]
  BY SendFacts, IncidentFacts DEF SendAndRecord, tables, counters, Inv, EvalsOK, EvalOK
<1>2. Later /\ CreatedRules' = CreatedRules
  BY <1>1 DEF Later, CreatedRules
<1>3. RulesThere /\ AlertsGoOut /\ ChannelsThere
  BY DEF AlertInv
<1>4. channel \in Channels /\ rest \in Seq(Channels) /\ (rest # <<>> => Len(rest) \in Nat)
  BY <1>1, HeadTailProperties, LenProperties
<1>5. recorded \/ Cut(incidents[i].fp[1], channel)
  <2>1. ruleState[RuleOf(i)] # "absent" /\ RuleOf(i) \in Rules
    BY <1>1, <1>3 DEF RulesThere, CreatedRules, RuleOf
  <2>2. /\ ruleState[RuleOf(i)] \in {"absent", "live", "deleted"}
        /\ channelState[channel] \in {"absent", "live", "deleted"}
    BY <1>4, <2>1 DEF Inv, OthersOK
  <2> QED
    BY <1>3, <2>1, <2>2 DEF Cut, CutIn, ChannelsThere, RuleOf
<1>6. eval' = [eval EXCEPT ![v] =
        IF ~ recorded THEN Idle
        ELSE IF rest = <<>> THEN Continue(eval[v].event, eval[v].rules)
        ELSE [eval[v] EXCEPT !.targets = rest]]
  <2>1. CASE recorded
    BY <2>1 DEF SendAndRecord
  <2>2. CASE ~ recorded
    BY <2>2 DEF SendAndRecord, EndEvaluation
  <2> QED
    BY <2>1, <2>2
<1>7. /\ inc \in IncidentType /\ inc.fp = incidents[i].fp /\ inc.muted = incidents[i].muted
      /\ inc.tried = incidents[i].tried \cup {channel}
  BY <1>1, <1>4, TriedType, TriedGrows
<1>8. /\ Ids' = Ids
      /\ \A j \in Ids : incidents'[j] = IF j = i THEN inc ELSE incidents[j]
  <2>1. incidents \in Seq(IncidentType) /\ i \in 1 .. Len(incidents)
    BY <1>1 DEF Ids, Inv, IncidentsOK
  <2>2. /\ Len(incidents') = Len(incidents)
        /\ \A j \in 1 .. Len(incidents) : incidents'[j] = IF j = i THEN inc ELSE incidents[j]
    BY <1>1, <1>7, <2>1, ExceptSeq
  <2> QED
    BY <2>2 DEF Ids
<1> DEFINE going == IF recorded THEN Continue(eval[v].event, eval[v].rules) ELSE Idle
           sending == [eval[v] EXCEPT !.targets = rest]
<1>9. /\ going.pc \in {"idle", "next"} /\ going.rules \subseteq eval[v].rules
      /\ sending.pc = "send" /\ sending.rules = eval[v].rules /\ sending.id = i
      /\ sending.targets = rest
  BY <1>1, ContinueFacts DEF EvalType, Idle
<1>10. /\ eval'[v] = IF recorded /\ rest # <<>> THEN sending ELSE going
       /\ \A w \in Evaluators \ {v} : eval'[w] = eval[w]
  BY <1>1, <1>6
<1> HIDE DEF going, sending, inc, recorded
<1>11. /\ rest # <<>> => Halfway(rest, inc)
       /\ rest = <<>> \/ ~ recorded => Told(inc)
  <2>1. Halfway(targets, incidents[i])
    BY <1>1, <1>3 DEF AlertsGoOut
  <2>2. ChannelsOf[incidents[i].fp[1]] \in Seq(Channels)
    BY <1>1, IncidentFacts, IncidentsAssumption DEF IncidentsAssumption, Inv
  <2> HIDE DEF targets, i
  <2> QED
    BY <1>1, <1>5, <1>7, <2>1, <2>2, HalfwayOn
<1>12. RulesThere'
  <2>1. \A w \in Evaluators : RulesKnown(eval'[w], CreatedRules)
    BY <1>3, <1>9, <1>10 DEF RulesThere, RulesKnown
  <2>2. \A j \in Ids : incidents'[j].fp[1] \in CreatedRules
    BY <1>1, <1>3, <1>7, <1>8 DEF RulesThere
  <2> QED
    BY <1>1, <1>2, <1>3, <1>8, <2>1, <2>2 DEF RulesThere
<1>13. \A w \in Evaluators \ {v} : eval[w].pc = "send" => eval[w].id \in Ids /\ eval[w].id # i
  BY <1>1, <1>3, SendFacts DEF AlertsGoOut, Sends
<1>14. ASSUME NEW j \in Ids PROVE Told(incidents[j])' \/ \E w \in Evaluators : Sends(w, j)'
  <2>1. CASE j # i
    <3>1. ASSUME NEW w \in Evaluators, Sends(w, j) PROVE Sends(w, j)'
      BY <1>10, <2>1, <3>1 DEF Sends
    <3>2. Told(incidents[j]) => ToldNext(incidents'[j])
      <4>1. /\ incidents[j].fp[1] \in Rules /\ incidents'[j] = incidents[j]
            /\ ChannelsOf[incidents[j].fp[1]] \in Seq(Channels)
        BY <1>8, <2>1, RulesOf, IncidentsAssumption DEF IncidentsAssumption
      <4> QED
        BY <1>2, <4>1, ToldStays
    <3> QED
      BY <1>3, <3>1, <3>2 DEF AlertsGoOut, Told, ToldNext
  <2>2. CASE j = i /\ (rest = <<>> \/ ~ recorded)
    <3>1. incidents'[j] = inc
      BY <1>8, <2>2
    <3>2. ToldNext(inc)
      <4>1. /\ inc.fp[1] \in Rules /\ ChannelsOf[inc.fp[1]] \in Seq(Channels)
        BY <1>1, <1>7, RulesOf, IncidentsAssumption DEF IncidentsAssumption
      <4> QED
        BY <1>2, <1>11, <2>2, <4>1, ToldStays
    <3> QED
      BY <2>2, <3>1, <3>2 DEF Told, ToldNext
  <2>3. CASE j = i /\ rest # <<>> /\ recorded
    BY <1>9, <1>10, <2>3 DEF Sends
  <2> QED
    BY <2>1, <2>2, <2>3
<1>15. ASSUME NEW w \in Evaluators, eval'[w].pc = "send"
       PROVE  Halfway(eval'[w].targets, incidents'[eval'[w].id])
  <2>1. CASE w = v
    BY <1>1, <1>8, <1>9, <1>10, <1>11, <1>15, <2>1
  <2>2. CASE w # v
    BY <1>3, <1>8, <1>10, <1>13, <1>15, <2>2 DEF AlertsGoOut
  <2> QED
    BY <2>1, <2>2
<1>16. ASSUME NEW w \in Evaluators, NEW u \in Evaluators, eval'[w].pc = "send",
              Sends(u, eval[w].id)'
       PROVE  w = u
  <2>1. \A x \in Evaluators : eval'[x].pc = "send" =>
           eval[x].pc = "send" /\ eval'[x].id = eval[x].id
    BY <1>1, <1>9, <1>10
  <2> QED
    BY <1>3, <1>16, <2>1 DEF AlertsGoOut, Sends
<1> QED
  <2>1. ChannelsThere'
    BY <1>1, <1>3 DEF ChannelsThere
  <2> QED
    BY <1>8, <1>12, <1>14, <1>15, <1>16, <2>1 DEF AlertsGoOut, AlertInv

\* The worker and the users take nothing back that an alert depends on.
LEMMA AlertWorker ==
  ASSUME Inv, AlertInv, Tick \/ Escalate \/ AdvanceEscalation PROVE AlertInv'
<1>1. CASE Tick
  BY <1>1, AlertsAside DEF Tick, tables, counters, Ids
<1>2. ASSUME NEW d \in due, EscalateFails(d) PROVE AlertInv'
  <2>1. /\ UNCHANGED <<ruleState, channelState, cache, eval, incidents>>
        /\ faults > 0 => faults' > 0
    BY <1>2 DEF EscalateFails, Fault, tables, Inv, OthersOK
  <2> QED
    BY <2>1, AlertsAside DEF Ids
<1>3. ASSUME NEW d \in due, NEW inc, inc.fp = incidents[d.id].fp, inc \in IncidentType,
             inc.muted = incidents[d.id].muted, inc.tried = incidents[d.id].tried,
             incidents' = [incidents EXCEPT ![d.id] = inc],
             UNCHANGED <<ruleState, channelState, cache, eval, faults>>
      PROVE  AlertInv'
  BY <1>3, DueFacts, OtherUpdate, AlertsAside DEF Inv
<1>4. ASSUME NEW d \in due, Notify(d) PROVE AlertInv'
  <2> DEFINE old == incidents[d.id]
             paged == old.paged \cup {d.step}
             late == IF old.status = "open" THEN old.late ELSE old.late + 1
             inc == [old EXCEPT !.paged = paged, !.late = late]
  <2>1. incidents' = [incidents EXCEPT ![d.id] = inc]
    BY <1>4, Zenon DEF Notify
  <2>2. old \in IncidentType /\ d.step \in Nat
    BY DueFacts
  <2>3. paged \in SUBSET Nat /\ late \in Nat
    BY <2>2 DEF IncidentType
  <2> HIDE DEF paged, late, old
  <2>4. /\ inc.fp = old.fp /\ inc.muted = old.muted /\ inc.tried = old.tried
        /\ inc \in IncidentType
    <3> DEFINE mid == [old EXCEPT !.paged = paged]
    <3>1. mid \in IncidentType
      BY <2>2, <2>3 DEF IncidentType
    <3>2. inc = [mid EXCEPT !.late = late]
      BY <2>2 DEF IncidentType
    <3>3. inc.fp = old.fp /\ inc.muted = old.muted /\ inc.tried = old.tried
      BY <2>2 DEF IncidentType
    <3> HIDE DEF mid, inc
    <3>4. inc \in IncidentType
      BY <2>3, <3>1, <3>2 DEF IncidentType
    <3> QED
      BY <3>3, <3>4
  <2>5. UNCHANGED <<ruleState, channelState, cache, eval, faults>>
    BY <1>4 DEF Notify, tables, counters
  <2> HIDE DEF inc
  <2> QED
    BY <1>3, <2>1, <2>4, <2>5 DEF old
<1>5. ASSUME NEW d \in due, Exhaust(d) PROVE AlertInv'
  <2> DEFINE old == incidents[d.id]
             inc == [old EXCEPT !.timer = "none"]
  <2>1. incidents' = [incidents EXCEPT ![d.id] = inc]
    BY <1>5, Zenon DEF Exhaust
  <2>2. old \in IncidentType
    BY DueFacts
  <2>3. /\ inc.fp = old.fp /\ inc.muted = old.muted /\ inc.tried = old.tried
        /\ inc \in IncidentType
    BY <2>2 DEF IncidentType
  <2>4. UNCHANGED <<ruleState, channelState, cache, eval, faults>>
    BY <1>5 DEF Exhaust, tables, counters
  <2> HIDE DEF inc
  <2> QED
    BY <1>3, <2>1, <2>3, <2>4
<1>6. CASE AdvanceEscalation
  <2> DEFINE i == current.id
             old == incidents[i]
             step == current.step + 1
             timer == IF step < PolicySteps[RuleOf(i)] THEN "set" ELSE "none"
             inc == [old EXCEPT !.step = step, !.timer = timer]
  <2>1. incidents' = [incidents EXCEPT ![i] = inc]
    BY <1>6, Zenon DEF AdvanceEscalation
  <2>2. i \in Ids /\ old \in IncidentType /\ current.step \in Nat
    BY <1>6, IncidentFacts DEF AdvanceEscalation, Inv, CurrentOK
  <2>3. step \in Nat /\ timer \in {"none", "set"}
    BY <2>2
  <2> HIDE DEF step, timer, old, i
  <2>4. /\ inc.fp = old.fp /\ inc.muted = old.muted /\ inc.tried = old.tried
        /\ inc \in IncidentType
    <3> DEFINE mid == [old EXCEPT !.step = step]
    <3>1. mid \in IncidentType
      BY <2>2, <2>3 DEF IncidentType
    <3>2. inc = [mid EXCEPT !.timer = timer]
      BY <2>2 DEF IncidentType
    <3>3. inc.fp = old.fp /\ inc.muted = old.muted /\ inc.tried = old.tried
      BY <2>2 DEF IncidentType
    <3> HIDE DEF mid, inc
    <3>4. inc \in IncidentType
      BY <2>3, <3>1, <3>2 DEF IncidentType
    <3> QED
      BY <3>3, <3>4
  <2>5. UNCHANGED <<ruleState, channelState, cache, eval, faults>>
    BY <1>6 DEF AdvanceEscalation, tables, counters
  <2> HIDE DEF inc
  <2>6. /\ Ids' = Ids
        /\ \A j \in Ids : /\ incidents'[j].fp = incidents[j].fp
                          /\ incidents'[j].muted = incidents[j].muted
                          /\ incidents'[j].tried = incidents[j].tried
    BY <2>1, <2>2, <2>4, OtherUpdate DEF Inv, old
  <2> QED
    BY <2>5, <2>6, AlertsAside
<1> QED
  BY <1>1, <1>2, <1>4, <1>5, <1>6 DEF Escalate

LEMMA AlertAdmin == ASSUME Inv, AlertInv, Admin PROVE AlertInv'
<1>1. ASSUME NEW i, NEW from, NEW to \in {"acked", "snoozed", "resolved"},
             SetStatus(i, from, to)
      PROVE  AlertInv'
  <2> DEFINE inc == [incidents[i] EXCEPT !.status = to]
  <2>1. /\ i \in Ids /\ incidents' = [incidents EXCEPT ![i] = inc]
        /\ UNCHANGED <<ruleState, channelState, cache, eval, faults>>
    BY <1>1 DEF SetStatus, Request, tables
  <2>2. incidents[i] \in IncidentType
    BY <2>1, IncidentFacts DEF Inv
  <2>3. /\ inc.fp = incidents[i].fp /\ inc.muted = incidents[i].muted
        /\ inc.tried = incidents[i].tried /\ inc \in IncidentType
    BY <2>2 DEF IncidentType
  <2> HIDE DEF inc
  <2>4. /\ Ids' = Ids
        /\ \A j \in Ids : /\ incidents'[j].fp = incidents[j].fp
                          /\ incidents'[j].muted = incidents[j].muted
                          /\ incidents'[j].tried = incidents[j].tried
    BY <2>1, <2>3, OtherUpdate DEF Inv
  <2> QED
    BY <2>1, <2>4, AlertsAside
<1>2. ASSUME NEW r \in Rules, CreateRule(r) PROVE AlertInv'
  <2>1. /\ ruleState[r] = "absent" /\ ruleState' = [ruleState EXCEPT ![r] = "live"]
        /\ UNCHANGED <<channelState, cache, eval, faults, incidents>>
        /\ DOMAIN ruleState = Rules
    BY <1>2 DEF CreateRule, counters, Inv, OthersOK
  <2>2. Later
    BY <2>1 DEF Later, CreatedRules
  <2>3. cache.rules \subseteq CreatedRules
    BY DEF AlertInv, RulesThere
  <2> QED
    BY <2>1, <2>2, <2>3, AlertsStay DEF Ids
<1>3. ASSUME NEW r \in Rules, DeleteRule(r) PROVE AlertInv'
  <2>1. /\ ruleState' = [ruleState EXCEPT ![r] = "deleted"] /\ DOMAIN ruleState = Rules
        /\ UNCHANGED <<channelState, cache, eval, faults, incidents>>
    BY <1>3 DEF DeleteRule, Request, Inv, OthersOK
  <2>2. Later
    BY <2>1 DEF Later, CreatedRules
  <2>3. cache.rules \subseteq CreatedRules
    BY DEF AlertInv, RulesThere
  <2> QED
    BY <2>1, <2>2, <2>3, AlertsStay DEF Ids
<1>4. ASSUME NEW c \in Channels, CreateChannel(c) \/ DeleteChannel(c) PROVE AlertInv'
  <2>1. /\ UNCHANGED <<ruleState, cache, eval, faults, incidents>>
        /\ DOMAIN channelState = Channels
        /\ \/ channelState[c] = "absent" /\ channelState' = [channelState EXCEPT ![c] = "live"]
           \/ channelState' = [channelState EXCEPT ![c] = "deleted"]
    BY <1>4 DEF CreateChannel, DeleteChannel, Request, counters, Inv, OthersOK
  <2>2. Later
    BY <2>1 DEF Later, CreatedRules
  <2>3. cache.rules \subseteq CreatedRules
    BY DEF AlertInv, RulesThere
  <2> QED
    BY <2>1, <2>2, <2>3, AlertsStay DEF Ids
<1> QED
  BY <1>1, <1>2, <1>3, <1>4 DEF Admin, AckIncident, SnoozeIncident, ResolveIncident

LEMMA AlertInit == Init => AlertInv
<1> SUFFICES ASSUME Init PROVE RulesThere /\ ChannelsThere /\ AlertsGoOut
  BY DEF AlertInv
<1>1. Ids = {} /\ \A v \in Evaluators : eval[v] = Idle
  BY DEF Init, Ids
<1>2. cache.rules = {} /\ Idle.rules = {} /\ Idle.pc = "idle"
  BY DEF Init, NoEntry, Idle
<1>3. ChannelsThere
  BY IncidentsAssumption DEF Init, ChannelsThere, IncidentsAssumption
<1> QED
  BY <1>1, <1>2, <1>3 DEF RulesThere, RulesKnown, AlertsGoOut

LEMMA AlertNext == Inv /\ AlertInv /\ [Next]_vars => AlertInv'
<1> SUFFICES ASSUME Inv, AlertInv, [Next]_vars PROVE AlertInv'
  OBVIOUS
<1>1. ASSUME NEW v \in Evaluators, Evaluate(v) PROVE AlertInv'
  BY <1>1, AlertEvaluate, AlertCreate, AlertSend DEF Evaluate
<1>2. ASSUME NEW e \in Events, PassOver(e) PROVE AlertInv'
  BY <1>2, AlertsAside DEF PassOver, tables, Ids
<1>3. CASE Restart
  <2>1. /\ UNCHANGED <<ruleState, channelState, incidents>> /\ faults' > 0
        /\ cache'.rules = {} /\ \A v \in Evaluators : eval'[v] = Idle
    BY <1>3 DEF Restart, Fault, tables, NoEntry, Inv, OthersOK
  <2>2. Later /\ CreatedRules' = CreatedRules
    BY <2>1 DEF Later, CreatedRules
  <2>3. RulesThere /\ AlertsGoOut /\ ChannelsThere
    BY DEF AlertInv
  <2>4. Idle.pc = "idle" /\ Idle.rules = {}
    BY DEF Idle
  <2>5. RulesThere' /\ ChannelsThere'
    BY <2>1, <2>2, <2>3, <2>4 DEF RulesThere, RulesKnown, ChannelsThere, Ids
  <2>6. ASSUME NEW i \in Ids PROVE ToldNext(incidents[i])
    <3>1. incidents[i].fp[1] \in Rules /\ ChannelsOf[incidents[i].fp[1]] \in Seq(Channels)
      BY RulesOf, IncidentsAssumption DEF IncidentsAssumption
    <3>2. CASE Told(incidents[i])
      BY <2>1, <2>2, <3>1, <3>2, ToldStays
    <3>3. ASSUME NEW v \in Evaluators, Sends(v, i) PROVE ToldNext(incidents[i])
      <4>1. Halfway(eval[v].targets, incidents[i])
        BY <2>3, <3>3 DEF AlertsGoOut, Sends
      <4>2. PICK k \in 0 .. Len(ChannelsOf[incidents[i].fp[1]]) :
              ToldTo(k, ChannelsOf[incidents[i].fp[1]], incidents[i].tried)
        BY <4>1 DEF Halfway, Between
      <4>3. Over(k, ChannelsOf[incidents[i].fp[1]], incidents[i].fp[1],
                 faults', ruleState', channelState')
        BY <2>1 DEF Over
      <4> QED
        BY <4>1, <4>2, <4>3 DEF ToldNext, ToldIn, Halfway
    <3> QED
      BY <2>3, <3>2, <3>3 DEF AlertsGoOut
  <2> QED
    BY <2>1, <2>4, <2>5, <2>6 DEF AlertsGoOut, AlertInv, Ids, Told, ToldNext
<1>4. CASE UNCHANGED vars
  BY <1>4, AlertsAside DEF vars, Ids
<1> QED
  BY <1>1, <1>2, <1>3, <1>4, AlertIngest, AlertWorker, AlertAdmin DEF Next

(***************************************************************************)
(* Whatever deliveries fail and whichever evaluations interleave, an       *)
(* incident that is opened outside quiet hours is offered to the channels  *)
(* of its rule in order: an evaluation is on its way through them, all are *)
(* done, or the offer was cut by a restart or where the alerts table takes *)
(* no row.                                                                 *)
(***************************************************************************)
THEOREM FirstAlertIsComplete == Spec => []FirstAlertReachesAll
<1>1. Inv /\ AlertInv => FirstAlertReachesAll
  <2> SUFFICES ASSUME Inv, AlertInv, NEW i \in Ids
               PROVE  LET inc == incidents[i]
                          names == ChannelsOf[RuleOf(i)]
                      IN IF inc.muted THEN inc.tried = {}
                         ELSE \E n \in 0 .. Len(names) :
                                /\ inc.tried = {names[k] : k \in 1 .. n}
                                /\ \/ Over(n, names, RuleOf(i), faults, ruleState, channelState)
                                   \/ \E v \in Evaluators : Sends(v, i)
    BY DEF FirstAlertReachesAll, Over, CutIn, Sends
  <2>1. CASE Told(incidents[i])
    BY <2>1 DEF Told, ToldIn, ToldTo, RuleOf
  <2>2. ASSUME NEW v \in Evaluators, Sends(v, i)
        PROVE  /\ ~ incidents[i].muted
               /\ \E n \in 0 .. Len(ChannelsOf[RuleOf(i)]) :
                    incidents[i].tried = {ChannelsOf[RuleOf(i)][k] : k \in 1 .. n}
    <3>1. Halfway(eval[v].targets, incidents[i])
      BY <2>2 DEF AlertInv, AlertsGoOut, Sends
    <3> QED
      BY <3>1 DEF Halfway, Between, ToldTo, RuleOf
  <2> QED
    BY <2>1, <2>2 DEF AlertInv, AlertsGoOut
<1>2. Spec => []AlertInv
  BY Always, AlertInit, AlertNext, PTL DEF Spec
<1> QED
  BY <1>1, <1>2, Always, PTL

-----------------------------------------------------------------------------
(* What a step does to an incident.                                        *)

Aged(old, new) ==
  /\ new.fp = old.fp /\ new.muted = old.muted
  /\ old.status # "open" => new.status # "open"
  /\ old.status = "resolved" => new.status = "resolved"
  /\ old.timer = "none" => new.timer = "none"
  /\ old.count <= new.count /\ old.step <= new.step /\ old.late <= new.late
  /\ old.paged \subseteq new.paged /\ old.tried \subseteq new.tried

OnlyAge ==
  /\ Len(incidents) <= Len(incidents')
  /\ \A i \in Ids : Aged(incidents[i], incidents'[i])

LEMMA SameAge ==
  ASSUME Inv, UNCHANGED incidents
  PROVE  OnlyAge
<1>1. \A i \in Ids : /\ incidents[i].count \in Nat /\ incidents[i].step \in Nat
                     /\ incidents[i].late \in Nat
  BY IncidentFacts DEF Inv, IncidentType
<1>2. Len(incidents) \in Nat
  BY LenNat DEF Inv
<1> QED
  BY <1>1, <1>2 DEF OnlyAge, Aged

LEMMA OneAges ==
  ASSUME Inv, NEW i \in Ids, NEW inc, Aged(incidents[i], inc),
         incidents' = [incidents EXCEPT ![i] = inc]
  PROVE  OnlyAge
<1>1. incidents \in Seq(IncidentType) /\ Len(incidents) \in Nat
  BY LenNat DEF Inv, IncidentsOK
<1>2. Len(incidents') = Len(incidents)
      /\ \A j \in Ids : incidents'[j] = IF j = i THEN inc ELSE incidents[j]
  BY <1>1 DEF Ids
<1>3. \A j \in Ids : /\ incidents[j].count \in Nat /\ incidents[j].step \in Nat
                     /\ incidents[j].late \in Nat
  BY IncidentFacts DEF Inv, IncidentType
<1>4. \A j \in Ids : Aged(incidents[j], incidents[j])
  BY <1>3 DEF Aged
<1> QED
  BY <1>1, <1>2, <1>4 DEF OnlyAge

\* An update of one incident that only adds to what it holds.
LEMMA UpdateAges ==
  ASSUME NEW old \in IncidentType
  PROVE  /\ Aged(old, [old EXCEPT !.count = @ + 1])
         /\ \A S : Aged(old, [old EXCEPT !.tried = @ \cup S])
         /\ \A S, n : n \in {old.late, old.late + 1} =>
                      Aged(old, [old EXCEPT !.paged = @ \cup S, !.late = n])
         /\ Aged(old, [old EXCEPT !.timer = "none"])
         /\ \A t : old.timer = "set" => Aged(old, [old EXCEPT !.step = @ + 1, !.timer = t])
         /\ \A s \in {"acked", "snoozed", "resolved"} :
              old.status # "resolved" => Aged(old, [old EXCEPT !.status = s])
<1>1. old.count \in Nat /\ old.step \in Nat /\ old.late \in Nat
  BY DEF IncidentType
<1>2. Aged(old, [old EXCEPT !.count = @ + 1])
  BY <1>1 DEF Aged, IncidentType
<1>3. ASSUME NEW S PROVE Aged(old, [old EXCEPT !.tried = @ \cup S])
  BY <1>1 DEF Aged, IncidentType
<1>4. ASSUME NEW S, NEW n \in {old.late, old.late + 1}
      PROVE  Aged(old, [old EXCEPT !.paged = @ \cup S, !.late = n])
  BY <1>1 DEF Aged, IncidentType
<1>5. Aged(old, [old EXCEPT !.timer = "none"])
  BY <1>1 DEF Aged, IncidentType
<1>6. ASSUME NEW t, old.timer = "set"
      PROVE  Aged(old, [old EXCEPT !.step = @ + 1, !.timer = t])
  BY <1>1, <1>6 DEF Aged, IncidentType
<1>7. ASSUME NEW s \in {"acked", "snoozed", "resolved"}, old.status # "resolved"
      PROVE  Aged(old, [old EXCEPT !.status = s])
  BY <1>1, <1>7 DEF Aged, IncidentType
<1> QED
  BY <1>2, <1>3, <1>4, <1>5, <1>6, <1>7

LEMMA EvaluateAges == ASSUME Inv, NEW v \in Evaluators, Evaluate(v) PROVE OnlyAge
<1>1. EvalOK(eval[v], Len(incidents)) /\ Len(incidents) \in Nat
      /\ incidents \in Seq(IncidentType)
  BY LenNat DEF Inv, EvalsOK, IncidentsOK
<1>2. eval[v].pc \in {"bump", "send"} => eval[v].id \in Ids
  BY <1>1 DEF EvalOK, EvalType, Ids
<1>3. CASE BumpIncident(v)
  <2> DEFINE i == eval[v].id
             inc == [incidents[i] EXCEPT !.count = @ + 1]
  <2>1. i \in Ids /\ incidents' = [incidents EXCEPT ![i] = inc]
    BY <1>2, <1>3 DEF BumpIncident
  <2>2. incidents[i] \in IncidentType
    BY <2>1, IncidentFacts DEF Inv
  <2>3. Aged(incidents[i], inc)
    BY <2>2, UpdateAges
  <2> HIDE DEF i, inc
  <2> QED
    BY <2>1, <2>3, OneAges
<1>4. CASE SendAndRecord(v)
  <2> DEFINE i == eval[v].id
             S == {Head(eval[v].targets)}
             inc == [incidents[i] EXCEPT !.tried = @ \cup S]
  <2>1. i \in Ids /\ incidents' = [incidents EXCEPT ![i] = inc]
    BY <1>2, <1>4, Zenon DEF SendAndRecord
  <2>2. incidents[i] \in IncidentType
    BY <2>1, IncidentFacts DEF Inv
  <2>3. Aged(incidents[i], inc)
    BY <2>2, UpdateAges
  <2> HIDE DEF i, inc
  <2> QED
    BY <2>1, <2>3, OneAges
<1>5. ASSUME NEW inc, incidents' = Append(incidents, inc) PROVE OnlyAge
  <2>1. Len(incidents') = Len(incidents) + 1 /\ \A j \in Ids : incidents'[j] = incidents[j]
    BY <1>1, <1>5 DEF Ids
  <2>2. \A j \in Ids : /\ incidents[j].count \in Nat /\ incidents[j].step \in Nat
                       /\ incidents[j].late \in Nat
    BY IncidentFacts DEF Inv, IncidentType
  <2> QED
    BY <1>1, <2>1, <2>2 DEF OnlyAge, Aged
<1>6. CASE CreateIncident(v)
  BY <1>5, <1>6, SameAge DEF CreateIncident, InsertIncident
<1>7. ASSUME NEW r \in Rules, FindOpenIncident(v, r) PROVE OnlyAge
  BY <1>7, SameAge DEF FindOpenIncident
<1> QED
  BY <1>3, <1>4, <1>6, <1>7 DEF Evaluate

LEMMA WorkerAges == ASSUME Inv, Tick \/ Escalate \/ AdvanceEscalation PROVE OnlyAge
<1>1. ASSUME NEW d \in due, Notify(d) PROVE OnlyAge
  <2> DEFINE i == d.id
             old == incidents[i]
             late == IF old.status = "open" THEN old.late ELSE old.late + 1
             S == {d.step}
             inc == [old EXCEPT !.paged = @ \cup S, !.late = late]
  <2>1. i \in Ids /\ old \in IncidentType
    BY DueFacts
  <2>2. incidents' = [incidents EXCEPT ![i] = inc]
    BY <1>1, Zenon DEF Notify
  <2>3. late \in {old.late, old.late + 1}
    OBVIOUS
  <2>4. Aged(old, inc)
    <3> HIDE DEF old, late, S
    <3> QED
      BY <2>1, <2>3, UpdateAges
  <2> HIDE DEF inc
  <2> QED
    BY <2>1, <2>2, <2>4, OneAges
<1>2. ASSUME NEW d \in due, Exhaust(d) PROVE OnlyAge
  <2> DEFINE i == d.id
             old == incidents[i]
             inc == [old EXCEPT !.timer = "none"]
  <2>1. i \in Ids /\ old \in IncidentType
    BY DueFacts
  <2>2. incidents' = [incidents EXCEPT ![i] = inc]
    BY <1>2, Zenon DEF Exhaust
  <2>3. Aged(old, inc)
    BY <2>1, UpdateAges
  <2> HIDE DEF inc
  <2> QED
    BY <2>1, <2>2, <2>3, OneAges
<1>3. CASE AdvanceEscalation
  <2> DEFINE i == current.id
             old == incidents[i]
             timer == IF current.step + 1 < PolicySteps[RuleOf(i)] THEN "set" ELSE "none"
             inc == [old EXCEPT !.step = @ + 1, !.timer = timer]
  <2>1. i \in Ids /\ current.step = old.step /\ old.timer = "set"
    BY <1>3 DEF AdvanceEscalation, Inv, CurrentOK, ListedOK
  <2>2. old \in IncidentType
    BY <2>1, IncidentFacts DEF Inv
  <2>3. incidents' = [incidents EXCEPT ![i] = inc]
    BY <1>3, <2>1 DEF AdvanceEscalation
  <2>4. Aged(old, inc)
    <3> HIDE DEF old, timer
    <3> QED
      BY <2>1, <2>2, UpdateAges
  <2> HIDE DEF inc
  <2> QED
    BY <2>1, <2>3, <2>4, OneAges
<1>4. CASE Tick
  BY <1>4, SameAge DEF Tick
<1>5. ASSUME NEW d \in due, EscalateFails(d) PROVE OnlyAge
  BY <1>5, SameAge DEF EscalateFails
<1> QED
  BY <1>1, <1>2, <1>3, <1>4, <1>5 DEF Escalate

LEMMA AdminAges == ASSUME Inv, Admin PROVE OnlyAge
<1>1. ASSUME NEW i \in Ids, AckIncident(i) \/ SnoozeIncident(i) \/ ResolveIncident(i)
      PROVE  OnlyAge
  <2>1. PICK s \in {"acked", "snoozed", "resolved"} :
           /\ incidents[i].status # "resolved"
           /\ incidents' = [incidents EXCEPT ![i] = [incidents[i] EXCEPT !.status = s]]
    BY <1>1 DEF AckIncident, SnoozeIncident, ResolveIncident, SetStatus
  <2> DEFINE inc == [incidents[i] EXCEPT !.status = s]
  <2>2. incidents[i] \in IncidentType
    BY IncidentFacts DEF Inv
  <2>3. Aged(incidents[i], inc)
    BY <2>1, <2>2, UpdateAges
  <2> HIDE DEF inc
  <2> QED
    BY <2>1, <2>3, OneAges DEF inc
<1>2. \/ \E r \in Rules : CreateRule(r) \/ DeleteRule(r)
      \/ \E c \in Channels : CreateChannel(c) \/ DeleteChannel(c)
      => UNCHANGED incidents
  BY DEF CreateRule, DeleteRule, CreateChannel, DeleteChannel
<1> QED
  BY <1>1, <1>2, SameAge DEF Admin

\* The incidents table only grows older: no thread is lost, what was resolved stays
\* resolved and what somebody reacted to never opens again, however the evaluators'
\* counts, the worker's steps and the users' clicks interleave; a step never falls
\* back, and an escalation that has run out never becomes due again.
THEOREM IncidentsOnlyAge == Spec => [][OnlyAge]_vars
<1>1. Inv /\ Next => OnlyAge
  <2> SUFFICES ASSUME Inv, Next PROVE OnlyAge
    OBVIOUS
  <2>1. ASSUME NEW v \in Evaluators, NEW e \in Events, Ingest(v, e) PROVE OnlyAge
    BY <2>1, SameAge DEF Ingest
  <2>2. ASSUME NEW e \in Events, PassOver(e) PROVE OnlyAge
    BY <2>2, SameAge DEF PassOver
  <2>3. CASE Restart
    BY <2>3, SameAge DEF Restart
  <2> QED
    BY <2>1, <2>2, <2>3, EvaluateAges, WorkerAges, AdminAges DEF Next
<1> QED
  BY <1>1, Always, PTL DEF Spec

=============================================================================
