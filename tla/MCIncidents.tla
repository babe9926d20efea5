---------------------------- MODULE MCIncidents ----------------------------
(* Two rules on events of one kind: the second fires on the graver event    *)
(* only.  Their policies have two steps and none; the second rule has quiet *)
(* hours.  Of the channels they name, in opposite orders, c1 need not be    *)
(* there.                                                                   *)
EXTENDS Incidents, TLC

CONSTANTS r1, r2, c1, c2, mild, grave, breach

MCKindOf == [e \in Events |-> IF e = breach THEN "quality_breach" ELSE "sync_failed"]
MCMatches == r1 :> Events @@ r2 :> {grave}
MCChannelsOf == r1 :> <<c1, c2>> @@ r2 :> <<c2, c1>>
MCPolicySteps == r1 :> 2 @@ r2 :> 0

=============================================================================
