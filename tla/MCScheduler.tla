---------------------------- MODULE MCScheduler ----------------------------
(* Scheduler with one or two pipelines and a few runs at a time.           *)
EXTENDS Scheduler, TLC

CONSTANTS p1, p2, s1, s2, s3

OnePipeline  == {p1}
TwoPipelines == {p1, p2}
TwoSlots     == {s1, s2}
ThreeSlots   == {s1, s2, s3}

AnySymmetry == Permutations(Pipelines) \cup Permutations(Slots)
=============================================================================
