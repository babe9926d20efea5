---------------------------- MODULE MCRunOutcome ----------------------------
(* An instance of RunOutcome with small bounds. *)
EXTENDS RunOutcome
=============================================================================
