------------------------------ MODULE MCVerify ------------------------------
(* A small instance of Verify. *)
EXTENDS Verify

MCIds == 1 .. 2
MCSlices == {{1, 2}}
=============================================================================
