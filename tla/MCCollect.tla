------------------------------ MODULE MCCollect ------------------------------
(* The instances of MCAllocation, with what each call is bound to collect. *)
EXTENDS Collect, MCAllocation
=============================================================================
