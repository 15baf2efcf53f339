------------------------------ MODULE MCHarness ------------------------------
(* Small instances of Harness. *)
EXTENDS Harness, TLC

CONSTANTS t1

AnyOrder == {}

=============================================================================
