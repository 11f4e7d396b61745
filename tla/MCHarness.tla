----------------------------- MODULE MCHarness -----------------------------
(* Small instances of Harness: three lines are enough for two of one lane   *)
(* and one of the other, or for one of each of two turns and a key between. *)
EXTENDS Harness
============================================================================
