------------------------------- MODULE MCBwmon -------------------------------
(***************************************************************************)
(* Bwmon with a ring of three entries, counters of two bits, increments of *)
(* one, and two devices that share nothing.                                *)
(***************************************************************************)
EXTENDS Bwmon
=============================================================================
