----------------------------- MODULE MCUciApply -----------------------------
(***************************************************************************)
(* UciApply with two calls of apply() and a rollback after two seconds.    *)
(***************************************************************************)
EXTENDS UciApply
=============================================================================
