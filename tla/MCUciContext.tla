---------------------------- MODULE MCUciContext ----------------------------
(***************************************************************************)
(* UciContext with two chains that may overlap: on a package of up to      *)
(* three section names, one option and two values when every request is    *)
(* answered, and with all the faults on one name, one option and one       *)
(* value.  A name more than the server has left is never free: an add that *)
(* finds none is one of the writes that are refused.                       *)
(***************************************************************************)
EXTENDS UciContext

NoFaults  == {}
AllFaults == {"drop", "lose", "navigate"}
=============================================================================
