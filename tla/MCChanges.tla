----------------------------- MODULE MCChanges ------------------------------
(***************************************************************************)
(* What becomes of the user's changes beside their values: "order" is the  *)
(* order of the sections, "apply" the button that puts them into effect.   *)
(* They share no state here.                                               *)
(*                                                                         *)
(* There are four section names, of which the server may hold any at       *)
(* first, in any order; the names are interchangeable, and only safety is  *)
(* checked.  Two calls of apply() overlap.                                 *)
(***************************************************************************)
EXTENDS UciApply, UciOrder, TLC

VARIABLE part

Symmetry == Permutations(Sid)

allvars == <<part, vars, ordervars>>

ChangesInit ==
  /\ part \in {"order", "apply"}
  /\ OrderInit
  /\ part # "order" => place = <<>>
  /\ Init

Ordering == OrderNext /\ UNCHANGED vars
Applying == Next /\ UNCHANGED ordervars

(* The only way in which apply() comes to a halt.                          *)
Ended == (\A c \in Call : page[c] \in {"resolved", "rejected"}) /\ UNCHANGED <<vars, ordervars>>

ChangesNext ==
  /\ UNCHANGED part
  /\ \/ part = "order" /\ Ordering
     \/ part = "apply" /\ (Applying \/ Ended)

ChangesSpec == ChangesInit /\ [][ChangesNext]_allvars

(* The types of the parts (UciOrder, UciApply).                            *)
ChangesTypeOK == IF part = "order" THEN OrderTypeOK ELSE TypeOK
=============================================================================
