------------------------------- MODULE Sublists -------------------------------
(***************************************************************************)
(* The loops of the script that copy a list and leave some of its members  *)
(* out, as in the formvalue() of a DynamicList: SelectSeq with the set of  *)
(* what is kept for an argument, as a recursive function that can be       *)
(* reasoned about.                                                         *)
(***************************************************************************)
EXTENDS Naturals, Sequences

Within(s, S) ==
  LET kept[n \in 0 .. Len(s)] ==
        IF n = 0 THEN <<>>
        ELSE IF s[n] \in S THEN Append(kept[n - 1], s[n]) ELSE kept[n - 1]
  IN  kept[Len(s)]
=============================================================================
