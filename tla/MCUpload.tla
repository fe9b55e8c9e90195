------------------------------- MODULE MCUpload -------------------------------
(***************************************************************************)
(* Upload of every file of up to three tokens, and of longer ones that     *)
(* come close to the delimiter in different ways.                          *)
(***************************************************************************)
EXTENDS Upload

SmallFiles ==
  BoundedSeq({"x", "CR", "LF", "-", "b"}, 3) \cup
  { <<"CR", "LF", "-">>,
    <<"CR", "LF", "-", "x">>,
    <<"CR", "LF", "-", "-", "x">>,
    <<"CR", "LF", "-", "-", "-", "b">>,
    <<"x", "CR", "CR", "LF", "-", "b">>,
    <<"CR", "LF", "-", "-", "CR", "LF", "-", "x">>,
    <<"CR", "LF", "CR", "LF", "-", "-">> }
=============================================================================
