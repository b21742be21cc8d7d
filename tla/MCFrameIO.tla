----------------------------- MODULE MCFrameIO ------------------------------
(***************************************************************************)
(* Small instances of FrameIO for TLC: a short phone and a 15-digit IMEI,  *)
(* and a fragment header made of flag bytes.                               *)
(***************************************************************************)
EXTENDS FrameIO

ShortAndLong == {<<1, 3, 9>>, <<1, 2, 3, 4, 5, 6, 7, 8, 9, 0, 1, 2, 3, 4, 5>>}

WholeOrFragment == {<<>>, <<2, 32126>>}
=============================================================================
