--------------------------- MODULE MCEncodeStream ---------------------------
(***************************************************************************)
(* EncodeStream for TLC. The buffer is a few aligned units long, so that   *)
(* it fills up, and frames end on a boundary or just before one.           *)
(***************************************************************************)
EXTENDS EncodeStream

MCFrameSizes == {Align - 1, Align}
MCAligned    == {Align}
=============================================================================
