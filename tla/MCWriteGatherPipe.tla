------------------------- MODULE MCWriteGatherPipe --------------------------
(* Small instances of WriteGatherPipe: a buffer of three or four bytes, stores of up *)
(* to three, so that every fill level meets every length.                   *)
EXTENDS WriteGatherPipe
MCLines == {0, 1}
=============================================================================
