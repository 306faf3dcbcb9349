---------------------------- MODULE MCIntegerUnit ----------------------------
(* Words of four bits: every pair of them is in the registers of some state. *)
EXTENDS IntegerUnit
MCOperands == {<<0, 0, 1>>, <<1, 1, 0>>, <<1, 0, 0>>}
MCRotates == {<<0, 1, 2>>, <<1, 3, 0>>, <<3, 2, 2>>}
=============================================================================
