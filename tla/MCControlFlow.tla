---------------------------- MODULE MCControlFlow ---------------------------
(***************************************************************************)
(* A small instance of ControlFlow: three instructions of two bytes each,  *)
(* and two fields of two bits in CR.                                       *)
(***************************************************************************)
EXTENDS ControlFlow

MCVector == [c \in Causes |-> IF c \in {"reset", "syscall", "dec"} THEN 0 ELSE 2]
MCCrArgs == {<<0, 1, 2>>, <<3, 0, 3>>}
MCMsrs == {{}, {"EE", "PR", "IR", "ILE"}}
MCScratch == {[lr |-> 0, ctr |-> 0, cr |-> 9]}
=============================================================================
