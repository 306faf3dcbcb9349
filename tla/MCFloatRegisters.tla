-------------------------- MODULE MCFloatRegisters --------------------------
(***************************************************************************)
(* A small instance of FloatRegisters: two registers, the numbers from -2  *)
(* to 2, of which 2 and -2 are no singles.                                 *)
(***************************************************************************)
EXTENDS FloatRegisters

MCRound == [x \in Finite |-> IF x = 2 THEN 1 ELSE IF x = -2 THEN -1 ELSE x]
\* Modulo 5 every number but 0 has a reciprocal.
MCQuot == [x \in Finite \X Finite |->
             IF x[2] = 0 THEN NaN
             ELSE CHOOSE q \in Finite : (q * x[2] - x[1]) % 5 = 0]
MCRsqrt == [x \in Finite |-> IF x = 1 THEN 1 ELSE IF x = 2 THEN -2 ELSE NaN]

MCWords == {Status} \cup {Bits("int", x) : x \in Finite}
MCLoads == {2, NaN}
=============================================================================
