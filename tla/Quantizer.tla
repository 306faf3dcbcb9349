------------------------------ MODULE Quantizer -----------------------------
(***************************************************************************)
(* The conversions of psq_l and psq_st (paired_singles.c 24-66, 151-458):  *)
(* an integer of memory is multiplied by a power of two that a table has   *)
(* for the scale in the GQR, a number of a lane by that of another table,  *)
(* and then cut to the range of the type and to an integer.                *)
(*                                                                         *)
(* A number is m * 2^e, as the record of m and e; every integer of 16 bits *)
(* times a power of two is a single, so nothing here is rounded.           *)
(***************************************************************************)
EXTENDS Integers

\* The powers of 2, as far as they tell numbers apart that a type has.
Power[n \in 0 .. 20] == IF n = 0 THEN 1 ELSE 2 * Power[n - 1]

Types  == {"U8", "U16", "I8", "I16"}

Least(type) ==
  CASE type = "I8" -> -128 [] type = "I16" -> -32768 [] OTHER -> 0
Greatest(type) ==
  CASE type = "U8" -> 255 [] type = "U16" -> 65535
    [] type = "I8" -> 127 [] type = "I16" -> 32767

\* dequantize_table and quantize_table, as exponents of 2.
Dequantum(i) == IF i < 32 THEN - i ELSE 64 - i
Quantum(i)   == IF i < 32 THEN i ELSE i - 64

\* Whatever is past Huge is out of the range of every type.
Huge == Power[20]

\* The integer part of m * 2^k
Magnitude(m, k) ==
  IF k < -20 THEN (m \div Power[20]) \div Power[-20 - k]
  ELSE IF k < 0 THEN m \div Power[-k]
  ELSE IF m = 0 THEN 0
  ELSE IF k > 20 \/ m > Huge \div Power[k] THEN Huge
  ELSE m * Power[k]
Whole(m, k) == IF m < 0 THEN - Magnitude(- m, k) ELSE Magnitude(m, k)

\* Mutant of Clamp: what is too great goes to the other end, as conversions
\* that keep the low bits do.
ClampAround(type, x) ==
  IF x > Greatest(type) \/ x < Least(type) THEN Least(type) ELSE x

Clamp(type, x) ==
  IF x > Greatest(type) THEN Greatest(type)
  ELSE IF x < Least(type) THEN Least(type) ELSE x

\* do_psq_l and do_psq_st, of one lane
Loaded(i, q)       == [m |-> q, e |-> Dequantum(i)]
Stored(type, i, x) == Clamp(type, Whole(x.m, x.e + Quantum(i)))

\* The number x is q * 2^e for some integer q of the type.
Has(type, e, x) ==
  \/ x = 0
  \/ e > 0 /\ e < 20 /\ x % Power[e] = 0 /\ x \div Power[e] \in Least(type) .. Greatest(type)
  \/ e <= 0 /\ e > -20 /\ x * Power[-e] \in Least(type) .. Greatest(type)

\* The number y = m * 2^e is x.
Is(y, x) ==
  IF y.m = 0 \/ x = 0 THEN y.m = x
  ELSE IF y.e > 0 THEN y.e < 20 /\ y.m * Power[y.e] = x
  ELSE y.e > -20 /\ x * Power[-y.e] = y.m
=============================================================================
