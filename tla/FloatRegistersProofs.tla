------------------------ MODULE FloatRegistersProofs ------------------------
(***************************************************************************)
(* The floating-point registers for numbers, formats and programs of any   *)
(* size: every register is in the format of what was last put into it, so  *)
(* every read gets what is promised; and what the quantizer stores of a    *)
(* lane it loads back.                                                     *)
(*                                                                         *)
(* Of what is put into a register only the second lane of a pair may be    *)
(* nothing: frsp leaves it undefined.                                      *)
(***************************************************************************)
EXTENDS FloatRegisters, TLAPS

-----------------------------------------------------------------------------
(* The quantizer *)

\* The powers are those of 2.
LEMMA PowersAre ==
  /\ \A n \in 0 .. 20 : Power[n] \in Nat /\ Power[n] >= 1
  /\ Huge = 1048576
<1> DEFINE Powers(f) == f = [n \in 0 .. 20 |-> IF n = 0 THEN 1 ELSE 2 * f[n - 1]]
           T == <<1, 2, 4, 8, 16, 32, 64, 128, 256, 512, 1024, 2048, 4096, 8192, 16384,
                  32768, 65536, 131072, 262144, 524288, 1048576>>
           g == [n \in 0 .. 20 |-> T[n + 1]]
<1>1. Powers(g)
  <2>1. ASSUME NEW n \in 0 .. 20 PROVE g[n] = IF n = 0 THEN 1 ELSE 2 * g[n - 1]
    OBVIOUS
  <2> QED
    BY <2>1
<1>2. Power = CHOOSE f : Powers(f)
  BY DEF Power
<1>3. Powers(Power)
  <2> HIDE DEF Powers
  <2> QED
    BY <1>1, <1>2
<1>4. Power[0] = 1 /\ \A n \in 1 .. 20 : Power[n] = 2 * Power[n - 1]
  BY <1>3
<1>5. /\ Power[1] = 2 /\ Power[2] = 4 /\ Power[3] = 8 /\ Power[4] = 16 /\ Power[5] = 32
      /\ Power[6] = 64 /\ Power[7] = 128 /\ Power[8] = 256 /\ Power[9] = 512
      /\ Power[10] = 1024
  BY <1>4
<1>6. /\ Power[11] = 2048 /\ Power[12] = 4096 /\ Power[13] = 8192 /\ Power[14] = 16384
      /\ Power[15] = 32768 /\ Power[16] = 65536 /\ Power[17] = 131072
      /\ Power[18] = 262144 /\ Power[19] = 524288 /\ Power[20] = 1048576
  BY <1>4, <1>5
<1> QED
  BY <1>4, <1>5, <1>6 DEF Huge

\* Quotients and remainders of natural numbers.
LEMMA QuotientIs ==
  ASSUME NEW m \in Nat, NEW p \in Nat, p >= 1
  PROVE  /\ m \div p \in Nat /\ m \div p <= m
         /\ m % p \in 0 .. p - 1 /\ m = p * (m \div p) + (m % p)
OBVIOUS

\* The quotient of a multiple.
LEMMA MultipleIs ==
  ASSUME NEW w \in Nat, NEW p \in Nat, p >= 1
  PROVE  (p * w) \div p = w
<1>1. p * w \in Nat
  OBVIOUS
<1> DEFINE q == (p * w) \div p
           z == (p * w) % p
<1>2. q \in Nat /\ z \in 0 .. p - 1 /\ p * w = p * q + z
  BY <1>1, QuotientIs
<1> HIDE DEF q, z
<1>3. ~ (q < w)
  <2> SUFFICES ASSUME q + 1 <= w PROVE FALSE
    BY <1>2
  <2>1. p * (q + 1) <= p * w
    BY <1>2
  <2>2. p * (q + 1) = p * q + p
    BY <1>2
  <2> QED
    BY <1>1, <1>2, <2>1, <2>2
<1>4. ~ (w < q)
  <2> SUFFICES ASSUME w + 1 <= q PROVE FALSE
    BY <1>2
  <2>1. p * (w + 1) <= p * q
    BY <1>2
  <2>2. p * (w + 1) = p * w + p
    OBVIOUS
  <2> QED
    BY <1>1, <1>2, <2>1, <2>2
<1>5. q = w
  BY <1>2, <1>3, <1>4
<1> QED
  BY <1>5 DEF q

\* An integer without rest is the product of its quotient.
LEMMA DividedIs ==
  ASSUME NEW x \in Int, NEW p \in Nat, p >= 1, x % p = 0
  PROVE  x \div p \in Int /\ x = p * (x \div p)
OBVIOUS

\* The integer part of a magnitude is a natural number, and that of 0 is 0.
LEMMA MagnitudeType ==
  ASSUME NEW m \in Nat, NEW k \in -32 .. 31
  PROVE  Magnitude(m, k) \in Nat /\ (m = 0 => Magnitude(m, k) = 0)
<1>1. CASE k < -20
  <2>1. 20 \in 0 .. 20 /\ -20 - k \in 0 .. 20
    BY <1>1
  <2> DEFINE p == Power[20]
             q == Power[-20 - k]
             z == m \div p
  <2>2. p \in Nat /\ p >= 1 /\ q \in Nat /\ q >= 1
    BY <2>1, PowersAre
  <2> HIDE DEF p, q
  <2>3. z \in Nat /\ z <= m
    BY <2>2, QuotientIs
  <2> HIDE DEF z
  <2>4. z \div q \in Nat /\ z \div q <= z
    BY <2>2, <2>3, QuotientIs
  <2>5. Magnitude(m, k) = z \div q
    BY <1>1 DEF Magnitude, p, q, z
  <2> QED
    BY <2>3, <2>4, <2>5
<1>2. CASE k >= -20 /\ k < 0
  <2> DEFINE p == Power[-k]
  <2>1. p \in Nat /\ p >= 1
    BY <1>2, PowersAre
  <2> HIDE DEF p
  <2>2. m \div p \in Nat /\ m \div p <= m
    BY <2>1, QuotientIs
  <2>3. Magnitude(m, k) = m \div p
    BY <1>2 DEF Magnitude, p
  <2> QED
    BY <2>2, <2>3
<1>3. CASE k >= 0 /\ k <= 20
  <2> DEFINE p == Power[k]
  <2>1. p \in Nat
    BY <1>3, PowersAre
  <2> HIDE DEF p
  <2>2. m * p \in Nat
    BY <2>1
  <2>3. Magnitude(m, k) \in {0, Huge, m * p} /\ (m = 0 => Magnitude(m, k) = 0)
    BY <1>3 DEF Magnitude, p
  <2> QED
    BY <2>2, <2>3, PowersAre
<1>4. CASE k > 20
  BY <1>4, PowersAre DEF Magnitude
<1> QED
  BY <1>1, <1>2, <1>3, <1>4

\* The ends of the types
LEMMA EndsAre ==
  ASSUME NEW type \in Types
  PROVE  /\ Least(type) \in Int /\ Least(type) >= -32768 /\ Least(type) <= 0
         /\ Greatest(type) \in Int /\ Greatest(type) >= 1 /\ Greatest(type) <= 65535
BY DEF Types, Least, Greatest

\* What is cut to the range of a type is in it, keeps its sign, and is not
\* changed if it was in it.
LEMMA ClampIs ==
  ASSUME NEW type \in Types, NEW x \in Int
  PROVE  /\ Clamp(type, x) \in Least(type) .. Greatest(type)
         /\ x \in Least(type) .. Greatest(type) => Clamp(type, x) = x
         /\ Clamp(type, x) > 0 => x > 0
         /\ Clamp(type, x) < 0 => x < 0
BY EndsAre DEF Clamp

\* The integer part of a number has its sign, or is 0.
LEMMA WholeIs ==
  ASSUME NEW x \in Int, NEW k \in -32 .. 31
  PROVE  Whole(x, k) \in Int /\ (Whole(x, k) > 0 => x > 0) /\ (Whole(x, k) < 0 => x < 0)
<1>1. CASE x < 0
  <2>1. - x \in Nat
    BY <1>1
  <2>2. Magnitude(- x, k) \in Nat
    BY <2>1, MagnitudeType
  <2>3. Whole(x, k) = - Magnitude(- x, k)
    BY <1>1 DEF Whole
  <2> QED
    BY <1>1, <2>2, <2>3
<1>2. CASE x >= 0
  <2>1. x \in Nat
    BY <1>2
  <2>2. Magnitude(x, k) \in Nat /\ (x = 0 => Magnitude(x, k) = 0)
    BY <2>1, MagnitudeType
  <2>3. Whole(x, k) = Magnitude(x, k)
    BY <1>2 DEF Whole
  <2> QED
    BY <1>2, <2>2, <2>3
<1> QED
  BY <1>1, <1>2

\* A multiple of a power of 2 is divided by it.
LEMMA WholeDown ==
  ASSUME NEW x \in Int, NEW e \in 1 .. 19, x % Power[e] = 0
  PROVE  Whole(x, - e) = x \div Power[e] /\ x = Power[e] * (x \div Power[e])
<1> DEFINE p == Power[e]
           w == x \div p
<1>1. p \in Nat /\ p >= 1 /\ x % p = 0
  BY PowersAre
<1>2. Magnitude(- x, - e) = (- x) \div p /\ Magnitude(x, - e) = x \div p
  BY DEF Magnitude
<1> HIDE DEF p
<1>3. w \in Int /\ x = p * w
  BY <1>1, DividedIs
<1>4. CASE x < 0
  <2>1. - w \in Nat /\ - x = p * (- w)
    <3>1. ~ (w > 0)
      BY <1>1, <1>3, <1>4
    <3> HIDE DEF w
    <3> QED
      BY <1>1, <1>3, <3>1
  <2> HIDE DEF w
  <2>2. (p * (- w)) \div p = - w
    BY <1>1, <2>1, MultipleIs
  <2>3. Whole(x, - e) = - ((- x) \div p)
    BY <1>2, <1>4 DEF Whole
  <2>4. Whole(x, - e) = w
    BY <1>3, <2>1, <2>2, <2>3
  <2> QED
    BY <1>3, <2>4 DEF w, p
<1>5. CASE x >= 0
  <2>1. Whole(x, - e) = w
    BY <1>2, <1>5 DEF Whole
  <2> QED
    BY <1>3, <2>1 DEF w, p
<1> QED
  BY <1>4, <1>5

\* What is under n when it is multiplied by p is no more than n divided by p.
LEMMA UnderQuotient ==
  ASSUME NEW m \in Nat, NEW p \in Nat, p >= 1, NEW n \in Nat, m * p <= n
  PROVE  n \div p \in Nat /\ m <= n \div p
<1> DEFINE h == n \div p
           z == n % p
<1>1. h \in Nat /\ z \in 0 .. p - 1 /\ n = p * h + z
  BY QuotientIs
<1> HIDE DEF h, z
<1>2. ~ (m > h)
  <2> SUFFICES ASSUME m >= h + 1 PROVE FALSE
    BY <1>1
  <2>1. m * p >= (h + 1) * p
    BY <1>1
  <2>2. (h + 1) * p = p * h + p
    BY <1>1
  <2>3. m * p \in Nat /\ p * h \in Nat
    BY <1>1
  <2> QED
    BY <1>1, <2>1, <2>2, <2>3
<1>3. m <= h
  BY <1>1, <1>2
<1> QED
  BY <1>1, <1>3 DEF h

\* A magnitude whose product with a power of 2 is within the types is multiplied
\* by it.
LEMMA MagnitudeUp ==
  ASSUME NEW m \in Nat, NEW k \in 0 .. 19, m * Power[k] <= 65535
  PROVE  Magnitude(m, k) = m * Power[k]
<1>1. Power[k] \in Nat /\ Power[k] >= 1 /\ Huge \in Nat /\ Huge > 65535
  BY PowersAre
<1>2. m * Power[k] \in Nat
  BY <1>1
<1>3. m * Power[k] <= Huge
  BY <1>1, <1>2
<1>4. Huge \div Power[k] \in Nat /\ m <= Huge \div Power[k]
  BY <1>1, <1>3, UnderQuotient
<1>5. ~ (m > Huge \div Power[k])
  BY <1>4
<1>6. Magnitude(m, k) = IF m = 0 THEN 0 ELSE m * Power[k]
  BY <1>5 DEF Magnitude
<1>7. m = 0 => m * Power[k] = 0
  BY <1>1
<1> QED
  BY <1>6, <1>7

\* A number whose product with a power of 2 is within a type is multiplied by it.
LEMMA WholeUp ==
  ASSUME NEW x \in Int, NEW k \in 0 .. 19, x * Power[k] >= -32768, x * Power[k] <= 65535
  PROVE  Whole(x, k) = x * Power[k]
<1> DEFINE p == Power[k]
<1>1. p \in Nat /\ p >= 1
  BY PowersAre
<1>2. CASE x < 0
  <2>1. - x \in Nat
    BY <1>2
  <2>2. (- x) * p = - (x * p) /\ x * p \in Int /\ x * p >= -32768
    BY <1>1
  <2> HIDE DEF p
  <2>3. (- x) * p <= 65535
    BY <2>2
  <2> USE DEF p
  <2>4. Magnitude(- x, k) = (- x) * p
    BY <2>1, <2>3, MagnitudeUp
  <2>5. Whole(x, k) = - ((- x) * p)
    BY <1>2, <2>4 DEF Whole
  <2> QED
    BY <1>1, <2>2, <2>5
<1>3. CASE x >= 0
  <2>1. x \in Nat
    BY <1>3
  <2>2. Magnitude(x, k) = x * p
    BY <2>1, MagnitudeUp
  <2> QED
    BY <1>3, <2>2 DEF Whole
<1> QED
  BY <1>2, <1>3

\* A number stored with a scale and loaded with it: it stays what it was if the
\* type has it, and is in the range of the type, with its sign, in any case.
LEMMA Requantized ==
  ASSUME NEW type \in Types, NEW i \in 0 .. 63, NEW x \in Int
  PROVE  LET q == Stored(type, i, [m |-> x, e |-> 0])
         IN /\ q \in Least(type) .. Greatest(type)
            /\ Has(type, Dequantum(i), x) => Is(Loaded(i, q), x)
            /\ q # 0 => (q > 0 <=> x > 0)
<1> DEFINE k == Quantum(i)
           e == Dequantum(i)
           w == Whole(x, k)
           q == Stored(type, i, [m |-> x, e |-> 0])
<1>1. k \in -32 .. 31 /\ e \in Int /\ k \in Int /\ e = - k /\ 0 + k = k
  BY DEF Quantum, Dequantum
<1>2. q = Clamp(type, w)
  BY <1>1 DEF Stored
<1>3. Loaded(i, q) = [m |-> q, e |-> e]
  BY DEF Loaded
<1> HIDE DEF k, e, q
<1>4. w \in Int /\ (w > 0 => x > 0) /\ (w < 0 => x < 0)
  BY <1>1, WholeIs
<1> HIDE DEF w
<1>5. /\ q \in Least(type) .. Greatest(type)
      /\ w \in Least(type) .. Greatest(type) => q = w
      /\ q > 0 => w > 0
      /\ q < 0 => w < 0
  BY <1>2, <1>4, ClampIs
<1>6. /\ Least(type) \in Int /\ Least(type) >= -32768 /\ Least(type) <= 0
      /\ Greatest(type) \in Int /\ Greatest(type) >= 1 /\ Greatest(type) <= 65535
  BY EndsAre
<1>7. q # 0 => (q > 0 <=> x > 0)
  BY <1>4, <1>5, <1>6
<1>8. ASSUME Has(type, e, x) PROVE Is([m |-> q, e |-> e], x)
  <2>1. CASE x = 0
    <3>1. q = 0
      BY <1>4, <1>5, <1>6, <2>1
    <3> QED
      BY <2>1, <3>1 DEF Is
  <2>2. CASE x # 0 /\ e > 0
    <3>1. /\ e \in 1 .. 19 /\ x % Power[e] = 0
          /\ x \div Power[e] \in Least(type) .. Greatest(type)
      BY <1>1, <1>8, <2>2 DEF Has
    <3>2. Whole(x, - e) = x \div Power[e] /\ x = Power[e] * (x \div Power[e])
      BY <3>1, WholeDown
    <3>3. k = - e
      BY <1>1
    <3>4. q = x \div Power[e] /\ q \in Int
      BY <1>5, <1>6, <3>1, <3>2, <3>3 DEF w
    <3>5. Power[e] \in Nat
      BY <3>1, PowersAre
    <3>6. x = Power[e] * q
      BY <3>2, <3>4
    <3>7. q * Power[e] = x /\ q # 0
      BY <2>2, <3>4, <3>5, <3>6
    <3> QED
      BY <2>2, <3>1, <3>7 DEF Is
  <2>3. CASE x # 0 /\ ~ (e > 0)
    <3>1. - e \in 0 .. 19 /\ x * Power[- e] \in Least(type) .. Greatest(type)
      BY <1>1, <1>8, <2>3 DEF Has
    <3>2. k = - e
      BY <1>1
    <3>3. w = x * Power[- e]
      <4>1. x * Power[- e] >= -32768 /\ x * Power[- e] <= 65535
        BY <1>6, <3>1
      <4> QED
        BY <3>1, <3>2, <4>1, WholeUp DEF w
    <3>4. q = x * Power[- e]
      BY <1>5, <3>1, <3>3
    <3>5. q # 0
      <4>1. Power[- e] \in Nat /\ Power[- e] >= 1
        BY <3>1, PowersAre
      <4> QED
        BY <2>3, <3>4, <4>1
    <3> QED
      BY <1>1, <2>3, <3>1, <3>4, <3>5 DEF Is
  <2> QED
    BY <2>1, <2>2, <2>3
<1>9. Has(type, Dequantum(i), x) => Is(Loaded(i, q), x)
  BY <1>3, <1>8 DEF e
<1>10. /\ q \in Least(type) .. Greatest(type)
       /\ Has(type, Dequantum(i), x) => Is(Loaded(i, q), x)
       /\ q # 0 => (q > 0 <=> x > 0)
  BY <1>5, <1>7, <1>9
<1> QED
  BY <1>10 DEF q

-----------------------------------------------------------------------------
(* Numbers *)

\* The numbers are the finite ones, NaN and Junk, all different.
LEMMA NumbersAre ==
  /\ Top \in Nat /\ Top >= 1 /\ 0 \in Finite /\ 1 \in Finite
  /\ Finite \subseteq Int /\ NaN \in Int /\ Junk \in Int
  /\ Doubles = Finite \cup {NaN} /\ Numbers = Doubles \cup {Junk}
  /\ NaN \notin Finite /\ Junk \notin Doubles
  /\ \A x \in Finite : - x \in Finite
<1>1. Top \in Nat /\ Top >= 1
  BY NumbersAssumption DEF NumbersAssumption
<1>2. Doubles = Finite \cup {NaN}
  BY <1>1 DEF Finite, NaN, Doubles
<1>3. Numbers = Doubles \cup {Junk}
  BY <1>1 DEF Junk, Doubles, Numbers
<1>4. /\ 0 \in Finite /\ 1 \in Finite /\ Finite \subseteq Int
      /\ \A x \in Finite : - x \in Finite
  BY <1>1 DEF Finite
<1>5. /\ NaN \in Int /\ Junk \in Int /\ NaN \notin Finite /\ Junk \notin Doubles
  BY <1>1 DEF Finite, NaN, Junk, Doubles
<1> QED
  BY <1>1, <1>2, <1>3, <1>4, <1>5

\* Rounding gives a single; it leaves singles and what is no number alone, and
\* does not look at the sign.
LEMMA SinglesAre ==
  /\ Singles \subseteq Doubles /\ 0 \in Singles
  /\ \A x \in Singles : Single(x) = x /\ Neg(x) \in Singles
  /\ \A x \in Doubles : Single(x) \in Singles
  /\ Single(Junk) = Junk
<1>1. /\ \A x \in Finite : Round[x] \in Finite /\ Round[Round[x]] = Round[x]
                           /\ Round[-x] = - Round[x]
      /\ Round[0] = 0
  BY NumbersAssumption DEF NumbersAssumption
<1>2. Singles = {Round[x] : x \in Finite} \cup {NaN}
  BY DEF Singles
<1>3. ASSUME NEW x \in Singles PROVE x \in Doubles /\ Single(x) = x /\ Neg(x) \in Singles
  <2>1. CASE x = NaN
    BY <2>1, <1>2, NumbersAre DEF Single, Neg, Of
  <2>2. CASE x # NaN
    <3>1. PICK y \in Finite : x = Round[y]
      BY <1>2, <1>3, <2>2
    <3>2. x \in Finite /\ Round[x] = x
      BY <1>1, <3>1
    <3>3. Neg(x) = - x
      BY <3>2, NumbersAre DEF Neg, Of
    <3>4. - y \in Finite /\ - x = Round[-y]
      BY <1>1, <3>1, NumbersAre
    <3> QED
      BY <1>2, <3>2, <3>3, <3>4, NumbersAre DEF Single
  <2> QED
    BY <2>1, <2>2
<1>4. ASSUME NEW x \in Doubles PROVE Single(x) \in Singles
  BY <1>2, NumbersAre DEF Single
<1> QED
  BY <1>1, <1>2, <1>3, <1>4, NumbersAre DEF Single

\* A number, and a double unless one of the operands is nothing; and the same
\* of a single.
Computed(x, from) == x \in Numbers /\ (Junk \notin from => x \in Doubles)
Rounded(x, from)  == x \in Singles \cup {Junk} /\ (Junk \notin from => x \in Singles)

\* The arithmetic of the model stays within its numbers.
LEMMA WrapIn ==
  ASSUME NEW x \in Int
  PROVE  Wrap(x) \in Finite
<1> DEFINE m == 2 * Top + 1
<1>1. m \in Nat /\ m > 0
  BY NumbersAre
<1>2. (x + Top) % m \in 0 .. m - 1
  <2> HIDE DEF m
  <2> QED
    BY <1>1, NumbersAre
<1> QED
  BY <1>2, NumbersAre DEF Wrap, Finite

\* An operation of doubles that gives a double makes a number of any operands.
LEMMA OfIs ==
  ASSUME NEW from \in SUBSET Numbers, NEW x, from \subseteq Finite => x \in Doubles
  PROVE  Computed(Of(from, x), from)
BY NumbersAre DEF Of, Computed

\* Every operation gives a number; Junk comes from Junk alone.
LEMMA OperationsAre ==
  ASSUME NEW x \in Numbers, NEW y \in Numbers
  PROVE  /\ Computed(Add(x, y), {x, y}) /\ Computed(Sub(x, y), {x, y})
         /\ Computed(Mul(x, y), {x, y}) /\ Computed(Div(x, y), {x, y})
         /\ Computed(Neg(x), {x}) /\ Computed(RootOf(x), {x})
         /\ \A op : Computed(Signed(op, x), {x})
<1>1. {x, y} \subseteq Numbers
  OBVIOUS
<1>2. ASSUME x \in Finite, y \in Finite
      PROVE  Wrap(x + y) \in Doubles /\ Wrap(x - y) \in Doubles /\ Wrap(x * y) \in Doubles
  <2>1. x \in Int /\ y \in Int
    BY <1>2, NumbersAre
  <2>2. x + y \in Int /\ x - y \in Int /\ x * y \in Int
    BY <2>1
  <2> QED
    BY <2>2, WrapIn, NumbersAre
<1>3. /\ Computed(Add(x, y), {x, y}) /\ Computed(Sub(x, y), {x, y})
      /\ Computed(Mul(x, y), {x, y})
  BY <1>1, <1>2, OfIs DEF Add, Sub, Mul
<1>4. Computed(Div(x, y), {x, y})
  <2>1. CASE {x, y} \subseteq Finite
    BY <2>1, NumbersAssumption, NumbersAre DEF NumbersAssumption, Div, Computed
  <2>2. CASE ~ ({x, y} \subseteq Finite)
    BY <1>1, <2>2, OfIs, NumbersAre DEF Div
  <2> QED
    BY <2>1, <2>2
<1>5. x \in Finite => - x \in Doubles /\ Abs(x) \in Doubles
  BY NumbersAre DEF Abs
<1>6. Computed(Neg(x), {x}) /\ \A op : Computed(Signed(op, x), {x})
  BY <1>5, OfIs DEF Neg, Signed
<1>7. Computed(RootOf(x), {x})
  BY NumbersAssumption, NumbersAre DEF NumbersAssumption, RootOf, Computed
<1> QED
  BY <1>3, <1>4, <1>6, <1>7

\* Rounding a result.
LEMMA RoundedIs ==
  ASSUME NEW x, NEW from, Computed(x, from)
  PROVE  Rounded(Single(x), from)
BY SinglesAre, NumbersAre DEF Computed, Rounded

\* So does a scalar instruction, whatever it computes.
LEMMA CalcIs ==
  ASSUME NEW op \in Ops, NEW a \in Numbers, NEW b \in Numbers, NEW c \in Numbers
  PROVE  Computed(Calc(op, a, b, c), {a, b, c})
<1>1. Computed(Mul(a, c), {a, c}) /\ Computed(Add(a, b), {a, b})
      /\ Computed(Sub(a, b), {a, b}) /\ Computed(Div(a, b), {a, b})
  BY OperationsAre
<1> DEFINE p == Mul(a, c)
<1>2. p \in Numbers
  BY <1>1 DEF Computed
<1>3. Computed(Add(p, b), {p, b}) /\ Computed(Sub(p, b), {p, b})
  BY <1>2, OperationsAre
<1>4. Add(p, b) \in Numbers /\ Sub(p, b) \in Numbers
  BY <1>3 DEF Computed
<1>5. Computed(Neg(Add(p, b)), {Add(p, b)}) /\ Computed(Neg(Sub(p, b)), {Sub(p, b)})
  BY <1>4, OperationsAre
<1> QED
  BY <1>1, <1>3, <1>5, NumbersAre DEF Ops, Calc, Computed

\* What a pair instruction computes of lanes is a single.
LEMMA LaneCalcIs ==
  ASSUME NEW op \in Ops \ {"div"}, NEW a \in Numbers, NEW b \in Numbers, NEW c \in Numbers
  PROVE  Rounded(LaneCalc(op, a, b, c), {a, b, c})
<1> DEFINE p == Single(Mul(a, c))
<1>1. Rounded(p, {a, c}) /\ Rounded(Single(Add(a, b)), {a, b})
      /\ Rounded(Single(Sub(a, b)), {a, b})
  BY OperationsAre, RoundedIs
<1>2. p \in Numbers
  BY <1>1, SinglesAre, NumbersAre DEF Rounded
<1>3. Rounded(Single(Add(p, b)), {p, b}) /\ Rounded(Single(Sub(p, b)), {p, b})
  BY <1>2, OperationsAre, RoundedIs
<1>4. ASSUME NEW x, Rounded(x, {p, b}) PROVE Rounded(Neg(x), {p, b})
  BY <1>4, SinglesAre, NumbersAre DEF Rounded, Neg, Of
<1>5. ASSUME NEW x, Rounded(x, {p, b}) PROVE Rounded(x, {a, b, c})
  <2>1. Junk \notin {a, b, c} => Junk \notin {p, b}
    BY <1>1, SinglesAre, NumbersAre DEF Rounded
  <2> QED
    BY <1>5, <2>1 DEF Rounded
<1>6. Rounded(p, {a, b, c}) /\ Rounded(Single(Add(a, b)), {a, b, c})
      /\ Rounded(Single(Sub(a, b)), {a, b, c})
  BY <1>1 DEF Rounded
<1>7. Rounded(Neg(Single(Add(p, b))), {p, b}) /\ Rounded(Neg(Single(Sub(p, b))), {p, b})
  BY <1>3, <1>4
<1>8. /\ Rounded(Single(Add(p, b)), {a, b, c}) /\ Rounded(Single(Sub(p, b)), {a, b, c})
      /\ Rounded(Neg(Single(Add(p, b))), {a, b, c})
      /\ Rounded(Neg(Single(Sub(p, b))), {a, b, c})
  BY <1>3, <1>5, <1>7
<1> HIDE DEF p
<1> QED
  BY <1>6, <1>8 DEF Ops, LaneCalc, p

-----------------------------------------------------------------------------
(* Words and registers *)

\* A register: its two words and its tag.
Cell == [hi : BitWord, lo : BitWord, ps : BOOLEAN]

\* What a register c has to be for what it holds: the promise p.  Only the
\* second lane of a pair may be nothing.
Kept(p, c) ==
  /\ p.kind # "nothing" /\ c.ps = (p.kind = "pair")
  /\ p.kind = "double" => p.n # Junk /\ c.hi = Hi(p.n) /\ c.lo = Lo(p.n)
  /\ p.kind = "pair" =>
       /\ p.a \in Singles /\ c.hi = S(p.a)
       /\ p.b \in Singles \cup {Junk} /\ (p.b # Junk => c.lo = S(p.b))
  /\ p.kind = "word" => c.lo = p.w

\* Every register is what it has to be.
Formats == \A r \in Regs : Kept(file[r], fpr[r])

\* The invariant: formats are kept by programs that are careful.
Inv == TypeOK /\ (Careful => Formats)

\* The words of numbers are words, and are read as the numbers that they stand for.
LEMMA WordsOf ==
  ASSUME NEW x \in Numbers
  PROVE  /\ S(x) \in BitWord /\ Hi(x) \in BitWord /\ Lo(x) \in BitWord
         /\ AsSingle(S(x)) = x /\ AsDouble(Hi(x), Lo(x)) = x
<1>1. Abs(x) \in Numbers /\ 0 \in Numbers
  BY NumbersAre DEF Abs, Numbers
<1>2. \A kind \in {"zero", "single", "high", "low"}, y \in Numbers :
        Bits(kind, y) \in BitWord
  BY DEF Bits, BitWord
<1>3. S(x) \in BitWord /\ Hi(x) \in BitWord /\ Lo(x) \in BitWord
  BY <1>1, <1>2 DEF S, Hi, Lo, Zero
<1> QED
  BY <1>3 DEF S, Hi, Lo, Zero, Bits, AsSingle, AsDouble

\* Any words are read as a number, or as Junk.
LEMMA ReadType ==
  ASSUME NEW u \in BitWord, NEW w \in BitWord
  PROVE  AsSingle(u) \in Numbers /\ AsDouble(u, w) \in Numbers
<1>1. u.kind \in {"zero", "single", "high"} => u.v \in Numbers
  BY FormatsAssumption DEF FormatsAssumption, BitWord
<1> QED
  BY <1>1, NumbersAre DEF AsSingle, AsDouble

\* Flipping or clearing the sign bit of a word.
LEMMA SignedWordIs ==
  ASSUME NEW op \in {"neg", "abs"}
  PROVE  /\ \A w \in BitWord : SignedWord(op, w) \in BitWord
         /\ \A x \in Doubles : /\ SignedWord(op, Hi(x)) = Hi(Signed(op, x))
                               /\ Lo(Signed(op, x)) = Lo(x)
                               /\ SignedWord(op, S(x)) = S(Signed(op, x))
<1>1. ASSUME NEW w \in BitWord PROVE SignedWord(op, w) \in BitWord
  <2>1. CASE w.kind \in {"single", "high"}
    <3>1. w \in [kind : {"zero", "single", "high", "low"}, v : Numbers]
      BY <2>1, FormatsAssumption DEF FormatsAssumption, BitWord
    <3>2. Signed(op, w.v) \in Numbers
      BY <3>1, OperationsAre DEF Computed
    <3>3. [w EXCEPT !.v = Signed(op, w.v)]
            \in [kind : {"zero", "single", "high", "low"}, v : Numbers]
      BY <3>1, <3>2
    <3> QED
      BY <2>1, <3>3 DEF SignedWord, BitWord
  <2>2. CASE w.kind \notin {"single", "high"}
    BY <2>2 DEF SignedWord
  <2> QED
    BY <2>1, <2>2
<1>2. ASSUME NEW x \in Doubles
      PROVE  /\ Signed(op, x) \in Doubles /\ (Signed(op, x) = 0 <=> x = 0)
             /\ Abs(Signed(op, x)) = Abs(x)
  <2>1. CASE x = NaN
    BY <2>1, NumbersAre DEF Signed, Neg, Of
  <2>2. CASE x \in Finite
    BY <2>2, NumbersAre DEF Signed, Neg, Of, Abs
  <2> QED
    BY <2>1, <2>2, NumbersAre
<1>3. ASSUME NEW x \in Doubles
      PROVE  /\ SignedWord(op, Hi(x)) = Hi(Signed(op, x))
             /\ Lo(Signed(op, x)) = Lo(x)
             /\ SignedWord(op, S(x)) = S(Signed(op, x))
  <2>1. CASE x = 0
    BY <2>1, <1>2, NumbersAre DEF SignedWord, Hi, Lo, S, Zero, Bits
  <2>2. CASE x # 0
    BY <2>2, <1>2 DEF SignedWord, Hi, Lo, S, Bits
  <2> QED
    BY <2>1, <2>2
<1> QED
  BY <1>1, <1>3

\* What is held is one of four kinds.
LEMMA HeldIs ==
  ASSUME NEW p \in Holdings
  PROVE  /\ p.kind \in {"double", "pair", "word", "nothing"}
         /\ p.kind = "double" => p = Double(p.n) /\ p.n \in Numbers
         /\ p.kind = "pair" => p = Pair(p.a, p.b) /\ p.a \in Numbers /\ p.b \in Numbers
         /\ p.kind = "word" => p = Word(p.w) /\ p.w \in Words
BY DEF Holdings, Double, Pair, Word, Nothing

\* The values that are put into registers, and the words that go with them.
LEMMA Holds ==
  /\ \A x \in Numbers : Double(x) \in Holdings
  /\ \A x, y \in Numbers : Pair(x, y) \in Holdings
  /\ \A w \in Words : Word(w) \in Holdings
  /\ Nothing \in Holdings
BY DEF Holdings

\* A double is kept by its two halves.
LEMMA DoubleKept ==
  ASSUME NEW x \in Doubles
  PROVE  Kept(Double(x), [hi |-> Hi(x), lo |-> Lo(x), ps |-> FALSE])
BY NumbersAre DEF Kept, Double

\* A pair is kept by two singles; a second lane that is nothing, by any word.
LEMMA PairKept ==
  ASSUME NEW x \in Singles, NEW y \in Singles \cup {Junk}, NEW lo, y # Junk => lo = S(y)
  PROVE  Kept(Pair(x, y), [hi |-> S(x), lo |-> lo, ps |-> TRUE])
BY DEF Kept, Pair

\* A word in the low half is kept whatever the high half is.
LEMMA WordKept ==
  ASSUME NEW w, NEW hi
  PROVE  Kept(Word(w), [hi |-> hi, lo |-> w, ps |-> FALSE])
BY DEF Kept, Word

\* What is read of a register is a number.
LEMMA ReadsType ==
  ASSUME TypeOK, NEW r \in Regs
  PROVE  /\ Scalar(r) \in Numbers /\ GetDouble(r) \in Numbers /\ GetPs0(r) \in Numbers
         /\ \A i \in 0 .. 1 : Lane(r, i) \in Numbers /\ GetLane(r, i) \in Numbers
<1>1. file[r] \in Holdings /\ fpr[r] \in Cell
  BY DEF TypeOK, Cell
<1>2. Scalar(r) \in Numbers /\ \A i \in 0 .. 1 : Lane(r, i) \in Numbers
  BY <1>1, HeldIs, NumbersAre DEF Scalar, Lane
<1>3. fpr[r].hi \in BitWord /\ fpr[r].lo \in BitWord
  BY <1>1 DEF Cell
<1>4. AsDouble(fpr[r].hi, fpr[r].lo) \in Numbers
  BY <1>3, ReadType
<1>5. Single(AsDouble(fpr[r].hi, fpr[r].lo)) \in Numbers
  BY <1>4, SinglesAre, NumbersAre
<1> QED
  BY <1>2, <1>3, <1>4, <1>5, ReadType DEF GetDouble, GetPs0, GetLane

\* Every read of a register that is kept gets what was promised; a pair has
\* singles.
LEMMA KeptReads ==
  ASSUME TypeOK, NEW r \in Regs, Kept(file[r], fpr[r])
  PROVE  /\ Scalar(r) # Junk => GetDouble(r) = Scalar(r) /\ GetPs0(r) = Single(Scalar(r))
         /\ \A i \in 0 .. 1 : Lane(r, i) # Junk =>
              /\ GetLane(r, i) = Lane(r, i) /\ Lane(r, i) \in Singles
              /\ (IF i = 0 THEN fpr[r].hi ELSE fpr[r].lo) = S(Lane(r, i))
              /\ file[r].kind = "pair" /\ fpr[r].ps
<1> DEFINE p == file[r]
           c == fpr[r]
<1>1. p \in Holdings /\ Kept(p, c)
  BY DEF TypeOK
<1> HIDE DEF p, c
<1>2. CASE p.kind = "double"
  <2>1. p.n \in Numbers /\ ~ c.ps /\ c.hi = Hi(p.n) /\ c.lo = Lo(p.n)
    BY <1>1, <1>2, HeldIs DEF Kept
  <2>2. AsDouble(c.hi, c.lo) = p.n
    BY <2>1, WordsOf
  <2> QED
    BY <1>2, <2>1, <2>2 DEF Scalar, Lane, GetDouble, GetPs0, p, c
<1>3. CASE p.kind = "pair"
  <2>1. /\ p.a \in Singles /\ c.ps /\ c.hi = S(p.a)
        /\ p.b # Junk => p.b \in Singles /\ c.lo = S(p.b)
    BY <1>1, <1>3 DEF Kept
  <2>2. p.a \in Numbers /\ Single(p.a) = p.a /\ (p.b # Junk => p.b \in Numbers)
    BY <2>1, SinglesAre, NumbersAre
  <2>3. AsSingle(c.hi) = p.a /\ (p.b # Junk => AsSingle(c.lo) = p.b)
    BY <2>1, <2>2, WordsOf
  <2>4. Scalar(r) = p.a /\ GetDouble(r) = p.a /\ GetPs0(r) = p.a
    BY <1>3, <2>1, <2>3 DEF Scalar, GetDouble, GetPs0, p, c
  <2>5. /\ Lane(r, 0) = p.a /\ Lane(r, 1) = p.b
        /\ GetLane(r, 0) = AsSingle(c.hi) /\ GetLane(r, 1) = AsSingle(c.lo)
    BY <1>3 DEF Lane, GetLane, p, c
  <2> QED
    BY <1>3, <2>1, <2>2, <2>3, <2>4, <2>5 DEF p, c
<1>4. CASE p.kind \notin {"double", "pair"}
  BY <1>4 DEF Scalar, Lane, p
<1> QED
  BY <1>2, <1>3, <1>4

\* A step that writes one register keeps the invariant if what it writes is
\* kept.
LEMMA Written ==
  ASSUME Inv, NEW d \in Regs, NEW p \in Holdings, NEW c \in Cell, Careful => Kept(p, c),
         Put(d, p), fpr' = [fpr EXCEPT ![d] = c], UNCHANGED <<pse, fp>>
  PROVE  Inv'
<1>1. TypeOK'
  BY DEF Inv, TypeOK, Put, Cell
<1>2. ASSUME Careful PROVE Formats'
  <2> SUFFICES ASSUME NEW r \in Regs PROVE Kept(file'[r], fpr'[r])
    BY DEF Formats, Kept, Hi, Lo, S, Zero, Bits
  <2>1. CASE r = d
    <3>1. file'[r] = p /\ fpr'[r] = c
      BY <2>1 DEF Inv, TypeOK, Put
    <3> QED
      BY <1>2, <3>1
  <2>2. CASE r # d
    <3>1. file'[r] = file[r] /\ fpr'[r] = fpr[r]
      BY <2>2 DEF Inv, TypeOK, Put
    <3> QED
      BY <1>2, <3>1 DEF Inv, Formats
  <2> QED
    BY <2>1, <2>2
<1> QED
  BY <1>1, <1>2 DEF Inv

-----------------------------------------------------------------------------
(* Scalar instructions *)

\* A double, a pair or a single of the code is put where that of the promise is.
LEMMA DoubleInv ==
  ASSUME Inv, NEW d \in Regs, NEW x \in Numbers, NEW y \in Numbers,
         Careful => x = y /\ y \in Doubles,
         Only(SetDouble(d, x)), PutDouble(d, y)
  PROVE  Inv'
<1> DEFINE p == Double(y)
           c == [hi |-> Hi(x), lo |-> Lo(x), ps |-> FALSE]
<1>1. p \in Holdings /\ c \in Cell
  BY Holds, WordsOf DEF Cell
<1>2. Careful => Kept(p, c)
  BY DoubleKept
<1>3. Put(d, p) /\ fpr' = [fpr EXCEPT ![d] = c] /\ UNCHANGED <<pse, fp>>
  BY DEF Only, SetDouble, Set, PutDouble
<1> HIDE DEF p, c
<1> QED
  BY <1>1, <1>2, <1>3, Written

\* An instruction that leaves a pair of singles.
LEMMA PairInv ==
  ASSUME Inv, NEW d \in Regs, NEW hi \in BitWord, NEW lo \in BitWord, NEW ps \in BOOLEAN,
         NEW x \in Numbers, NEW y \in Numbers,
         Careful => /\ ps /\ x \in Singles /\ hi = S(x)
                    /\ y # Junk => y \in Singles /\ lo = S(y),
         Only(Set(d, hi, lo, ps)), PutPair(d, x, y)
  PROVE  Inv'
<1> DEFINE p == Pair(x, y)
           c == [hi |-> hi, lo |-> lo, ps |-> ps]
<1>1. p \in Holdings /\ c \in Cell
  BY Holds DEF Cell
<1>2. Careful => Kept(p, c)
  BY PairKept
<1>3. Put(d, p) /\ fpr' = [fpr EXCEPT ![d] = c] /\ UNCHANGED <<pse, fp>>
  BY DEF Only, Set, PutPair
<1> HIDE DEF p, c
<1> QED
  BY <1>1, <1>2, <1>3, Written

\* An instruction that leaves a single: a pair of it in paired-single mode.
LEMMA SingleInv ==
  ASSUME Inv, NEW d \in Regs, NEW x \in Numbers, NEW y \in Numbers,
         Careful => x = y /\ y \in Singles,
         Only(SetSingle(d, x)), PutSingle(d, y)
  PROVE  Inv'
<1>1. CASE pse
  <2>1. Only(Set(d, S(x), S(x), TRUE)) /\ PutPair(d, y, y)
    BY <1>1 DEF Only, SetSingle, SetPs, PutSingle, PutPair
  <2> QED
    BY <2>1, WordsOf, PairInv
<1>2. CASE ~ pse
  <2>1. Only(SetDouble(d, x)) /\ PutDouble(d, y)
    BY <1>2 DEF Only, SetSingle, PutSingle, PutDouble
  <2> QED
    BY <2>1, DoubleInv, SinglesAre
<1> QED
  BY <1>1, <1>2

\* A word in the low half.
LEMMA WordInv ==
  ASSUME Inv, NEW d \in Regs, NEW w \in Words,
         Only(Set(d, fpr[d].hi, w, FALSE)), PutWord(d, w)
  PROVE  Inv'
<1> DEFINE p == Word(w)
           c == [hi |-> fpr[d].hi, lo |-> w, ps |-> FALSE]
<1>1. p \in Holdings /\ c \in Cell
  BY Holds DEF Cell, Inv, TypeOK, BitWord
<1>2. Kept(p, c)
  BY WordKept
<1>3. Put(d, p) /\ fpr' = [fpr EXCEPT ![d] = c] /\ UNCHANGED <<pse, fp>>
  BY DEF Only, Set, PutWord
<1> HIDE DEF p, c
<1> QED
  BY <1>1, <1>2, <1>3, Written

\* A register that is known gives scalar instructions what was promised.
LEMMA KnownScalar ==
  ASSUME Inv, Careful, NEW from \in SUBSET Regs, Known(Scalars(from)), NEW r \in from
  PROVE  Scalar(r) # Junk /\ GetDouble(r) = Scalar(r) /\ GetPs0(r) = Single(Scalar(r))
<1>1. Scalar(r) # Junk
  BY DEF Known, Scalars
<1> QED
  BY <1>1, KeptReads DEF Inv, Formats

\* lfs and lfd
LEMMA LoadInv ==
  ASSUME Inv, NEW d \in Regs, NEW x \in Loads,
         LoadDouble(d, x) \/ (x = Single(x) /\ LoadSingle(d, x))
  PROVE  Inv'
<1>1. x \in Doubles /\ x \in Numbers
  BY FormatsAssumption, NumbersAre DEF FormatsAssumption
<1>2. CASE LoadDouble(d, x)
  BY <1>1, <1>2, DoubleInv DEF LoadDouble
<1>3. CASE x = Single(x) /\ LoadSingle(d, x)
  <2>1. x \in Singles
    BY <1>1, <1>3, SinglesAre
  <2> QED
    BY <1>1, <1>3, <2>1, SingleInv DEF LoadSingle
<1> QED
  BY <1>2, <1>3

\* fmr takes words and tag over, or, of a pair in paired-single mode, the high
\* word.
LEMMA FmrInv ==
  ASSUME Inv, NEW d \in Regs, NEW b \in Regs, Fmr(d, b)
  PROVE  Inv'
<1> DEFINE p == IF pse /\ file[b].kind = "pair" THEN Pair(file[b].a, Lane(d, 1))
                ELSE file[b]
           c == IF pse /\ fpr[b].ps THEN [hi |-> fpr[b].hi, lo |-> fpr[d].lo, ps |-> TRUE]
                ELSE [hi |-> fpr[b].hi, lo |-> fpr[b].lo, ps |-> fpr[b].ps]
<1>1. /\ TypeOK /\ file[b] \in Holdings /\ fpr[b] \in Cell /\ fpr[d] \in Cell
      /\ Lane(d, 1) \in Numbers
  BY ReadsType DEF Inv, TypeOK, Cell
<1>2. p \in Holdings
  BY <1>1, HeldIs, Holds
<1>3. c \in Cell
  BY <1>1 DEF Cell
<1>4. ASSUME Careful PROVE Kept(p, c)
  <2>1. Kept(file[b], fpr[b]) /\ Kept(file[d], fpr[d])
    BY <1>4 DEF Inv, Formats
  <2>2. fpr[b].ps <=> file[b].kind = "pair"
    BY <1>1, <2>1 DEF Kept
  <2>3. CASE pse /\ file[b].kind = "pair"
    <3>1. /\ p = Pair(file[b].a, Lane(d, 1))
          /\ c = [hi |-> fpr[b].hi, lo |-> fpr[d].lo, ps |-> TRUE]
      BY <2>2, <2>3
    <3>2. file[b].a \in Singles /\ fpr[b].hi = S(file[b].a)
      BY <2>1, <2>3 DEF Kept
    <3>3. Lane(d, 1) # Junk => Lane(d, 1) \in Singles /\ fpr[d].lo = S(Lane(d, 1))
      BY <1>1, <2>1, KeptReads
    <3> QED
      BY <3>1, <3>2, <3>3, PairKept
  <2>4. CASE ~ (pse /\ file[b].kind = "pair")
    <3>1. p = file[b] /\ c = fpr[b]
      BY <1>1, <2>2, <2>4 DEF Cell
    <3> QED
      BY <2>1, <3>1
  <2> QED
    BY <2>3, <2>4
<1>5. Put(d, p) /\ fpr' = [fpr EXCEPT ![d] = c] /\ UNCHANGED <<pse, fp>>
  BY DEF Fmr, Only, Set, Move
<1> HIDE DEF p, c
<1> QED
  BY <1>2, <1>3, <1>4, <1>5, Written

\* fneg and fabs change the high word, which is where the sign of each format is.
LEMMA FsignInv ==
  ASSUME Inv, NEW op \in {"neg", "abs"}, NEW d \in Regs, NEW b \in Regs, Fsign(op, d, b)
  PROVE  Inv'
<1> DEFINE p == CASE file[b].kind = "pair"   -> Pair(Signed(op, file[b].a), file[b].b)
                  [] file[b].kind = "double" -> Double(Signed(op, file[b].n))
                  [] OTHER                   -> file[b]
           c == [hi |-> SignedWord(op, fpr[b].hi), lo |-> fpr[b].lo, ps |-> fpr[b].ps]
<1>1. file[b] \in Holdings /\ fpr[b] \in Cell
  BY DEF Inv, TypeOK, Cell
<1>2. \A x \in Numbers : /\ Signed(op, x) \in Numbers
                         /\ x # Junk => Signed(op, x) \in Doubles
  BY OperationsAre DEF Computed
<1>3. p \in Holdings
  BY <1>1, <1>2, HeldIs, Holds
<1>4. c \in Cell
  BY <1>1, SignedWordIs DEF Cell
<1>5. ASSUME Careful PROVE Kept(p, c)
  <2>1. Kept(file[b], fpr[b])
    BY <1>5 DEF Inv, Formats
  <2>2. CASE file[b].kind = "pair"
    <3> DEFINE x == file[b].a
               y == file[b].b
    <3>1. /\ p = Pair(Signed(op, x), y) /\ fpr[b].ps /\ x \in Singles /\ fpr[b].hi = S(x)
          /\ y \in Singles \cup {Junk} /\ (y # Junk => fpr[b].lo = S(y))
      BY <1>1, <2>1, <2>2 DEF Kept, Cell
    <3>2. Signed(op, x) \in Singles
      <4>1. \/ Signed(op, x) = Neg(x) \/ Signed(op, x) = x
        BY <3>1, SinglesAre, NumbersAre DEF Signed, Neg, Of, Abs
      <4> QED
        BY <3>1, <4>1, SinglesAre
    <3>3. SignedWord(op, S(x)) = S(Signed(op, x))
      BY <3>1, SinglesAre, SignedWordIs
    <3> HIDE DEF x, y, p
    <3> QED
      BY <3>1, <3>2, <3>3, PairKept
  <2>3. CASE file[b].kind = "double"
    <3> DEFINE x == file[b].n
    <3>1. /\ p = Double(Signed(op, x)) /\ ~ fpr[b].ps /\ x \in Doubles
          /\ fpr[b].hi = Hi(x) /\ fpr[b].lo = Lo(x)
      BY <1>1, <2>1, <2>3, HeldIs, NumbersAre DEF Kept, Cell
    <3>2. /\ SignedWord(op, Hi(x)) = Hi(Signed(op, x)) /\ Lo(Signed(op, x)) = Lo(x)
          /\ Signed(op, x) \in Doubles
      BY <1>2, <3>1, SignedWordIs, NumbersAre
    <3>3. fpr[b].ps = FALSE
      BY <1>1, <3>1 DEF Cell
    <3> HIDE DEF x, p
    <3> QED
      BY <3>1, <3>2, <3>3, DoubleKept
  <2>4. CASE file[b].kind \notin {"double", "pair"}
    <3>1. p = file[b]
      BY <2>4
    <3> HIDE DEF p
    <3> QED
      BY <2>1, <2>4, <3>1 DEF Kept
  <2> QED
    BY <2>2, <2>3, <2>4
<1>6. Put(d, p) /\ fpr' = [fpr EXCEPT ![d] = c] /\ UNCHANGED <<pse, fp>>
  BY DEF Fsign, Only, Set, Sign
<1> HIDE DEF p, c
<1> QED
  BY <1>3, <1>4, <1>5, <1>6, Written

\* Arithmetic on scalars
LEMMA FarithInv ==
  ASSUME Inv, NEW op \in Ops, NEW width \in {4, 8}, NEW d \in Regs, NEW a \in Regs,
         NEW b \in Regs, NEW c \in Regs, Farith(op, width, d, a, b, c)
  PROVE  Inv'
<1> DEFINE x == Calc(op, GetDouble(a), GetDouble(b), GetDouble(c))
           y == Calc(op, Scalar(a), Scalar(b), Scalar(c))
<1>1. x \in Numbers
  BY CalcIs, ReadsType DEF Inv, Computed
<1>2. Computed(y, {Scalar(a), Scalar(b), Scalar(c)})
  BY CalcIs, ReadsType DEF Inv
<1>3. Careful => x = y /\ y \in Doubles
  <2> SUFFICES ASSUME Careful PROVE x = y /\ y \in Doubles
    OBVIOUS
  <2>1. \A r \in {a, b, c} : Scalar(r) # Junk /\ GetDouble(r) = Scalar(r)
    BY KnownScalar DEF Farith
  <2>2. Junk \notin {Scalar(a), Scalar(b), Scalar(c)}
    BY <2>1
  <2> QED
    BY <1>2, <2>1, <2>2 DEF Computed
<1>4. y \in Numbers
  BY <1>2 DEF Computed
<1>5. Only(IF width = 8 THEN SetDouble(d, x) ELSE SetSingle(d, Single(x)))
      /\ (IF width = 8 THEN PutDouble(d, y) ELSE PutSingle(d, Single(y)))
  BY DEF Farith, Arith
<1> HIDE DEF x, y
<1>6. CASE width = 8
  BY <1>1, <1>3, <1>4, <1>5, <1>6, DoubleInv DEF Only
<1>7. CASE width = 4
  <2>1. Single(x) \in Numbers /\ Single(y) \in Numbers
    BY <1>1, <1>4, SinglesAre, NumbersAre
  <2>2. Careful => Single(x) = Single(y) /\ Single(y) \in Singles
    BY <1>3, SinglesAre
  <2> QED
    BY <1>5, <1>7, <2>1, <2>2, SingleInv DEF Only
<1> QED
  BY <1>6, <1>7

\* frsp leaves the second lane as it was, and promises nothing of it.
LEMMA FrspInv ==
  ASSUME Inv, NEW d \in Regs, NEW b \in Regs, Frsp(d, b)
  PROVE  Inv'
<1> DEFINE x == Single(GetDouble(b))
           y == Single(Scalar(b))
<1>1. x \in Numbers /\ y \in Numbers /\ Junk \in Numbers
  BY ReadsType, SinglesAre, NumbersAre DEF Inv
<1>2. Careful => x = y /\ y \in Singles
  <2> SUFFICES ASSUME Careful PROVE x = y /\ y \in Singles
    OBVIOUS
  <2>1. Scalar(b) # Junk /\ GetDouble(b) = Scalar(b)
    BY KnownScalar DEF Frsp
  <2>2. Scalar(b) \in Doubles
    BY <2>1, ReadsType, NumbersAre DEF Inv
  <2> QED
    BY <2>1, <2>2, SinglesAre
<1>3. CASE pse
  <2>1. Only(Set(d, S(x), fpr[d].lo, TRUE)) /\ PutPair(d, y, Junk)
    BY <1>3 DEF Frsp, Only, RoundTo, PutPair
  <2>2. S(x) \in BitWord /\ fpr[d].lo \in BitWord
    BY <1>1, WordsOf DEF Inv, TypeOK
  <2> HIDE DEF x, y
  <2> QED
    BY <1>1, <1>2, <2>1, <2>2, PairInv
<1>4. CASE ~ pse
  <2>1. Only(SetDouble(d, x)) /\ PutDouble(d, y)
    BY <1>4 DEF Frsp, Only, RoundTo, PutDouble
  <2> HIDE DEF x, y
  <2> QED
    BY <1>1, <1>2, <2>1, DoubleInv, SinglesAre
<1> QED
  BY <1>3, <1>4

\* fres; of zero it writes nothing.
LEMMA FresInv ==
  ASSUME Inv, NEW d \in Regs, NEW b \in Regs, Fres(d, b)
  PROVE  Inv'
<1> DEFINE x == IF pse THEN GetPs0(b) ELSE GetDouble(b)
           y == IF pse THEN Single(Scalar(b)) ELSE Scalar(b)
           p == IF y = Junk THEN Nothing ELSE IF y = 0 THEN file[d]
                ELSE IF pse THEN Pair(Single(Div(1, y)), Single(Div(1, y)))
                ELSE Double(Div(1, y))
           c == IF x = 0 THEN fpr[d]
                ELSE IF pse THEN [hi |-> S(Single(Div(1, x))), lo |-> S(Single(Div(1, x))),
                                  ps |-> TRUE]
                ELSE [hi |-> Hi(Div(1, x)), lo |-> Lo(Div(1, x)), ps |-> FALSE]
<1>1. x \in Numbers /\ y \in Numbers
  BY ReadsType, SinglesAre, NumbersAre DEF Inv
<1>2. ASSUME NEW z \in Numbers
      PROVE  /\ Div(1, z) \in Numbers /\ Single(Div(1, z)) \in Numbers
             /\ z # Junk => Div(1, z) \in Doubles /\ Single(Div(1, z)) \in Singles
  <2>1. Computed(Div(1, z), {1, z}) /\ 1 # Junk
    BY OperationsAre, NumbersAre
  <2> QED
    BY <2>1, SinglesAre, NumbersAre DEF Computed
<1>3. p \in Holdings
  <2>1. file[d] \in Holdings
    BY DEF Inv, TypeOK
  <2> HIDE DEF y
  <2> QED
    BY <1>1, <1>2, <2>1, Holds
<1>4. c \in Cell
  <2>1. fpr[d] \in Cell
    BY DEF Inv, TypeOK, Cell
  <2> HIDE DEF x
  <2>2. Div(1, x) \in Numbers /\ Single(Div(1, x)) \in Numbers
    BY <1>1, <1>2
  <2>3. /\ S(Single(Div(1, x))) \in BitWord
        /\ Hi(Div(1, x)) \in BitWord /\ Lo(Div(1, x)) \in BitWord
    BY <2>2, WordsOf
  <2> QED
    BY <2>1, <2>3 DEF Cell
<1>5. ASSUME Careful PROVE Kept(p, c)
  <2>1. Scalar(b) # Junk /\ GetDouble(b) = Scalar(b) /\ GetPs0(b) = Single(Scalar(b))
    BY <1>5, KnownScalar DEF Fres
  <2>2. Scalar(b) \in Doubles
    BY <2>1, ReadsType, NumbersAre DEF Inv
  <2>3. x = y /\ y # Junk
    BY <2>1, <2>2, SinglesAre, NumbersAre
  <2>4. Kept(file[d], fpr[d])
    BY <1>5 DEF Inv, Formats
  <2> HIDE DEF x, y
  <2>5. Div(1, y) \in Doubles /\ Single(Div(1, y)) \in Singles
    BY <1>1, <1>2, <2>3
  <2>6. CASE y = 0
    BY <2>3, <2>4, <2>6
  <2>7. CASE y # 0 /\ pse
    BY <2>3, <2>5, <2>7, PairKept
  <2>8. CASE y # 0 /\ ~ pse
    BY <2>3, <2>5, <2>8, DoubleKept
  <2> QED
    BY <2>6, <2>7, <2>8
<1>6. Put(d, p)
  BY DEF Fres, Reciprocal, Put, PutSingle, PutDouble, Inv, TypeOK
<1>7. fpr' = [fpr EXCEPT ![d] = c] /\ UNCHANGED <<pse, fp>>
  BY DEF Fres, Only, SetSingle, SetPs, SetDouble, Set, Inv, TypeOK
<1> HIDE DEF p, c
<1> QED
  BY <1>3, <1>4, <1>5, <1>6, <1>7, Written

\* frsqrte
LEMMA FrsqrteInv ==
  ASSUME Inv, NEW d \in Regs, NEW b \in Regs, Frsqrte(d, b)
  PROVE  Inv'
<1>1. /\ Computed(RootOf(GetDouble(b)), {GetDouble(b)})
      /\ Computed(RootOf(Scalar(b)), {Scalar(b)})
  BY ReadsType, OperationsAre DEF Inv
<1>2. Careful => Scalar(b) # Junk /\ GetDouble(b) = Scalar(b)
  BY KnownScalar DEF Frsqrte
<1> QED
  BY <1>1, <1>2, DoubleInv DEF Computed, Frsqrte, Root

\* Every scalar instruction keeps the invariant.
LEMMA ScalarInv ==
  ASSUME Inv, NEW d \in Regs, NEW a \in Regs, NEW b \in Regs, ScalarStep(d, a, b)
  PROVE  Inv'
<1>1. CASE \E x \in Loads : LoadDouble(d, x) \/ (x = Single(x) /\ LoadSingle(d, x))
  BY <1>1, LoadInv
<1>2. CASE Fmr(d, b) \/ Frsp(d, b) \/ Fres(d, b) \/ Frsqrte(d, b)
  BY <1>2, FmrInv, FrspInv, FresInv, FrsqrteInv
<1>3. CASE Mffs(d)
  BY <1>3, WordInv, FormatsAssumption DEF Mffs, FormatsAssumption
<1>4. CASE \E op \in {"neg", "abs"} : Fsign(op, d, b)
  BY <1>4, FsignInv
<1>5. CASE \E op \in Ops, width \in {4, 8}, c \in Regs : Farith(op, width, d, a, b, c)
  BY <1>5, FarithInv
<1>6. CASE \E w \in Words : Fctiwz(d, b, w)
  BY <1>6, WordInv DEF Fctiwz
<1> QED
  BY <1>1, <1>2, <1>3, <1>4, <1>5, <1>6 DEF ScalarStep

-----------------------------------------------------------------------------
(* Pair instructions *)

\* Lanes that are known are singles, in pairs, as the words say.
KnownLane(r, i) ==
  /\ GetLane(r, i) = Lane(r, i) /\ Lane(r, i) \in Singles /\ Lane(r, i) # Junk
  /\ (IF i = 0 THEN fpr[r].hi ELSE fpr[r].lo) = S(Lane(r, i))

\* A lane that is among those an instruction takes is known.
LEMMA KnownLanes ==
  ASSUME Inv, Careful, NEW L, Known(L), NEW r \in Regs, NEW i \in 0 .. 1, Lane(r, i) \in L
  PROVE  KnownLane(r, i)
<1>1. Lane(r, i) # Junk
  BY DEF Known
<1> QED
  BY <1>1, KeptReads DEF Inv, Formats, KnownLane

\* Both lanes of the operands are read as they are promised.
LEMMA KnownBoth ==
  ASSUME Inv, Careful, NEW from \in SUBSET Regs, Known(BothLanes(from)), NEW r \in from
  PROVE  KnownLane(r, 0) /\ KnownLane(r, 1)
<1>1. Lane(r, 0) \in BothLanes(from) /\ Lane(r, 1) \in BothLanes(from)
  BY DEF BothLanes
<1> QED
  BY <1>1, KnownLanes

\* psq_l
LEMMA PsqLInv ==
  ASSUME Inv, NEW d \in Regs, NEW x \in Loads, NEW y \in Loads \cup {1},
         Single(x) = x, Single(y) = y, PsqL(d, x, y)
  PROVE  Inv'
<1>1. x \in Doubles /\ y \in Doubles
  BY FormatsAssumption, NumbersAre DEF FormatsAssumption
<1>2. x \in Singles /\ y \in Singles
  BY <1>1, SinglesAre
<1>3. Only(Set(d, S(x), S(y), TRUE)) /\ PutPair(d, x, y)
  BY DEF PsqL, Pairs, SetPs
<1> QED
  BY <1>1, <1>2, <1>3, WordsOf, PairInv, NumbersAre

\* ps_mr and the merges take words over.
LEMMA PsMrInv ==
  ASSUME Inv, NEW d \in Regs, NEW b \in Regs, PsMr(d, b)
  PROVE  Inv'
<1>1. /\ Only(Set(d, fpr[b].hi, fpr[b].lo, TRUE)) /\ PutPair(d, Lane(b, 0), Lane(b, 1))
      /\ Known(BothLanes({b}))
  BY DEF PsMr, Pairs, MovePair
<1>2. Careful => KnownLane(b, 0) /\ KnownLane(b, 1)
  BY <1>1, KnownBoth
<1>3. fpr[b].hi \in BitWord /\ fpr[b].lo \in BitWord
  BY DEF Inv, TypeOK
<1>4. Lane(b, 0) \in Numbers /\ Lane(b, 1) \in Numbers
  BY ReadsType DEF Inv
<1>5. Careful => /\ Lane(b, 0) \in Singles /\ fpr[b].hi = S(Lane(b, 0))
                 /\ Lane(b, 1) \in Singles /\ fpr[b].lo = S(Lane(b, 1))
  BY <1>2 DEF KnownLane
<1> QED
  BY <1>1, <1>3, <1>4, <1>5, PairInv

\* Any lane of one register and any lane of another.
LEMMA PsMergeInv ==
  ASSUME Inv, NEW i \in 0 .. 1, NEW j \in 0 .. 1, NEW d \in Regs, NEW a \in Regs,
         NEW b \in Regs, PsMerge(i, j, d, a, b)
  PROVE  Inv'
<1> DEFINE hi == IF i = 0 THEN fpr[a].hi ELSE fpr[a].lo
           lo == IF j = 0 THEN fpr[b].hi ELSE fpr[b].lo
<1>1. /\ Only(Set(d, hi, lo, TRUE)) /\ PutPair(d, Lane(a, i), Lane(b, j))
      /\ Known({Lane(a, i), Lane(b, j)})
  BY DEF PsMerge, Pairs, Merge
<1>2. Careful => KnownLane(a, i) /\ KnownLane(b, j)
  BY <1>1, KnownLanes
<1>3. hi \in BitWord /\ lo \in BitWord
  BY DEF Inv, TypeOK
<1>4. Lane(a, i) \in Numbers /\ Lane(b, j) \in Numbers
  BY ReadsType DEF Inv
<1>5. Careful => /\ Lane(a, i) \in Singles /\ hi = S(Lane(a, i))
                 /\ Lane(b, j) \in Singles /\ lo = S(Lane(b, j))
  BY <1>2 DEF KnownLane
<1> HIDE DEF hi, lo
<1> QED
  BY <1>1, <1>3, <1>4, <1>5, PairInv

\* What the arithmetic on lanes puts is kept if the code computes what is
\* promised: the tag is the one that was there.
LEMMA LanesInv ==
  ASSUME Inv, NEW from \in SUBSET Regs, NEW d \in Regs,
         NEW hi \in BitWord, NEW lo \in BitWord,
         NEW x \in Numbers, NEW y \in Numbers,
         Careful => /\ x \in Singles /\ hi = S(x)
                    /\ y # Junk => y \in Singles /\ lo = S(y),
         Lanes(from, d, hi, lo), PutPair(d, x, y)
  PROVE  Inv'
<1>1. Only(Set(d, hi, lo, fpr[d].ps)) /\ (Careful => fpr[d].ps) /\ fpr[d].ps \in BOOLEAN
  BY DEF Lanes, Pairs, SetLanes, Inv, TypeOK
<1> QED
  BY <1>1, PairInv

\* The arithmetic of pairs, whatever lanes of the third operand it takes.
LEMMA PsArithInv ==
  ASSUME Inv, NEW op \in Ops \ {"div"}, NEW pick \in Picks(op), NEW d \in Regs,
         NEW a \in Regs, NEW b \in Regs, NEW c \in Regs, PsArith(op, pick, d, a, b, c)
  PROVE  Inv'
<1> DEFINE j == pick[1]
           k == pick[2]
           x == LaneCalc(op, GetLane(a, 0), GetLane(b, 0), GetLane(c, j))
           y == LaneCalc(op, GetLane(a, 1), GetLane(b, 1), GetLane(c, k))
           u == LaneCalc(op, Lane(a, 0), Lane(b, 0), Lane(c, j))
           v == LaneCalc(op, Lane(a, 1), Lane(b, 1), Lane(c, k))
<1>1. j \in 0 .. 1 /\ k \in 0 .. 1
  BY DEF Picks
<1>2. Lanes({a, b, c}, d, S(x), S(y)) /\ PutPair(d, u, v)
  BY DEF PsArith, LaneArith
<1> HIDE DEF j, k
<1>3. \A r \in Regs, i \in 0 .. 1 : Lane(r, i) \in Numbers /\ GetLane(r, i) \in Numbers
  BY ReadsType DEF Inv
<1>4. /\ Rounded(x, {GetLane(a, 0), GetLane(b, 0), GetLane(c, j)})
      /\ Rounded(y, {GetLane(a, 1), GetLane(b, 1), GetLane(c, k)})
      /\ Rounded(u, {Lane(a, 0), Lane(b, 0), Lane(c, j)})
      /\ Rounded(v, {Lane(a, 1), Lane(b, 1), Lane(c, k)})
  BY <1>1, <1>3, LaneCalcIs
<1>5. Careful => x = u /\ y = v /\ u \in Singles /\ v \in Singles
  <2> SUFFICES ASSUME Careful PROVE x = u /\ y = v /\ u \in Singles /\ v \in Singles
    OBVIOUS
  <2>1. \A r \in {a, b, c} : KnownLane(r, 0) /\ KnownLane(r, 1)
    BY <1>2, KnownBoth DEF Lanes, Pairs
  <2>2. \A r \in {a, b, c}, i \in 0 .. 1 : GetLane(r, i) = Lane(r, i) /\ Lane(r, i) # Junk
    BY <2>1 DEF KnownLane
  <2>3. x = u /\ y = v
    BY <1>1, <2>2
  <2>4. /\ Junk \notin {Lane(a, 0), Lane(b, 0), Lane(c, j)}
        /\ Junk \notin {Lane(a, 1), Lane(b, 1), Lane(c, k)}
    BY <1>1, <2>2
  <2> HIDE DEF x, y, u, v
  <2> QED
    BY <1>4, <2>3, <2>4 DEF Rounded
<1> HIDE DEF x, y, u, v
<1>6. x \in Numbers /\ y \in Numbers /\ u \in Numbers /\ v \in Numbers
  BY <1>4, SinglesAre, NumbersAre DEF Rounded
<1>7. S(x) \in BitWord /\ S(y) \in BitWord
  BY <1>6, WordsOf
<1> QED
  BY <1>2, <1>5, <1>6, <1>7, LanesInv

\* ps_sum0 and ps_sum1: a sum in one lane, and a lane of c in the other.
LEMMA PsSumInv ==
  ASSUME Inv, NEW i \in 0 .. 1, NEW d \in Regs, NEW a \in Regs, NEW b \in Regs,
         NEW c \in Regs, PsSum(i, d, a, b, c)
  PROVE  Inv'
<1> DEFINE x == Single(Add(GetLane(a, 0), GetLane(b, 1)))
           u == Single(Add(Lane(a, 0), Lane(b, 1)))
<1>1. \A r \in Regs, k \in 0 .. 1 : Lane(r, k) \in Numbers /\ GetLane(r, k) \in Numbers
  BY ReadsType DEF Inv
<1>2. Rounded(x, {GetLane(a, 0), GetLane(b, 1)}) /\ Rounded(u, {Lane(a, 0), Lane(b, 1)})
  <2>1. /\ Computed(Add(GetLane(a, 0), GetLane(b, 1)), {GetLane(a, 0), GetLane(b, 1)})
        /\ Computed(Add(Lane(a, 0), Lane(b, 1)), {Lane(a, 0), Lane(b, 1)})
    <3>1. /\ GetLane(a, 0) \in Numbers /\ GetLane(b, 1) \in Numbers
          /\ Lane(a, 0) \in Numbers /\ Lane(b, 1) \in Numbers
      BY <1>1
    <3> QED
      BY <3>1, OperationsAre
  <2> QED
    BY <2>1, RoundedIs
<1>3. IF i = 0 THEN Lanes({a, b, c}, d, S(x), fpr[c].lo) /\ PutPair(d, u, Lane(c, 1))
      ELSE Lanes({a, b, c}, d, fpr[c].hi, S(x)) /\ PutPair(d, Lane(c, 0), u)
  BY DEF PsSum, LaneSum
<1>4. Careful => /\ x = u /\ u \in Singles
                 /\ KnownLane(c, 0) /\ KnownLane(c, 1)
  <2> SUFFICES ASSUME Careful
               PROVE  x = u /\ u \in Singles /\ KnownLane(c, 0) /\ KnownLane(c, 1)
    OBVIOUS
  <2>1. Known(BothLanes({a, b, c}))
    BY <1>3 DEF Lanes, Pairs
  <2>2. \A r \in {a, b, c} : KnownLane(r, 0) /\ KnownLane(r, 1)
    BY <2>1, KnownBoth
  <2>3. /\ GetLane(a, 0) = Lane(a, 0) /\ GetLane(b, 1) = Lane(b, 1)
        /\ Lane(a, 0) # Junk /\ Lane(b, 1) # Junk
    BY <2>2 DEF KnownLane
  <2>4. x = u /\ Junk \notin {Lane(a, 0), Lane(b, 1)}
    BY <2>3
  <2> HIDE DEF x, u
  <2> QED
    BY <1>2, <2>2, <2>4 DEF Rounded
<1> HIDE DEF x, u
<1>5. x \in Numbers /\ u \in Numbers
  BY <1>2, SinglesAre, NumbersAre DEF Rounded
<1>6. S(x) \in BitWord /\ fpr[c].hi \in BitWord /\ fpr[c].lo \in BitWord
  BY <1>5, WordsOf DEF Inv, TypeOK
<1>7. Lane(c, 0) \in Numbers /\ Lane(c, 1) \in Numbers
  BY <1>1
<1>8. Careful => /\ Lane(c, 0) \in Singles /\ fpr[c].hi = S(Lane(c, 0))
                 /\ Lane(c, 1) \in Singles /\ fpr[c].lo = S(Lane(c, 1))
  BY <1>4 DEF KnownLane
<1>9. CASE i = 0
  BY <1>3, <1>4, <1>5, <1>6, <1>7, <1>8, <1>9, LanesInv
<1>10. CASE i # 0
  BY <1>3, <1>4, <1>5, <1>6, <1>7, <1>8, <1>10, LanesInv
<1> QED
  BY <1>9, <1>10

\* ps_neg flips the sign bits of both words.
LEMMA PsNegInv ==
  ASSUME Inv, NEW d \in Regs, NEW b \in Regs, PsNeg(d, b)
  PROVE  Inv'
<1> DEFINE x == Neg(Lane(b, 0))
           y == Neg(Lane(b, 1))
           hi == SignedWord("neg", fpr[b].hi)
           lo == SignedWord("neg", fpr[b].lo)
<1>1. Lanes({b}, d, hi, lo) /\ PutPair(d, x, y)
  BY DEF PsNeg, LaneNeg
<1>2. x \in Numbers /\ y \in Numbers
  <2>1. Lane(b, 0) \in Numbers /\ Lane(b, 1) \in Numbers
    BY ReadsType DEF Inv
  <2>2. Computed(Neg(Lane(b, 0)), {Lane(b, 0)}) /\ Computed(Neg(Lane(b, 1)), {Lane(b, 1)})
    BY <2>1, OperationsAre
  <2> QED
    BY <2>2 DEF Computed
<1>3. hi \in BitWord /\ lo \in BitWord
  BY SignedWordIs DEF Inv, TypeOK
<1>4. Careful => x \in Singles /\ y \in Singles /\ hi = S(x) /\ lo = S(y)
  <2> SUFFICES ASSUME Careful PROVE x \in Singles /\ y \in Singles /\ hi = S(x) /\ lo = S(y)
    OBVIOUS
  <2>1. KnownLane(b, 0) /\ KnownLane(b, 1)
    BY <1>1, KnownBoth DEF Lanes, Pairs
  <2>2. /\ Lane(b, 0) \in Singles /\ fpr[b].hi = S(Lane(b, 0))
        /\ Lane(b, 1) \in Singles /\ fpr[b].lo = S(Lane(b, 1))
    BY <2>1 DEF KnownLane
  <2> QED
    BY <2>2, SinglesAre, SignedWordIs DEF Signed
<1> HIDE DEF x, y, hi, lo
<1> QED
  BY <1>1, <1>2, <1>3, <1>4, LanesInv

\* ps_rsqrte
LEMMA PsRsqrteInv ==
  ASSUME Inv, NEW d \in Regs, NEW b \in Regs, PsRsqrte(d, b)
  PROVE  Inv'
<1> DEFINE X(i) == Single(RootOf(GetLane(b, i)))
           U(i) == Single(RootOf(Lane(b, i)))
<1>1. Lanes({b}, d, S(X(0)), S(X(1))) /\ PutPair(d, U(0), U(1))
  BY DEF PsRsqrte, LaneRoot
<1>2. ASSUME NEW i \in 0 .. 1
      PROVE  /\ X(i) \in Numbers /\ U(i) \in Numbers
             /\ Careful => X(i) = U(i) /\ U(i) \in Singles
  <2>1. Lane(b, i) \in Numbers /\ GetLane(b, i) \in Numbers
    BY ReadsType DEF Inv
  <2>2. Rounded(X(i), {GetLane(b, i)}) /\ Rounded(U(i), {Lane(b, i)})
    BY <2>1, OperationsAre, RoundedIs
  <2>3. X(i) \in Numbers /\ U(i) \in Numbers
    BY <2>2, SinglesAre, NumbersAre DEF Rounded
  <2>4. ASSUME Careful PROVE X(i) = U(i) /\ U(i) \in Singles
    <3>1. KnownLane(b, i)
      BY <1>1, <2>4, KnownBoth DEF Lanes, Pairs
    <3> QED
      BY <2>2, <3>1 DEF KnownLane, Rounded
  <2> QED
    BY <2>3, <2>4
<1>3. S(X(0)) \in BitWord /\ S(X(1)) \in BitWord
  BY <1>2, WordsOf
<1> HIDE DEF X, U
<1> QED
  BY <1>1, <1>2, <1>3, LanesInv

\* Every pair instruction keeps the invariant.
LEMMA PairsInv ==
  ASSUME Inv, NEW d \in Regs, NEW a \in Regs, NEW b \in Regs, PairStep(d, a, b)
  PROVE  Inv'
<1>1. CASE \E x \in Loads, y \in Loads \cup {1} :
             Single(x) = x /\ Single(y) = y /\ PsqL(d, x, y)
  BY <1>1, PsqLInv
<1>2. CASE PsMr(d, b) \/ PsNeg(d, b) \/ PsRsqrte(d, b)
  BY <1>2, PsMrInv, PsNegInv, PsRsqrteInv
<1>3. CASE \E i, j \in 0 .. 1 : PsMerge(i, j, d, a, b)
  BY <1>3, PsMergeInv
<1>4. CASE \E op \in Ops \ {"div"}, c \in Regs : \E pick \in Picks(op) :
             PsArith(op, pick, d, a, b, c)
  BY <1>4, PsArithInv
<1>5. CASE \E i \in 0 .. 1, c \in Regs : PsSum(i, d, a, b, c)
  BY <1>5, PsSumInv
<1> QED
  BY <1>1, <1>2, <1>3, <1>4, <1>5 DEF PairStep

-----------------------------------------------------------------------------
(* The invariant of every behaviour *)

\* At first every register holds the double zero.
LEMMA InitInv == Init => Inv
<1> SUFFICES ASSUME Init PROVE Inv
  OBVIOUS
<1>1. 0 \in Doubles /\ 0 \in Numbers /\ 0 \in Finite
  BY NumbersAre
<1>2. Hi(0) = Zero /\ Lo(0) = Zero
  BY NumbersAre DEF Hi, Lo, Abs
<1> DEFINE c == [hi |-> Zero, lo |-> Zero, ps |-> FALSE]
<1>3. Double(0) \in Holdings /\ c \in Cell
  BY <1>1, <1>2, Holds, WordsOf DEF Cell
<1>4. Kept(Double(0), c)
  BY <1>1, <1>2, DoubleKept
<1> HIDE DEF c
<1>5. /\ file = [r \in Regs |-> Double(0)] /\ fpr = [r \in Regs |-> c]
      /\ pse = FALSE /\ fp = FALSE
  BY DEF Init, c
<1> QED
  BY <1>3, <1>4, <1>5 DEF Inv, TypeOK, Cell, Formats

\* Every step keeps it.
LEMMA NextInv == Inv /\ [Next]_vars => Inv'
<1> SUFFICES ASSUME Inv, [Next]_vars PROVE Inv'
  OBVIOUS
<1>1. CASE fp /\ \E d, a, b \in Regs : ScalarStep(d, a, b) \/ PairStep(d, a, b)
  BY <1>1, ScalarInv, PairsInv
<1>2. ASSUME UNCHANGED <<file, fpr>>, pse' \in BOOLEAN, fp' \in BOOLEAN PROVE Inv'
  BY <1>2 DEF Inv, TypeOK, Formats, Kept, Hi, Lo, S, Zero, Bits
<1>3. CASE Refused \/ SetFp
  <2>1. UNCHANGED <<file, pse, fpr>> /\ fp' \in BOOLEAN
    BY <1>3 DEF Refused, SetFp
  <2> QED
    BY <1>2, <2>1 DEF Inv, TypeOK
<1>4. CASE \E b \in BOOLEAN : SetPse(b)
  <2>1. UNCHANGED <<file, fp, fpr>> /\ pse' \in BOOLEAN
    BY <1>4 DEF SetPse
  <2> QED
    BY <1>2, <2>1 DEF Inv, TypeOK
<1>5. CASE UNCHANGED vars
  <2>1. UNCHANGED <<file, fpr, pse, fp>>
    BY <1>5 DEF vars
  <2> QED
    BY <1>2, <2>1 DEF Inv, TypeOK
<1> QED
  BY <1>1, <1>3, <1>4, <1>5 DEF Next

\* Every register is in the format of what was last put into it.
THEOREM Invariance == Spec => []Inv
BY InitInv, NextInv, PTL DEF Spec

\* The registers and what is promised of them keep their types, whatever
\* programs do.
THEOREM TypeCorrect == Spec => []TypeOK
<1>1. Inv => TypeOK
  BY DEF Inv
<1> QED
  BY <1>1, Invariance, PTL

\* With the invariant every read gets what is promised.
LEMMA InvReads == Inv /\ Careful => ReadsAsPromised
<1> SUFFICES ASSUME Inv, Careful, NEW r \in Regs
             PROVE  /\ Meets(GetDouble(r), Scalar(r)) /\ Meets(StoredDouble(r), Scalar(r))
                    /\ Meets(GetPs0(r), Single(Scalar(r)))
                    /\ Meets(StoredSingle(r), Single(Scalar(r)))
                    /\ \A i \in 0 .. 1 : Meets(GetLane(r, i), Lane(r, i))
                    /\ file[r].kind = "word" => fpr[r].lo = file[r].w
  BY DEF ReadsAsPromised
<1>1. TypeOK /\ Kept(file[r], fpr[r])
  BY DEF Inv, Formats
<1>2. /\ Scalar(r) # Junk => GetDouble(r) = Scalar(r) /\ GetPs0(r) = Single(Scalar(r))
      /\ \A i \in 0 .. 1 : Lane(r, i) # Junk => GetLane(r, i) = Lane(r, i)
  BY <1>1, KeptReads
<1>3. Scalar(r) = Junk => Single(Scalar(r)) = Junk
  BY SinglesAre
<1>4. StoredDouble(r) = GetDouble(r)
  BY DEF StoredDouble, GetDouble
<1>5. Meets(StoredSingle(r), Single(Scalar(r)))
  BY <1>2, <1>3 DEF StoredSingle, Meets
<1>6. file[r].kind = "word" => fpr[r].lo = file[r].w
  BY <1>1 DEF Kept
<1> QED
  BY <1>2, <1>3, <1>4, <1>5, <1>6 DEF Meets

\* Whatever instructions of both kinds wrote the registers, in and out of
\* paired-single mode, every read gets what is promised, provided that pair
\* arithmetic goes to registers that hold a pair already and nothing is computed
\* from what nothing is promised of.
THEOREM ReadsAlwaysAsPromised == Careful => (Spec => []ReadsAsPromised)
<1> SUFFICES ASSUME Careful PROVE Spec => []ReadsAsPromised
  OBVIOUS
<1>1. Inv => ReadsAsPromised
  BY InvReads
<1> QED
  BY <1>1, Invariance, PTL

\* With the invariant a number of a pair is what psq_st reads.
LEMMA InvQuantizes == Inv /\ Careful => QuantizedBack
<1> SUFFICES ASSUME Inv, Careful, NEW r \in Regs, NEW lane \in 0 .. 1,
                    Lane(r, lane) \in Finite, NEW type \in Types, NEW i \in Gqrs,
                    NEW unit \in {1, 16}
             PROVE  LET x == Lane(r, lane) * unit
                        q == Stored(type, i, [m |-> GetLane(r, lane) * unit, e |-> 0])
                    IN /\ q \in Least(type) .. Greatest(type)
                       /\ Has(type, Dequantum(i), x) => Is(Loaded(i, q), x)
                       /\ q # 0 => (q > 0 <=> x > 0)
  BY DEF QuantizedBack
<1>1. TypeOK /\ Kept(file[r], fpr[r])
  BY DEF Inv, Formats
<1>2. Lane(r, lane) \in Int /\ Lane(r, lane) # Junk
  BY NumbersAre
<1>3. GetLane(r, lane) = Lane(r, lane)
  BY <1>1, <1>2, KeptReads
<1>4. Lane(r, lane) * unit \in Int
  BY <1>2
<1>5. i \in 0 .. 63
  BY FormatsAssumption DEF FormatsAssumption
<1> QED
  BY <1>3, <1>4, <1>5, Requantized

\* The same of psq_st and psq_l: a number in a pair that is stored as an integer,
\* of whatever type and scale, is loaded back with the same GQR if the type has
\* it, and otherwise keeps its sign, within the range of the type.
THEOREM QuantizedAlwaysBack == Careful => (Spec => []QuantizedBack)
<1> SUFFICES ASSUME Careful PROVE Spec => []QuantizedBack
  OBVIOUS
<1>1. Inv => QuantizedBack
  BY InvQuantizes
<1> QED
  BY <1>1, Invariance, PTL
=============================================================================
