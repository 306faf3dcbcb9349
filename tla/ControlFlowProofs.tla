------------------------- MODULE ControlFlowProofs -------------------------
(***************************************************************************)
(* Proofs about ControlFlow, for every width and number of CR fields,      *)
(* every size of the address space and of an instruction, every set of     *)
(* vectors and any depth of handlers.  First what cr.h does to the bits of *)
(* a number, and then the invariant: the registers are those of the code   *)
(* on top, and each context below is saved or, of the one just below, in   *)
(* SRR0, SRR1 and the registers that the handler has not touched yet.      *)
(***************************************************************************)
EXTENDS ControlFlow, SequenceTheorems, WellFoundedInduction, TLAPS

-----------------------------------------------------------------------------
(* Induction, quotients and remainders *)

\* A set of natural numbers has a least element: they are well founded.
LEMMA LeastNatural ==
  ASSUME NEW S \in SUBSET Nat, S # {}
  PROVE  \E x \in S : \A y \in S : x <= y
<1> DEFINE R == {p \in Nat \X Nat : p[1] < p[2]}
<1>1. IsWellFoundedOn(R, Nat)
  BY NatLessThanWellFounded DEF OpToRel
<1>2. PICK x \in S : \A y \in S : ~ (<<y, x>> \in R)
  <2> HIDE DEF R
  <2> QED
    BY <1>1, WFMin
<1>3. \A y \in S : y \in Nat
  OBVIOUS
<1>4. \A y \in S : ~ (y < x)
  BY <1>2, <1>3
<1> QED
  BY <1>3, <1>4

\* Induction, over the set of the numbers that have the property.
LEMMA SetInduction ==
  ASSUME NEW S, 0 \in S, \A n \in Nat : n \in S => n + 1 \in S
  PROVE  \A n \in Nat : n \in S
<1> SUFFICES ASSUME Nat \ S # {} PROVE FALSE
  OBVIOUS
<1>1. PICK x \in Nat \ S : \A y \in Nat \ S : x <= y
  BY LeastNatural
<1>2. x # 0 /\ x - 1 \in Nat
  BY <1>1
<1>3. x - 1 \notin S
  BY <1>2
<1> QED
  BY <1>1, <1>2, <1>3

\* A step from one value to the next gives a sequence of values.
Iterates(n, T, base, G) ==
  \E f \in [0 .. n -> T] : f[0] = base /\ \A k \in 1 .. n : f[k] = G[f[k - 1]][k]

\* There is such a sequence, so a recursive function of a number has its values.
LEMMA Iterated ==
  ASSUME NEW n \in Nat, NEW T, NEW base \in T, NEW G \in [T -> [1 .. n -> T]]
  PROVE  Iterates(n, T, base, G)
<1> DEFINE Good(m, f) == /\ f \in [0 .. m -> T] /\ f[0] = base
                         /\ \A k \in 1 .. m : f[k] = G[f[k - 1]][k]
           S == {m \in Nat : m <= n => \E f : Good(m, f)}
<1>0. \A m \in Nat : m \in S <=> (m <= n => \E f : Good(m, f))
  <2> HIDE DEF Good
  <2> QED
    OBVIOUS
<1> HIDE DEF S
<1>1. 0 \in S
  <2>1. Good(0, [k \in 0 .. 0 |-> base])
    OBVIOUS
  <2> QED
    BY <1>0, <2>1
<1>2. ASSUME NEW m \in Nat, m \in S
      PROVE  m + 1 \in S
  <2> SUFFICES ASSUME m + 1 <= n PROVE \E f : Good(m + 1, f)
    <3> HIDE DEF Good
    <3> QED
      BY <1>0
  <2>1. PICK f : Good(m, f)
    <3> HIDE DEF Good
    <3> QED
      BY <1>0, <1>2
  <2> DEFINE g == [k \in 0 .. m + 1 |-> IF k = m + 1 THEN G[f[m]][m + 1] ELSE f[k]]
  <2>2. g \in [0 .. m + 1 -> T]
    <3>1. f[m] \in T /\ m + 1 \in 1 .. n
      BY <2>1
    <3>2. G[f[m]][m + 1] \in T
      BY <3>1
    <3>3. \A k \in 0 .. m + 1 : k # m + 1 => f[k] \in T
      BY <2>1
    <3> QED
      BY <3>2, <3>3
  <2>3. g[0] = base
    BY <2>1
  <2>4. ASSUME NEW k \in 1 .. m + 1 PROVE g[k] = G[g[k - 1]][k]
    <3>1. g[k - 1] = f[k - 1]
      OBVIOUS
    <3>2. CASE k = m + 1
      <4>1. g[k] = G[f[m]][m + 1] /\ k - 1 = m
        BY <3>2
      <4> QED
        BY <3>1, <3>2, <4>1
    <3>3. CASE k # m + 1
      <4>1. k \in 1 .. m /\ g[k] = f[k]
        BY <3>3
      <4> QED
        BY <3>1, <4>1, <2>1
    <3> QED
      BY <3>2, <3>3
  <2>5. Good(m + 1, g)
    BY <2>2, <2>3, <2>4
  <2> HIDE DEF Good
  <2> QED
    BY <2>5
<1>3. n \in S
  BY <1>1, <1>2, SetInduction
<1>4. \E f : Good(n, f)
  <2> HIDE DEF Good
  <2> QED
    BY <1>0, <1>3
<1> QED
  BY <1>4 DEF Iterates

\* Quotient and remainder are unique.
LEMMA Quotients ==
  ASSUME NEW n \in Nat, n > 0, NEW p \in Int, NEW q \in Int, NEW r \in 0 .. n - 1,
         NEW s \in 0 .. n - 1, p * n + r = q * n + s
  PROVE  p = q /\ r = s
<1>1. (p - q) * n = s - r
  OBVIOUS
<1> DEFINE d == p - q
<1>2. d \in Int /\ d * n = s - r
  BY <1>1
<1> HIDE DEF d
<1>3. CASE d >= 1
  <2>1. d * n >= 1 * n
    BY <1>2, <1>3
  <2> QED
    BY <1>2, <2>1
<1>4. CASE d <= -1
  <2>1. d * n <= (-1) * n
    BY <1>2, <1>4
  <2> QED
    BY <1>2, <2>1
<1>5. CASE d = 0
  <2>1. s - r = 0
    BY <1>2, <1>5
  <2> QED
    BY <1>5, <2>1 DEF d
<1> QED
  BY <1>2, <1>3, <1>4, <1>5

\* Every number has a quotient and a remainder.
LEMMA Remainders ==
  ASSUME NEW n \in Nat, n > 0, NEW x \in Int
  PROVE  /\ x \div n \in Int /\ x % n \in 0 .. n - 1
         /\ x = (x \div n) * n + (x % n)
OBVIOUS

\* A number written as quotient and remainder has that quotient and remainder.
LEMMA Remainder ==
  ASSUME NEW n \in Nat, n > 0, NEW q \in Int, NEW r \in 0 .. n - 1
  PROVE  (q * n + r) % n = r /\ (q * n + r) \div n = q
<1> DEFINE x == q * n + r
<1>1. x \in Int
  OBVIOUS
<1> HIDE DEF x
<1>2. x \div n \in Int /\ x % n \in 0 .. n - 1 /\ x = (x \div n) * n + (x % n)
  BY <1>1, Remainders
<1>3. (x \div n) * n + (x % n) = q * n + r
  BY <1>2 DEF x
<1>4. x \div n = q /\ x % n = r
  BY <1>2, <1>3, Quotients
<1> QED
  BY <1>4 DEF x

-----------------------------------------------------------------------------
(* The bits of a number *)

Width == Fields * FieldWidth

\* The constants, in the form the steps below use.
LEMMA Widths ==
  /\ Fields \in Nat /\ Fields >= 1 /\ FieldWidth \in Nat /\ FieldWidth >= 1
  /\ Width \in Nat /\ Width >= 1 /\ FieldWidth <= Width
  /\ \A f \in 0 .. Fields - 1 :
       /\ f * FieldWidth \in Nat
       /\ f * FieldWidth + FieldWidth <= Width
       /\ (Fields - 1 - f) * FieldWidth = Width - FieldWidth - f * FieldWidth
<1>1. Fields \in Nat /\ Fields >= 1 /\ FieldWidth \in Nat /\ FieldWidth >= 1
  BY ProgramAssumption
<1>2. Width \in Nat
  BY <1>1 DEF Width
<1>3. ASSUME NEW f \in 0 .. Fields - 1
      PROVE  /\ f * FieldWidth \in Nat
             /\ f * FieldWidth + FieldWidth <= Width
             /\ (Fields - 1 - f) * FieldWidth = Width - FieldWidth - f * FieldWidth
  <2>1. (f + 1) * FieldWidth <= Fields * FieldWidth
    BY <1>1
  <2>2. f * FieldWidth \in Nat /\ (f + 1) * FieldWidth = f * FieldWidth + FieldWidth
    BY <1>1
  <2>3. (Fields - 1 - f) * FieldWidth = Fields * FieldWidth - FieldWidth - f * FieldWidth
    BY <1>1
  <2> QED
    BY <1>1, <2>1, <2>2, <2>3 DEF Width
<1>4. FieldWidth <= Width
  <2>1. 0 \in 0 .. Fields - 1 /\ 0 * FieldWidth = 0
    BY <1>1
  <2> QED
    BY <1>1, <1>2, <1>3, <2>1
<1> QED
  BY <1>1, <1>2, <1>3, <1>4

\* Each weight is twice the one before.
LEMMA WeightStep ==
  /\ Weight[0] = 1
  /\ \A b \in 1 .. Width : Weight[b] = 2 * Weight[b - 1]
<1> DEFINE Doubles(f) == f = [b \in 0 .. Width |-> IF b = 0 THEN 1 ELSE 2 * f[b - 1]]
           G == [a \in Nat |-> [k \in 1 .. Width |-> 2 * a]]
<1>1. \E f : Doubles(f)
  <2>1. G \in [Nat -> [1 .. Width -> Nat]]
    OBVIOUS
  <2>2. PICK f \in [0 .. Width -> Nat] : f[0] = 1 /\ \A k \in 1 .. Width : f[k] = G[f[k - 1]][k]
    <3> HIDE DEF G
    <3>1. Iterates(Width, Nat, 1, G)
      BY <2>1, Iterated, Widths
    <3> QED
      BY <3>1 DEF Iterates
  <2>3. ASSUME NEW k \in 1 .. Width PROVE f[k] = 2 * f[k - 1]
    <3>1. f[k - 1] \in Nat
      BY Widths
    <3> QED
      BY <2>2, <3>1
  <2>4. Doubles(f)
    BY <2>2, <2>3
  <2> QED
    BY <2>4
<1>2. Weight = CHOOSE f : Doubles(f)
  BY DEF Weight, Width
<1>3. Doubles(Weight)
  <2> HIDE DEF Doubles
  <2> QED
    BY <1>1, <1>2
<1> QED
  BY <1>3, Widths

\* Weights are positive.
LEMMA WeightNat ==
  ASSUME NEW b \in 0 .. Width
  PROVE  Weight[b] \in Nat /\ Weight[b] >= 1
<1> DEFINE S == {n \in Nat : n <= Width => Weight[n] \in Nat /\ Weight[n] >= 1}
<1>1. 0 \in S
  BY WeightStep
<1>2. ASSUME NEW n \in Nat, n \in S PROVE n + 1 \in S
  <2> SUFFICES ASSUME n + 1 <= Width PROVE Weight[n + 1] \in Nat /\ Weight[n + 1] >= 1
    OBVIOUS
  <2>1. Weight[n + 1] = 2 * Weight[n]
    BY WeightStep, Widths
  <2> QED
    BY <1>2, <2>1, Widths
<1>3. \A n \in Nat : n \in S
  <2> HIDE DEF S
  <2> QED
    BY <1>1, <1>2, SetInduction
<1> QED
  BY <1>3, Widths

\* The weight of a sum is the product of the weights.
LEMMA WeightSum ==
  ASSUME NEW a \in Nat, NEW b \in Nat, a + b <= Width
  PROVE  Weight[a + b] = Weight[a] * Weight[b]
<1> DEFINE S == {n \in Nat : a + n <= Width => Weight[a + n] = Weight[a] * Weight[n]}
<1>0. Weight[a] \in Nat
  BY WeightNat, Widths
<1>1. 0 \in S
  BY <1>0, WeightStep
<1>2. ASSUME NEW n \in Nat, n \in S PROVE n + 1 \in S
  <2> SUFFICES ASSUME a + (n + 1) <= Width
               PROVE  Weight[a + (n + 1)] = Weight[a] * Weight[n + 1]
    OBVIOUS
  <2>1. Weight[a + n] = Weight[a] * Weight[n]
    BY <1>2, Widths
  <2>2. a + (n + 1) \in 1 .. Width /\ n + 1 \in 1 .. Width
        /\ a + (n + 1) - 1 = a + n /\ n + 1 - 1 = n
    BY Widths
  <2>3. Weight[a + (n + 1)] = 2 * Weight[a + n] /\ Weight[n + 1] = 2 * Weight[n]
    BY <2>2, WeightStep
  <2>4. Weight[n] \in Nat
    BY <2>2, WeightNat, Widths
  <2> QED
    BY <1>0, <2>1, <2>3, <2>4
<1>3. b \in S
  <2> HIDE DEF S
  <2> QED
    BY <1>1, <1>2, SetInduction
<1> QED
  BY <1>3

\* Bits from s on of a number are those of its quotient.
LEMMA CutHigh ==
  ASSUME NEW s \in Nat, NEW k \in Nat, s + k <= Width, NEW q \in Nat,
         NEW r \in 0 .. Weight[s] - 1
  PROVE  (q * Weight[s] + r) \div Weight[s + k] = q \div Weight[k]
<1> DEFINE a == Weight[s]
           b == Weight[k]
           h == q \div b
           l == q % b
<1>1. a \in Nat /\ a >= 1 /\ b \in Nat /\ b >= 1 /\ Weight[s + k] = a * b /\ r \in Nat /\ r < a
  BY WeightNat, WeightSum, Widths
<1> HIDE DEF a, b
<1>2. h \in Int /\ l \in 0 .. b - 1 /\ q = h * b + l
  BY <1>1, Remainders
<1> HIDE DEF h, l
<1>3. q * a + r = h * (a * b) + (l * a + r)
  <2>1. (h * b + l) * a = h * (a * b) + l * a
    BY <1>1, <1>2
  <2>2. h * (a * b) \in Int /\ l * a \in Int
    BY <1>1, <1>2
  <2> QED
    BY <1>1, <1>2, <2>1, <2>2
<1>4. l * a + r \in 0 .. a * b - 1
  <2>1. (l + 1) * a <= b * a
    BY <1>1, <1>2
  <2>2. (l + 1) * a = l * a + a /\ b * a = a * b /\ l * a \in Nat /\ a * b \in Nat
    BY <1>1, <1>2
  <2> QED
    BY <1>1, <2>1, <2>2
<1>5. a * b \in Nat /\ a * b > 0
  BY <1>1
<1>6. (h * (a * b) + (l * a + r)) \div (a * b) = h
  <2> DEFINE n == a * b
             x == l * a + r
  <2> HIDE DEF n, x
  <2>1. n \in Nat /\ n > 0 /\ x \in 0 .. n - 1
    BY <1>4, <1>5 DEF n, x
  <2>2. (h * n + x) \div n = h
    BY <1>2, <2>1, Remainder
  <2> QED
    BY <2>2 DEF n, x
<1> QED
  BY <1>1, <1>3, <1>6 DEF a, b, h

\* Bits below s of a number are those of its remainder.
LEMMA CutLow ==
  ASSUME NEW s \in Nat, NEW k \in Nat, k < s, s <= Width, NEW q \in Nat,
         NEW r \in 0 .. Weight[s] - 1
  PROVE  CrBit(q * Weight[s] + r, k) = CrBit(r, k)
<1> DEFINE a == Weight[k]
           b == Weight[s - k - 1]
           h == r \div a
           l == r % a
<1>1. a \in Nat /\ a >= 1 /\ b \in Nat /\ b >= 1 /\ Weight[s] = 2 * (b * a) /\ r \in Nat
  <2>1. s - k - 1 \in Nat /\ (s - k - 1) + k = s - 1 /\ s - 1 <= Width /\ s \in 1 .. Width
    BY Widths
  <2>2. Weight[s - 1] = b * a /\ Weight[s] = 2 * Weight[s - 1]
    BY <2>1, WeightStep, WeightSum
  <2>3. b \in Nat /\ b >= 1 /\ a \in Nat /\ a >= 1 /\ Weight[s] \in Nat
    BY <2>1, WeightNat, Widths
  <2> QED
    BY <2>2, <2>3
<1> HIDE DEF a, b
<1>2. h \in Int /\ l \in 0 .. a - 1 /\ r = h * a + l
  BY <1>1, Remainders
<1> HIDE DEF h, l
<1>3. q * Weight[s] + r = (2 * (q * b) + h) * a + l
  <2>1. q * (2 * (b * a)) = (2 * (q * b)) * a
    BY <1>1
  <2>2. (2 * (q * b) + h) * a = (2 * (q * b)) * a + h * a
    <3>1. 2 * (q * b) \in Int
      BY <1>1
    <3> QED
      BY <1>1, <1>2, <3>1
  <2>3. (2 * (q * b)) * a \in Int /\ h * a \in Int
    BY <1>1, <1>2
  <2> QED
    BY <1>1, <1>2, <2>1, <2>2, <2>3
<1>4. ((2 * (q * b) + h) * a + l) \div a = 2 * (q * b) + h
  <2>1. 2 * (q * b) + h \in Int
    BY <1>1, <1>2
  <2> QED
    BY <1>1, <1>2, <2>1, Remainder
<1>5. (2 * (q * b) + h) % 2 = h % 2
  <2> DEFINE z == q * b
  <2>1. z \in Int
    BY <1>1
  <2> HIDE DEF z
  <2>2. (2 * z + h) % 2 = h % 2
    BY <1>2, <2>1
  <2> QED
    BY <2>2 DEF z
<1> QED
  BY <1>3, <1>4, <1>5 DEF CrBit, a, h

\* The bits of a number that is put together from two.
LEMMA BitsJoined ==
  ASSUME NEW s \in Nat, s <= Width, NEW q \in Nat, NEW r \in 0 .. Weight[s] - 1,
         NEW k \in 0 .. Width
  PROVE  CrBit(q * Weight[s] + r, k) = IF k < s THEN CrBit(r, k) ELSE CrBit(q, k - s)
<1>1. CASE k < s
  BY <1>1, CutLow, Widths
<1>2. CASE ~ (k < s)
  <2>1. k - s \in Nat /\ s + (k - s) = k /\ k <= Width
    BY <1>2, Widths
  <2>2. (q * Weight[s] + r) \div Weight[k] = q \div Weight[k - s]
    BY <2>1, CutHigh
  <2> QED
    BY <1>2, <2>2 DEF CrBit
<1> QED
  BY <1>1, <1>2

\* A bit is 0 or 1, and 0 from the width of the number on.
LEMMA BitType ==
  ASSUME NEW x \in Nat, NEW k \in 0 .. Width
  PROVE  /\ CrBit(x, k) \in {0, 1}
         /\ \A w \in 0 .. k : x < Weight[w] => CrBit(x, k) = 0
<1>1. Weight[k] \in Nat /\ Weight[k] >= 1
  BY WeightNat
<1>2. CrBit(x, k) \in {0, 1}
  <2>1. x \div Weight[k] \in Int
    BY <1>1
  <2> HIDE DEF Weight
  <2> QED
    BY <2>1 DEF CrBit
<1>3. ASSUME NEW w \in 0 .. k, x < Weight[w] PROVE CrBit(x, k) = 0
  <2>1. w \in Nat /\ k - w \in Nat /\ w + (k - w) = k /\ k <= Width /\ w \in 0 .. Width
    BY Widths
  <2>2. x \in 0 .. Weight[w] - 1 /\ Weight[k - w] \in Nat /\ Weight[k - w] >= 1
    BY <1>3, <2>1, WeightNat, Widths
  <2>3. (0 * Weight[w] + x) \div Weight[w + (k - w)] = 0 \div Weight[k - w]
    BY <2>1, <2>2, CutHigh
  <2>4. 0 * Weight[w] + x = x /\ 0 \div Weight[k - w] = 0
    BY <2>1, <2>2, WeightNat
  <2> QED
    BY <2>1, <2>3, <2>4 DEF CrBit
<1> QED
  BY <1>2, <1>3

\* A number below the weight of s + w in three parts: above, field and below.
LEMMA Parts ==
  ASSUME NEW s \in Nat, NEW w \in Nat, s + w <= Width, NEW x \in Nat, x < CrTop
  PROVE  LET f == (x \div Weight[s]) % Weight[w]
             h == (x \div Weight[s]) \div Weight[w]
             l == x % Weight[s]
         IN /\ f \in 0 .. Weight[w] - 1 /\ l \in 0 .. Weight[s] - 1 /\ h \in Nat
            /\ x = (h * Weight[w] + f) * Weight[s] + l
            /\ h < Weight[Width - s - w]
<1> DEFINE a == Weight[s]
           b == Weight[w]
           d == Weight[Width - s - w]
           q == x \div a
           f == q % b
           h == q \div b
           l == x % a
<1>1. a \in Nat /\ a >= 1 /\ b \in Nat /\ b >= 1 /\ d \in Nat /\ CrTop = d * (b * a)
  <2>1. /\ s \in 0 .. Width /\ w \in 0 .. Width /\ Width - s - w \in 0 .. Width
        /\ w + s <= Width /\ (Width - s - w) + (w + s) = Width /\ w + s \in Nat
        /\ Width - s - w \in Nat
    BY Widths
  <2>2. Weight[w + s] = b * a
    BY <2>1, WeightSum
  <2>3. Weight[Width] = d * Weight[w + s]
    <3>1. Weight[(Width - s - w) + (w + s)] = Weight[Width - s - w] * Weight[w + s]
      BY <2>1, WeightSum
    <3> QED
      BY <2>1, <3>1
  <2>4. CrTop = Weight[Width]
    BY DEF CrTop, Width
  <2> QED
    BY <2>1, <2>2, <2>3, <2>4, WeightNat
<1> HIDE DEF a, b, d
<1>2. q \in Int /\ l \in 0 .. a - 1 /\ x = q * a + l
  BY <1>1, Remainders
<1>3. q \in Nat
  BY <1>1, <1>2
<1> HIDE DEF q, l
<1>4. h \in Int /\ f \in 0 .. b - 1 /\ q = h * b + f
  BY <1>1, <1>3, Remainders
<1>5. h \in Nat
  BY <1>1, <1>3, <1>4
<1> HIDE DEF h, f
<1>6. h < d
  <2>1. SUFFICES ASSUME h >= d PROVE FALSE
    BY <1>1, <1>5
  <2>2. h * (b * a) >= d * (b * a)
    BY <1>1, <1>5, <2>1
  <2>3. q * a = h * (b * a) + f * a
    <3>1. (h * b + f) * a = h * (b * a) + f * a
      BY <1>1, <1>4, <1>5
    <3> QED
      BY <1>4, <3>1
  <2>4. f * a \in Nat /\ h * (b * a) \in Nat /\ d * (b * a) \in Nat
    BY <1>1, <1>4, <1>5
  <2> QED
    BY <1>1, <1>2, <2>2, <2>3, <2>4
<1> QED
  BY <1>2, <1>4, <1>5, <1>6 DEF a, b, d, q, f, h, l

\* A number below weight n joined to one below weight m.
LEMMA JoinedBelow ==
  ASSUME NEW m \in Nat, NEW n \in Nat, m + n <= Width, NEW q \in 0 .. Weight[m] - 1,
         NEW r \in 0 .. Weight[n] - 1
  PROVE  q * Weight[n] + r \in 0 .. Weight[m + n] - 1
<1> DEFINE a == Weight[m]
           b == Weight[n]
<1>1. a \in Nat /\ b \in Nat /\ b >= 1 /\ Weight[m + n] = a * b
  BY WeightNat, WeightSum, Widths
<1> HIDE DEF a, b
<1>2. q \in Nat /\ q < a /\ r \in Nat /\ r < b
  BY <1>1 DEF a, b
<1>3. (q + 1) * b <= a * b
  BY <1>1, <1>2
<1>4. (q + 1) * b = q * b + b /\ q * b \in Nat /\ a * b \in Nat
  BY <1>1, <1>2
<1>5. q * b + r \in 0 .. a * b - 1
  BY <1>1, <1>2, <1>3, <1>4
<1> QED
  BY <1>1, <1>5 DEF b

\* Another number in the place of a field of w bits changes those bits.
LEMMA FieldPut ==
  ASSUME NEW s \in Nat, NEW w \in Nat, s + w <= Width, NEW x \in 0 .. CrTop - 1,
         NEW y \in 0 .. Weight[w] - 1
  PROVE  LET z == x + (y - ((x \div Weight[s]) % Weight[w])) * Weight[s]
         IN /\ z \in 0 .. CrTop - 1
            /\ \A k \in 0 .. Width - 1 :
                 CrBit(z, k) = IF k \in s .. s + w - 1 THEN CrBit(y, k - s) ELSE CrBit(x, k)
<1> DEFINE f == (x \div Weight[s]) % Weight[w]
           h == (x \div Weight[s]) \div Weight[w]
           l == x % Weight[s]
           z == x + (y - f) * Weight[s]
           g == h * Weight[w] + f
           u == h * Weight[w] + y
           a == Weight[s]
           b == Weight[w]
<1>0. /\ a \in Nat /\ a >= 1 /\ b \in Nat /\ b >= 1 /\ CrTop \in Nat /\ CrTop >= 1
      /\ x \in Nat /\ x < CrTop /\ s \in 0 .. Width /\ w \in 0 .. Width
  <2>1. CrTop = Weight[Width]
    BY DEF CrTop, Width
  <2> QED
    BY <2>1, WeightNat, Widths
<1>1. /\ f \in 0 .. b - 1 /\ l \in 0 .. a - 1 /\ h \in Nat /\ x = g * a + l
      /\ h < Weight[Width - s - w]
  BY <1>0, Parts
<1> HIDE DEF f, h, l
<1>2. y \in Nat /\ y < b
  BY <1>0
<1>3. z = u * a + l
  <2> HIDE DEF a, b
  <2>1. z = x + (y - f) * a /\ u = h * b + y /\ g = h * b + f
    BY DEF a, b
  <2> HIDE DEF z, u, g
  <2>2. h * b \in Nat
    BY <1>0, <1>1
  <2>3. u = g + (y - f) /\ g \in Nat
    BY <1>0, <1>1, <1>2, <2>1, <2>2
  <2>4. u * a = g * a + (y - f) * a
    BY <1>0, <1>1, <1>2, <2>3
  <2>5. g * a \in Nat /\ (y - f) * a \in Int
    BY <1>0, <1>1, <1>2, <2>3
  <2> QED
    BY <1>1, <2>1, <2>4, <2>5
<1>4. u \in 0 .. Weight[Width - s] - 1
  <2>1. Width - s - w \in Nat /\ (Width - s - w) + w = Width - s /\ Width - s <= Width
    BY Widths
  <2>2. h \in 0 .. Weight[Width - s - w] - 1
    BY <1>1, <2>1, WeightNat, Widths
  <2>3. h * Weight[w] + y \in 0 .. Weight[(Width - s - w) + w] - 1
    BY <2>1, <2>2, JoinedBelow
  <2> QED
    BY <2>1, <2>3
<1>5. z \in 0 .. CrTop - 1
  <2>1. Width - s \in Nat /\ (Width - s) + s = Width /\ Width <= Width
    BY <1>0, Widths
  <2> HIDE DEF u, z
  <2>2. u * Weight[s] + l \in 0 .. Weight[(Width - s) + s] - 1
    BY <1>1, <1>4, <2>1, JoinedBelow DEF a
  <2> QED
    BY <1>3, <2>1, <2>2 DEF CrTop, Width, a
<1>6. ASSUME NEW k \in 0 .. Width - 1
      PROVE  CrBit(z, k) = IF k \in s .. s + w - 1 THEN CrBit(y, k - s) ELSE CrBit(x, k)
  <2>1. k \in 0 .. Width /\ u \in Nat /\ g \in Nat /\ f \in Nat
    <3>1. h * b \in Nat
      BY <1>0, <1>1
    <3> QED
      BY <1>0, <1>1, <1>2, <3>1, Widths
  <2> HIDE DEF z, u, g
  <2>2. CrBit(u * Weight[s] + l, k) = IF k < s THEN CrBit(l, k) ELSE CrBit(u, k - s)
    BY <1>0, <1>1, <2>1, BitsJoined, Widths DEF a
  <2>3. CrBit(g * Weight[s] + l, k) = IF k < s THEN CrBit(l, k) ELSE CrBit(g, k - s)
    BY <1>0, <1>1, <2>1, BitsJoined, Widths DEF a
  <2>4. CASE k < s
    BY <1>1, <1>3, <2>2, <2>3, <2>4 DEF a
  <2>5. CASE ~ (k < s)
    <3>1. k - s \in 0 .. Width /\ w <= Width
      BY <1>0, <2>5, Widths
    <3>2. CrBit(h * Weight[w] + y, k - s)
            = IF k - s < w THEN CrBit(y, k - s) ELSE CrBit(h, k - s - w)
      BY <1>0, <1>1, <3>1, BitsJoined
    <3>3. CrBit(h * Weight[w] + f, k - s)
            = IF k - s < w THEN CrBit(f, k - s) ELSE CrBit(h, k - s - w)
      BY <1>0, <1>1, <3>1, BitsJoined DEF b
    <3>4. k \in s .. s + w - 1 <=> k - s < w
      BY <1>0, <2>5, Widths
    <3> QED
      BY <1>1, <1>3, <2>2, <2>3, <2>5, <3>2, <3>3, <3>4 DEF a, u, g
  <2> QED
    BY <2>4, <2>5
<1> QED
  BY <1>5, <1>6 DEF f

\* The bits of a field of w bits, as a number of its own.
LEMMA FieldTaken ==
  ASSUME NEW s \in Nat, NEW w \in Nat, s + w <= Width, NEW x \in 0 .. CrTop - 1
  PROVE  LET f == (x \div Weight[s]) % Weight[w]
         IN /\ f \in 0 .. Weight[w] - 1
            /\ \A k \in 0 .. w - 1 : CrBit(f, k) = CrBit(x, k + s)
<1> DEFINE f == (x \div Weight[s]) % Weight[w]
           h == (x \div Weight[s]) \div Weight[w]
           l == x % Weight[s]
<1>0. x \in Nat /\ x < CrTop /\ s \in 0 .. Width /\ w \in 0 .. Width
  <2>1. CrTop = Weight[Width]
    BY DEF CrTop, Width
  <2> QED
    BY <2>1, WeightNat, Widths
<1>1. /\ f \in 0 .. Weight[w] - 1 /\ l \in 0 .. Weight[s] - 1 /\ h \in Nat
      /\ x = (h * Weight[w] + f) * Weight[s] + l
  BY <1>0, Parts
<1> HIDE DEF f, h, l
<1>2. ASSUME NEW k \in 0 .. w - 1 PROVE CrBit(f, k) = CrBit(x, k + s)
  <2> DEFINE g == h * Weight[w] + f
  <2>1. g \in Nat /\ k + s \in 0 .. Width /\ k \in 0 .. Width /\ ~ (k + s < s) /\ k + s - s = k
    <3>1. Weight[w] \in Nat
      BY <1>0, WeightNat
    <3>2. h * Weight[w] \in Nat
      BY <1>1, <3>1
    <3> QED
      BY <1>0, <1>1, <3>1, <3>2, Widths
  <2> HIDE DEF g
  <2>2. CrBit(g * Weight[s] + l, k + s) = CrBit(g, k)
    BY <1>0, <1>1, <2>1, BitsJoined
  <2>3. CrBit(h * Weight[w] + f, k) = CrBit(f, k)
    BY <1>0, <1>1, <2>1, BitsJoined
  <2> QED
    BY <1>1, <2>2, <2>3 DEF g
<1> QED
  BY <1>1, <1>2 DEF f

-----------------------------------------------------------------------------
(* The condition register as a set of bits *)

\* CR bits are counted from the other end.
LEMMA Places ==
  /\ LastBit = Width - 1 /\ CrBits = 0 .. Width - 1
  /\ \A b \in CrBits : LastBit - b \in 0 .. Width - 1 /\ LastBit - (LastBit - b) = b
  /\ \A x, b : b \in AsBits(x) <=> b \in CrBits /\ CrBit(x, LastBit - b) = 1
BY Widths DEF LastBit, CrBits, Width, AsBits

\* SetCrBit sets or clears one bit of the number.
LEMMA SetCrBitBits ==
  ASSUME NEW x \in 0 .. CrTop - 1, NEW d \in CrBits, NEW v \in BOOLEAN
  PROVE  /\ SetCrBit(x, LastBit - d, v) \in 0 .. CrTop - 1
         /\ AsBits(SetCrBit(x, LastBit - d, v))
              = IF v THEN AsBits(x) \cup {d} ELSE AsBits(x) \ {d}
<1> DEFINE s == LastBit - d
           y == IF v THEN 1 ELSE 0
           z == x + (y - ((x \div Weight[s]) % Weight[1])) * Weight[s]
<1>1. /\ s \in Nat /\ s + 1 <= Width /\ s \in 0 .. Width - 1 /\ LastBit - s = d
      /\ s \in 0 .. Width /\ 1 \in Nat
  BY Places, Widths
<1>2. Weight[1] = 2 /\ Weight[s] \in Nat
  BY <1>1, WeightStep, WeightNat, Widths
<1>3. y \in 0 .. Weight[1] - 1
  BY <1>2
<1> HIDE DEF s
<1>4. /\ z \in 0 .. CrTop - 1
      /\ \A k \in 0 .. Width - 1 :
           CrBit(z, k) = IF k \in s .. s + 1 - 1 THEN CrBit(y, k - s) ELSE CrBit(x, k)
  <2> HIDE DEF y
  <2> QED
    BY <1>1, <1>3, FieldPut
<1>5. CrBit(1, 0) = 1 /\ CrBit(0, 0) = 0
  BY WeightStep DEF CrBit
<1>6. CrBit(x, s) \in {0, 1} /\ (x \div Weight[s]) % Weight[1] = CrBit(x, s)
  <2>1. x \in Nat
    OBVIOUS
  <2> QED
    BY <1>1, <1>2, <2>1, BitType DEF CrBit
<1>7. SetCrBit(x, s, v) = z
  <2> DEFINE c == CrBit(x, s)
             a == Weight[s]
  <2>1. z = x + (y - c) * a
    BY <1>6
  <2>2. SetCrBit(x, s, v) = IF v = (c = 1) THEN x ELSE IF v THEN x + a ELSE x - a
    BY DEF SetCrBit
  <2>3. c \in {0, 1} /\ a \in Int /\ x \in Int
    BY <1>2, <1>6
  <2>4. v => y = 1
    OBVIOUS
  <2>5. ~ v => y = 0
    OBVIOUS
  <2> HIDE DEF c, a, y, z
  <2>6. z = IF y = c THEN x ELSE IF y = 1 THEN x + a ELSE x - a
    <3>1. CASE v
      BY <2>1, <2>3, <2>4, <3>1
    <3>2. CASE ~ v
      BY <2>1, <2>3, <2>5, <3>2
    <3> QED
      BY <3>1, <3>2
  <2>7. CASE v
    <3>1. v = TRUE
      BY <2>7
    <3>2. CASE c = 1
      <4>1. (c = 1) = TRUE
        BY <3>2
      <4>2. SetCrBit(x, s, v) = x
        BY <2>2, <3>1, <4>1
      <4> QED
        BY <2>4, <2>6, <2>7, <3>2, <4>2
    <3>3. CASE c = 0
      <4>1. (c = 1) = FALSE
        BY <3>3
      <4>2. SetCrBit(x, s, v) = x + a
        BY <2>2, <3>1, <4>1
      <4>3. y = 1
        BY <2>4, <2>7
      <4>4. z = x + a
        BY <2>6, <3>3, <4>3
      <4> QED
        BY <4>2, <4>4
    <3> QED
      BY <2>3, <3>2, <3>3
  <2>8. CASE ~ v
    <3>1. v = FALSE
      BY <2>8
    <3>2. CASE c = 1
      <4>1. (c = 1) = TRUE
        BY <3>2
      <4>2. SetCrBit(x, s, v) = x - a
        BY <2>2, <3>1, <4>1
      <4> QED
        BY <2>5, <2>6, <2>8, <3>2, <4>2
    <3>3. CASE c = 0
      <4>1. (c = 1) = FALSE
        BY <3>3
      <4>2. SetCrBit(x, s, v) = x
        BY <2>2, <3>1, <4>1
      <4> QED
        BY <2>5, <2>6, <2>8, <3>3, <4>2
    <3> QED
      BY <2>3, <3>2, <3>3
  <2> QED
    BY <2>7, <2>8
<1>8. ASSUME NEW b \in CrBits
      PROVE  CrBit(z, LastBit - b) = IF b = d THEN y ELSE CrBit(x, LastBit - b)
  <2> DEFINE k == LastBit - b
  <2>1. k \in 0 .. Width - 1 /\ (k \in s .. s + 1 - 1 <=> b = d) /\ (b = d => k - s = 0)
    BY <1>1, Places, Widths
  <2>2. CrBit(y, 0) = y
    BY <1>5
  <2> HIDE DEF k, y, z
  <2> QED
    BY <1>4, <2>1, <2>2 DEF k
<1>9. AsBits(z) = IF v THEN AsBits(x) \cup {d} ELSE AsBits(x) \ {d}
  <2> HIDE DEF z
  <2> QED
    BY <1>8, Places
<1> QED
  BY <1>4, <1>7, <1>9 DEF s

\* The place of a field, counted from either end.
LEMMA FieldPlaces ==
  ASSUME NEW f \in 0 .. Fields - 1
  PROVE  LET s == (Fields - 1 - f) * FieldWidth
         IN /\ s \in Nat /\ s + FieldWidth <= Width
            /\ s = Width - FieldWidth - f * FieldWidth /\ f * FieldWidth \in Nat
            /\ Shift(f) = Weight[s]
            /\ \A b \in CrBits : b \in BitsOf(f) <=> LastBit - b \in s .. s + FieldWidth - 1
            /\ BitsOf(f) \subseteq CrBits
<1> DEFINE s == (Fields - 1 - f) * FieldWidth
           n == f * FieldWidth
<1>1. /\ n \in Nat /\ n + FieldWidth <= Width /\ s = Width - FieldWidth - n
      /\ Width \in Nat /\ FieldWidth \in Nat /\ FieldWidth >= 1
  BY Widths
<1>2. Shift(f) = Weight[s]
  BY DEF Shift
<1>3. BitsOf(f) = n .. n + FieldWidth - 1
  BY DEF BitsOf
<1> HIDE DEF s, n
<1>4. \A b \in CrBits : b \in BitsOf(f) <=> LastBit - b \in s .. s + FieldWidth - 1
  BY <1>1, <1>3, Places
<1>5. BitsOf(f) \subseteq CrBits
  BY <1>1, <1>3, Places
<1> QED
  BY <1>1, <1>2, <1>4, <1>5 DEF s, n

\* SetCrField puts the bits of y into field d, as WithField does with a word
\* that has the bits of y at field f.
LEMMA SetCrFieldBits ==
  ASSUME NEW x \in 0 .. CrTop - 1, NEW d \in 0 .. Fields - 1, NEW f \in 0 .. Fields - 1,
         NEW y \in 0 .. Weight[FieldWidth] - 1, NEW S,
         \A k \in 0 .. FieldWidth - 1 :
           CrBit(y, k) = 1 <=> LastBit - (k + (Fields - 1 - f) * FieldWidth) \in S
  PROVE  /\ SetCrField(x, d, y) \in 0 .. CrTop - 1
         /\ AsBits(SetCrField(x, d, y))
              = (AsBits(x) \ BitsOf(d)) \cup {b \in BitsOf(d) : b + (f - d) * FieldWidth \in S}
<1> DEFINE s == (Fields - 1 - d) * FieldWidth
           t == (Fields - 1 - f) * FieldWidth
           w == FieldWidth
           z == x + (y - ((x \div Weight[s]) % Weight[w])) * Weight[s]
<1>1. /\ s \in Nat /\ s + w <= Width /\ t \in Nat /\ t + w <= Width
      /\ Shift(d) = Weight[s] /\ BitsOf(d) \subseteq CrBits
      /\ \A b \in CrBits : b \in BitsOf(d) <=> LastBit - b \in s .. s + w - 1
  BY FieldPlaces
<1>2. (f - d) * w = s - t
  <2>1. s = Width - w - d * w /\ t = Width - w - f * w /\ d * w \in Nat /\ f * w \in Nat
    BY FieldPlaces
  <2>2. (f - d) * w = f * w - d * w
    BY Widths
  <2> HIDE DEF s, t
  <2> QED
    BY <2>1, <2>2, Widths
<1>3. SetCrField(x, d, y) = z
  BY <1>1 DEF SetCrField, CrField
<1> HIDE DEF s, t, w
<1>4. w \in Nat /\ y \in 0 .. Weight[w] - 1
  BY Widths DEF w
<1>5. /\ z \in 0 .. CrTop - 1
      /\ \A k \in 0 .. Width - 1 :
           CrBit(z, k) = IF k \in s .. s + w - 1 THEN CrBit(y, k - s) ELSE CrBit(x, k)
  BY <1>1, <1>4, FieldPut
<1> HIDE DEF z
<1>6. ASSUME NEW b \in CrBits
      PROVE  b \in AsBits(z) <=> IF b \in BitsOf(d) THEN b + (s - t) \in S ELSE b \in AsBits(x)
  <2> DEFINE k == LastBit - b
  <2>1. k \in 0 .. Width - 1 /\ b = LastBit - k
    BY Places
  <2>2. b \in AsBits(z) <=> CrBit(z, k) = 1
    BY Places
  <2>3. b \in AsBits(x) <=> CrBit(x, k) = 1
    BY Places
  <2>4. b \in BitsOf(d) <=> k \in s .. s + w - 1
    BY <1>1
  <2> HIDE DEF k
  <2>5. CASE k \in s .. s + w - 1
    <3>1. k - s \in 0 .. w - 1
      BY <1>1, <1>4, <2>1, <2>5
    <3>2. CrBit(z, k) = CrBit(y, k - s)
      BY <1>5, <2>1, <2>5
    <3>3. CrBit(y, k - s) = 1 <=> LastBit - (k - s + t) \in S
      BY <3>1 DEF t, w
    <3>4. LastBit - (k - s + t) = b + (s - t)
      BY <1>1, <2>1, Places, Widths
    <3> QED
      BY <2>2, <2>4, <2>5, <3>2, <3>3, <3>4
  <2>6. CASE ~ (k \in s .. s + w - 1)
    BY <1>5, <2>1, <2>2, <2>3, <2>4, <2>6
  <2> QED
    BY <2>5, <2>6
<1>7. AsBits(z) \subseteq CrBits /\ AsBits(x) \subseteq CrBits
  BY Places
<1> QED
  BY <1>1, <1>2, <1>3, <1>5, <1>6, <1>7 DEF w

\* A compare's result, and mcrf's
LEMMA CmpBits ==
  ASSUME NEW x \in 0 .. CrTop - 1, NEW d \in 0 .. Fields - 1,
         NEW y \in 0 .. Weight[FieldWidth] - 1
  PROVE  /\ SetCrField(x, d, y) \in 0 .. CrTop - 1
         /\ AsBits(SetCrField(x, d, y)) =
              (AsBits(x) \ BitsOf(d))
                \cup {b \in BitsOf(d) : b + ((Fields - 1) - d) * FieldWidth \in AsBits(y)}
<1> DEFINE f == Fields - 1
<1>1. f \in 0 .. Fields - 1 /\ (Fields - 1 - f) * FieldWidth = 0
  BY Widths
<1>2. ASSUME NEW k \in 0 .. FieldWidth - 1
      PROVE  CrBit(y, k) = 1 <=> LastBit - (k + 0) \in AsBits(y)
  <2>1. k \in Nat /\ k <= Width - 1
    BY Widths
  <2>2. LastBit - k \in CrBits /\ LastBit - (LastBit - k) = k /\ k + 0 = k
    BY <2>1, Places, Widths
  <2> QED
    BY <2>2, Places
<1> HIDE DEF f
<1>3. \A k \in 0 .. FieldWidth - 1 :
        CrBit(y, k) = 1 <=> LastBit - (k + (Fields - 1 - f) * FieldWidth) \in AsBits(y)
  BY <1>1, <1>2
<1>4. /\ SetCrField(x, d, y) \in 0 .. CrTop - 1
      /\ AsBits(SetCrField(x, d, y)) =
           (AsBits(x) \ BitsOf(d)) \cup {b \in BitsOf(d) : b + (f - d) * FieldWidth \in AsBits(y)}
  BY <1>1, <1>3, SetCrFieldBits
<1> QED
  BY <1>4 DEF f

\* mcrf puts one field into another.
LEMMA McrfBits ==
  ASSUME NEW x \in 0 .. CrTop - 1, NEW d \in 0 .. Fields - 1, NEW f \in 0 .. Fields - 1
  PROVE  /\ SetCrField(x, d, CrField(x, f)) \in 0 .. CrTop - 1
         /\ AsBits(SetCrField(x, d, CrField(x, f))) =
              (AsBits(x) \ BitsOf(d))
                \cup {b \in BitsOf(d) : b + (f - d) * FieldWidth \in AsBits(x)}
<1> DEFINE t == (Fields - 1 - f) * FieldWidth
           y == (x \div Weight[t]) % Weight[FieldWidth]
<1>1. t \in Nat /\ t + FieldWidth <= Width /\ Shift(f) = Weight[t] /\ FieldWidth \in Nat
  BY FieldPlaces, Widths
<1>2. CrField(x, f) = y
  BY <1>1 DEF CrField
<1> HIDE DEF t
<1>3. /\ y \in 0 .. Weight[FieldWidth] - 1
      /\ \A k \in 0 .. FieldWidth - 1 : CrBit(y, k) = CrBit(x, k + t)
  BY <1>1, FieldTaken
<1> HIDE DEF y
<1>4. ASSUME NEW k \in 0 .. FieldWidth - 1
      PROVE  CrBit(y, k) = 1 <=> LastBit - (k + t) \in AsBits(x)
  <2>1. k + t \in 0 .. Width - 1
    BY <1>1, Widths
  <2>2. LastBit - (k + t) \in CrBits /\ LastBit - (LastBit - (k + t)) = k + t
    BY <2>1, Places, Widths
  <2> QED
    BY <1>3, <2>2, Places
<1>5. \A k \in 0 .. FieldWidth - 1 :
        CrBit(y, k) = 1 <=> LastBit - (k + (Fields - 1 - f) * FieldWidth) \in AsBits(x)
  BY <1>4 DEF t
<1> QED
  BY <1>2, <1>3, <1>5, SetCrFieldBits

\* Weighted puts a number together from its bits.
LEMMA WeightedBits ==
  ASSUME NEW bits \in [0 .. LastBit -> {0, 1}]
  PROVE  /\ Weighted(bits) \in 0 .. CrTop - 1
         /\ \A k \in 0 .. LastBit : CrBit(Weighted(bits), k) = bits[k]
<1> DEFINE n == Width
           Sums(f) == f = [i \in 0 .. LastBit + 1 |->
                        IF i = 0 THEN 0 ELSE f[i - 1] + bits[i - 1] * Weight[i - 1]]
           u == CHOOSE f : Sums(f)
           G == [a \in Nat |-> [i \in 1 .. n |-> a + bits[i - 1] * Weight[i - 1]]]
           Good(i) == /\ u[i] \in 0 .. Weight[i] - 1
                      /\ \A k \in 0 .. i - 1 : CrBit(u[i], k) = bits[k]
           S == {i \in Nat : i <= n => Good(i)}
<1>1. LastBit + 1 = n /\ n \in Nat /\ LastBit = n - 1
  BY Widths, Places
<1>2. ASSUME NEW i \in 1 .. n
      PROVE  /\ bits[i - 1] \in {0, 1} /\ Weight[i - 1] \in Nat
             /\ bits[i - 1] * Weight[i - 1] \in Nat
  <2>1. i - 1 \in 0 .. LastBit /\ i - 1 \in 0 .. Width
    BY <1>1
  <2> QED
    BY <2>1, WeightNat
<1>3. \E f : Sums(f)
  <2>1. G \in [Nat -> [1 .. n -> Nat]]
    <3> SUFFICES ASSUME NEW a \in Nat, NEW i \in 1 .. n
                 PROVE  a + bits[i - 1] * Weight[i - 1] \in Nat
      OBVIOUS
    <3>1. bits[i - 1] * Weight[i - 1] \in Nat
      BY <1>2
    <3> QED
      BY <3>1
  <2>2. PICK f \in [0 .. n -> Nat] : f[0] = 0 /\ \A i \in 1 .. n : f[i] = G[f[i - 1]][i]
    <3> HIDE DEF G
    <3>1. Iterates(n, Nat, 0, G)
      BY <1>1, <2>1, Iterated
    <3> QED
      BY <3>1 DEF Iterates
  <2>3. ASSUME NEW i \in 1 .. n PROVE f[i] = f[i - 1] + bits[i - 1] * Weight[i - 1]
    <3>1. f[i - 1] \in Nat
      BY <1>1
    <3> QED
      BY <2>2, <3>1
  <2>4. Sums(f)
    BY <1>1, <2>2, <2>3
  <2> QED
    BY <2>4
<1>4. Sums(u)
  <2> HIDE DEF Sums
  <2> QED
    BY <1>3
<1>5. Weighted(bits) = u[n]
  BY <1>1 DEF Weighted
<1> HIDE DEF u
<1>6. u[0] = 0 /\ \A i \in 1 .. n : u[i] = u[i - 1] + bits[i - 1] * Weight[i - 1]
  <2>1. u = [i \in 0 .. n |-> IF i = 0 THEN 0 ELSE u[i - 1] + bits[i - 1] * Weight[i - 1]]
    BY <1>1, <1>4
  <2>2. 0 \in 0 .. n /\ \A i \in 1 .. n : i \in 0 .. n /\ i # 0
    BY <1>1
  <2> HIDE DEF n, Sums
  <2> QED
    BY <2>1, <2>2
<1> HIDE DEF Sums
<1>7. 0 \in S
  <2>1. Good(0)
    BY <1>6, WeightStep
  <2> HIDE DEF Good
  <2> QED
    BY <2>1
<1>8. ASSUME NEW i \in Nat, i \in S PROVE i + 1 \in S
  <2> SUFFICES ASSUME i + 1 <= n PROVE Good(i + 1)
    <3> HIDE DEF Good
    <3> QED
      OBVIOUS
  <2>1. Good(i)
    <3> HIDE DEF Good
    <3> QED
      BY <1>1, <1>8
  <2> DEFINE b == bits[i]
             r == u[i]
  <2>2. b \in {0, 1} /\ u[i + 1] = b * Weight[i] + r /\ r \in 0 .. Weight[i] - 1
    <3>1. i + 1 \in 1 .. n /\ i + 1 - 1 = i
      BY <1>1
    <3>2. b \in {0, 1} /\ Weight[i] \in Nat /\ b * Weight[i] \in Nat
      BY <1>2, <3>1
    <3>3. u[i + 1] = r + b * Weight[i]
      BY <1>6, <3>1
    <3> QED
      BY <2>1, <3>2, <3>3
  <2> HIDE DEF b
  <2>3. u[i + 1] \in 0 .. Weight[i + 1] - 1
    <3>1. b \in 0 .. Weight[1] - 1 /\ 1 \in Nat /\ 1 + i = i + 1
      BY <2>2, WeightStep, Widths
    <3>2. b * Weight[i] + r \in 0 .. Weight[1 + i] - 1
      BY <2>2, <3>1, JoinedBelow
    <3> QED
      BY <2>2, <3>1, <3>2
  <2>4. ASSUME NEW k \in 0 .. i PROVE CrBit(u[i + 1], k) = bits[k]
    <3>1. k \in 0 .. Width /\ i <= Width /\ b \in Nat
      BY <1>1, <2>2
    <3>2. CrBit(b * Weight[i] + r, k) = IF k < i THEN CrBit(r, k) ELSE CrBit(b, k - i)
      BY <2>2, <3>1, BitsJoined
    <3>3. CASE k < i
      <4>1. CrBit(r, k) = bits[k]
        BY <2>1, <3>3
      <4> QED
        BY <2>2, <3>2, <3>3, <4>1
    <3>4. CASE k = i
      <4>1. CrBit(b, 0) = b
        BY <2>2, WeightStep DEF CrBit
      <4>2. k - i = 0 /\ ~ (k < i)
        BY <3>4
      <4> QED
        BY <2>2, <3>2, <3>4, <4>1, <4>2 DEF b
    <3> QED
      BY <3>3, <3>4
  <2> QED
    BY <2>3, <2>4
<1>9. Good(n)
  <2>1. n \in S
    <3> HIDE DEF S
    <3> QED
      BY <1>1, <1>7, <1>8, SetInduction
  <2> HIDE DEF Good
  <2> QED
    BY <1>1, <2>1
<1> QED
  BY <1>1, <1>5, <1>9 DEF CrTop, Width

\* mtcrf takes the fields that its mask names, counted from the right.
LEMMA MtcrfBits ==
  ASSUME NEW x \in 0 .. CrTop - 1, NEW y \in 0 .. CrTop - 1,
         NEW crm \in SUBSET (0 .. Fields - 1)
  PROVE  LET z == Weighted(MaskedCr(x, crm, y))
             M == UNION {BitsOf(f) : f \in {Fields - 1 - i : i \in crm}}
         IN /\ z \in 0 .. CrTop - 1
            /\ AsBits(z) = (AsBits(x) \ M) \cup (AsBits(y) \cap M)
<1> DEFINE bits == MaskedCr(x, crm, y)
           z == Weighted(bits)
           M == UNION {BitsOf(f) : f \in {Fields - 1 - i : i \in crm}}
<1>1. bits \in [0 .. LastBit -> {0, 1}]
  <2>1. \A k \in 0 .. LastBit : k \in 0 .. Width
    BY Places, Widths
  <2>2. \A k \in 0 .. LastBit : CrBit(x, k) \in {0, 1} /\ CrBit(y, k) \in {0, 1}
    BY <2>1, BitType
  <2> QED
    BY <2>2 DEF MaskedCr
<1>2. \A k \in 0 .. LastBit :
        bits[k] = IF k \div FieldWidth \in crm THEN CrBit(y, k) ELSE CrBit(x, k)
  BY DEF MaskedCr
<1> HIDE DEF bits
<1>3. z \in 0 .. CrTop - 1 /\ \A k \in 0 .. LastBit : CrBit(z, k) = bits[k]
  BY <1>1, WeightedBits
<1> HIDE DEF z
<1>4. ASSUME NEW b \in CrBits
      PROVE  b \in M <=> (LastBit - b) \div FieldWidth \in crm
  <2> DEFINE k == LastBit - b
             q == k \div FieldWidth
             r == k % FieldWidth
  <2>0. k \in 0 .. Width - 1 /\ FieldWidth \in Nat /\ FieldWidth >= 1
    BY Places, Widths
  <2> HIDE DEF k
  <2>1. q \in Int /\ r \in 0 .. FieldWidth - 1 /\ k = q * FieldWidth + r
    BY <2>0, Remainders
  <2> HIDE DEF q, r
  <2>2. ASSUME NEW i \in 0 .. Fields - 1
        PROVE  b \in BitsOf(Fields - 1 - i) <=> q = i
    <3> DEFINE f == Fields - 1 - i
               s == i * FieldWidth
    <3>1. f \in 0 .. Fields - 1 /\ Fields - 1 - f = i
      BY Widths
    <3> HIDE DEF f
    <3>2. b \in BitsOf(f) <=> k \in s .. s + FieldWidth - 1
      BY <3>1, FieldPlaces DEF k
    <3>3. s \in Nat
      BY <2>0, Widths
    <3>4. ASSUME k \in s .. s + FieldWidth - 1 PROVE q = i
      <4>1. k - s \in 0 .. FieldWidth - 1
        BY <2>0, <3>3, <3>4
      <4>2. i * FieldWidth + (k - s) = q * FieldWidth + r
        BY <2>0, <2>1, <3>3
      <4> HIDE DEF s
      <4> QED
        BY <2>0, <2>1, <4>1, <4>2, Quotients
    <3>5. ASSUME q = i PROVE k \in s .. s + FieldWidth - 1
      <4>1. k = s + r
        BY <2>1, <3>3, <3>5
      <4> HIDE DEF s
      <4> QED
        BY <2>0, <2>1, <3>3, <4>1
    <3> QED
      BY <3>2, <3>4, <3>5 DEF f
  <2>3. b \in M <=> \E i \in crm : b \in BitsOf(Fields - 1 - i)
    OBVIOUS
  <2>4. b \in M <=> q \in crm
    <3> HIDE DEF M
    <3> QED
      BY <2>2, <2>3
  <2> QED
    BY <2>4 DEF q, k
<1> HIDE DEF M
<1>5. ASSUME NEW b \in CrBits
      PROVE  b \in AsBits(z) <=> IF b \in M THEN b \in AsBits(y) ELSE b \in AsBits(x)
  <2> DEFINE k == LastBit - b
  <2>1. k \in 0 .. LastBit
    BY Places
  <2>2. /\ b \in AsBits(z) <=> CrBit(z, k) = 1
        /\ b \in AsBits(x) <=> CrBit(x, k) = 1
        /\ b \in AsBits(y) <=> CrBit(y, k) = 1
    BY Places
  <2>3. b \in M <=> k \div FieldWidth \in crm
    BY <1>4
  <2> HIDE DEF k
  <2> QED
    BY <1>2, <1>3, <2>1, <2>2, <2>3
<1>6. AsBits(z) \subseteq CrBits /\ AsBits(x) \subseteq CrBits /\ AsBits(y) \subseteq CrBits
  BY Places
<1>7. AsBits(z) = (AsBits(x) \ M) \cup (AsBits(y) \cap M)
  BY <1>5, <1>6
<1> QED
  BY <1>3, <1>7 DEF z, M, bits

\* Every set of bits is that of a number.
LEMMA NumberBits ==
  ASSUME NEW S \in SUBSET CrBits
  PROVE  Number(S) \in 0 .. CrTop - 1 /\ AsBits(Number(S)) = S
<1> DEFINE bits == [k \in 0 .. LastBit |-> IF LastBit - k \in S THEN 1 ELSE 0]
           z == Weighted(bits)
<1>1. bits \in [0 .. LastBit -> {0, 1}]
  OBVIOUS
<1>2. \A k \in 0 .. LastBit : bits[k] = 1 <=> LastBit - k \in S
  OBVIOUS
<1> HIDE DEF bits
<1>3. z \in 0 .. CrTop - 1 /\ \A k \in 0 .. LastBit : CrBit(z, k) = bits[k]
  BY <1>1, WeightedBits
<1> HIDE DEF z
<1>4. ASSUME NEW b \in CrBits PROVE b \in AsBits(z) <=> b \in S
  <2> DEFINE k == LastBit - b
  <2>1. k \in 0 .. LastBit /\ LastBit - k = b
    BY Places
  <2>2. b \in AsBits(z) <=> CrBit(z, k) = 1
    BY Places
  <2> HIDE DEF k
  <2>3. CrBit(z, k) = bits[k] /\ (bits[k] = 1 <=> b \in S)
    BY <1>2, <1>3, <2>1
  <2> QED
    BY <2>2, <2>3
<1>5. AsBits(z) = S
  <2>1. AsBits(z) \subseteq CrBits
    BY Places
  <2> QED
    BY <1>4, <2>1
<1> QED
  BY <1>3, <1>5 DEF Number

-----------------------------------------------------------------------------
(* Addresses and contexts *)

\* Addresses wrap around.
LEMMA Wraps ==
  ASSUME NEW x \in Int
  PROVE  x % Top \in Addresses
<1>1. Top \in Nat /\ Top > 0
  BY ProgramAssumption
<1> QED
  BY <1>1, Remainders DEF Addresses

\* An address that is aligned is still one.
LEMMA Aligns ==
  ASSUME NEW x \in Addresses
  PROVE  Align(x) \in Addresses
<1>1. Unit \in Nat /\ Unit > 0 /\ Top \in Nat /\ x \in Nat
  BY ProgramAssumption DEF Addresses
<1> DEFINE q == x \div Unit
           r == x % Unit
<1>2. q \in Int /\ r \in 0 .. Unit - 1 /\ x = q * Unit + r
  BY <1>1, Remainders
<1>3. r <= x
  <2> HIDE DEF q, r
  <2>1. CASE q >= 0
    <3>1. q * Unit >= 0
      BY <1>1, <1>2, <2>1
    <3>2. q * Unit \in Int
      BY <1>1, <1>2
    <3> QED
      BY <1>1, <1>2, <3>1, <3>2
  <2>2. CASE q <= -1
    <3>1. q * Unit <= (-1) * Unit
      BY <1>1, <1>2, <2>2
    <3>2. q * Unit \in Int
      BY <1>1, <1>2
    <3> QED
      BY <1>1, <1>2, <3>1, <3>2
  <2> QED
    BY <1>2, <2>1, <2>2
<1> HIDE DEF q
<1>4. x - r \in 0 .. Top - 1
  <2> HIDE DEF r
  <2> QED
    BY <1>1, <1>2, <1>3 DEF Addresses
<1> QED
  BY <1>4 DEF Align, Addresses

\* The counter that reaches 0 was 1: _do_cond_branch looks at it after the
\* decrement, the architecture before.
LEMMA LastCount ==
  ASSUME NEW x \in Addresses
  PROVE  (x - 1) % Top = 0 <=> x = 1
<1>1. Top \in Nat /\ Top > 1 /\ x \in 0 .. Top - 1
  BY ProgramAssumption DEF Addresses
<1>2. CASE x = 0
  <2>1. (-1) * Top + (Top - 1) = x - 1
    BY <1>1, <1>2
  <2>2. ((-1) * Top + (Top - 1)) % Top = Top - 1
    BY <1>1, Remainder
  <2> QED
    BY <1>1, <1>2, <2>1, <2>2
<1>3. CASE x > 0
  <2>1. 0 * Top + (x - 1) = x - 1 /\ x - 1 \in 0 .. Top - 1
    BY <1>1, <1>3
  <2>2. (0 * Top + (x - 1)) % Top = x - 1
    BY <1>1, <2>1, Remainder
  <2> QED
    BY <1>1, <2>1, <2>2
<1> QED
  BY <1>1, <1>2, <1>3

\* The registers of the machine are those of a context.
LEMMA RegistersType ==
  ASSUME NEW c \in Cpu
  PROVE  Registers(c) \in Contexts
<1>1. AsBits(c.cr) \subseteq CrBits
  BY DEF AsBits
<1> QED
  BY <1>1 DEF Registers, Contexts, Cpu

\* The next instruction has a context.
LEMMA OnType ==
  ASSUME NEW c \in Contexts
  PROVE  On(c) \in Contexts
<1>1. c.pc + Unit \in Int
  BY ProgramAssumption DEF Contexts, Addresses
<1>2. (c.pc + Unit) % Top \in Addresses
  BY <1>1, Wraps
<1> QED
  BY <1>2 DEF On, Contexts

\* The start of a handler has a context.
LEMMA EntryType ==
  ASSUME NEW c \in Contexts, NEW cause \in Causes
  PROVE  Entry(c, cause) \in Contexts
<1>1. Vector[cause] + (IF "IP" \in c.msr THEN Prefix ELSE 0) \in Addresses
  BY ProgramAssumption DEF Addresses
<1>2. EntryMsr(c.msr) \in SUBSET MsrBits
  BY DEF EntryMsr, MsrBits
<1> QED
  BY <1>1, <1>2 DEF Entry, Contexts

\* Where the code that the handler interrupted goes on
Interrupted(c) == [Registers(c) EXCEPT !.pc = c.srr0, !.msr = c.srr1]

\* The same, register by register
LEMMA InterruptedAt ==
  ASSUME NEW c
  PROVE  Interrupted(c)
           = [pc |-> c.srr0, lr |-> c.lr, ctr |-> c.ctr, cr |-> AsBits(c.cr), msr |-> c.srr1]
<1> DEFINE r == Registers(c)
           z == Interrupted(c)
<1>1. r = [pc |-> c.pc, lr |-> c.lr, ctr |-> c.ctr, cr |-> AsBits(c.cr), msr |-> c.msr]
  BY DEF Registers
<1>2. z = [r EXCEPT !.pc = c.srr0, !.msr = c.srr1]
  BY DEF Interrupted
<1> HIDE DEF r, z
<1>3. z = [pc |-> c.srr0, lr |-> c.lr, ctr |-> c.ctr, cr |-> AsBits(c.cr), msr |-> c.srr1]
  BY <1>1, <1>2
<1> QED
  BY <1>3 DEF z

\* exception_fire: the handler is entered, and returns to where it was called.
LEMMA FireEnters ==
  ASSUME NEW c \in Cpu, NEW cause \in Causes
  PROVE  /\ Fire(c, cause) \in Cpu
         /\ Fire(c, cause).branched = TRUE /\ "EE" \notin Fire(c, cause).msr
         /\ Registers(Fire(c, cause)) = Entry(Registers(c), cause)
         /\ Interrupted(Fire(c, cause)) = Registers(c)
<1> DEFINE left == c.msr \ {"EE", "PR", "IR"}
           msr == IF "ILE" \in left THEN left \cup {"LE"} ELSE left \ {"LE"}
           pc == (IF "IP" \in c.msr THEN Prefix ELSE 0) + Vector[cause]
<1>1. Fire(c, cause) = [c EXCEPT !.srr0 = c.pc, !.srr1 = c.msr, !.msr = msr,
                                 !.pc = pc, !.branched = TRUE]
  BY DEF Fire
<1>2. c.msr \subseteq MsrBits
  BY DEF Cpu
<1>3. msr = EntryMsr(c.msr) /\ "EE" \notin msr /\ msr \subseteq MsrBits
  BY <1>2 DEF MsrBits, EntryMsr
<1>4. /\ pc = Vector[cause] + (IF "IP" \in c.msr THEN Prefix ELSE 0)
      /\ pc \in Addresses
  BY ProgramAssumption DEF Addresses
<1> HIDE DEF msr, pc
<1> DEFINE n == [c EXCEPT !.srr0 = c.pc, !.srr1 = c.msr, !.msr = msr,
                          !.pc = pc, !.branched = TRUE]
<1>5. n \in Cpu
  BY <1>3, <1>4 DEF Cpu
<1>6. /\ n.srr0 = c.pc /\ n.srr1 = c.msr /\ n.msr = msr /\ n.pc = pc
      /\ n.branched = TRUE /\ n.lr = c.lr /\ n.ctr = c.ctr /\ n.cr = c.cr
  BY DEF Cpu
<1> HIDE DEF n
<1>7. Registers(n) = Entry(Registers(c), cause)
  <2> DEFINE r == Registers(c)
             m == Vector[cause] + (IF "IP" \in c.msr THEN Prefix ELSE 0)
  <2>1. r = [pc |-> c.pc, lr |-> c.lr, ctr |-> c.ctr, cr |-> AsBits(c.cr), msr |-> c.msr]
    BY DEF Registers
  <2>2. Entry(r, cause) = [r EXCEPT !.pc = m, !.msr = EntryMsr(c.msr)]
    BY DEF Entry, Registers
  <2> HIDE DEF r, m
  <2>3. Registers(n) = [pc |-> pc, lr |-> c.lr, ctr |-> c.ctr, cr |-> AsBits(c.cr), msr |-> msr]
    BY <1>6 DEF Registers
  <2>4. pc = m
    BY <1>4 DEF m
  <2>5. msr = EntryMsr(c.msr)
    BY <1>3
  <2>6. Registers(n) = Entry(r, cause)
    BY <2>1, <2>2, <2>3, <2>4, <2>5
  <2> QED
    BY <2>6 DEF r
<1>8. Interrupted(n) = Registers(c)
  <2> DEFINE r == Registers(n)
  <2>1. r = [pc |-> pc, lr |-> c.lr, ctr |-> c.ctr, cr |-> AsBits(c.cr), msr |-> msr]
    BY <1>6 DEF Registers
  <2>2. Interrupted(n) = [r EXCEPT !.pc = c.pc, !.msr = c.msr]
    BY <1>6 DEF Interrupted
  <2> HIDE DEF r
  <2>3. Interrupted(n)
          = [pc |-> c.pc, lr |-> c.lr, ctr |-> c.ctr, cr |-> AsBits(c.cr), msr |-> c.msr]
    BY <2>1, <2>2
  <2> QED
    BY <2>3 DEF Registers
<1> QED
  BY <1>1, <1>3, <1>5, <1>6, <1>7, <1>8 DEF n

-----------------------------------------------------------------------------
(* The invariant *)

\* stack is what alone should be while the registers are c: every context below
\* the top is in memory, but that of the code just interrupted, which is still in
\* the registers.
Level(stack, sv, c) ==
  /\ stack \in Seq(Contexts) /\ sv \in Seq(Contexts) /\ c \in Cpu
  /\ Len(stack) >= 1
  /\ Len(stack) - 1 - Len(sv) \in {0, 1}
  /\ Registers(c) = stack[Len(stack)]
  /\ \A i \in 1 .. Len(sv) : sv[i] = stack[i]
  /\ Len(stack) - 1 > Len(sv) => Interrupted(c) = stack[Len(stack) - 1]

Inv == Level(alone, saved, cpu)

\* The contexts below the one on top
LEMMA BelowStack ==
  ASSUME NEW s \in Seq(Contexts), Len(s) >= 1
  PROVE  LET b == SubSeq(s, 1, Len(s) - 1)
         IN /\ b \in Seq(Contexts) /\ Len(b) = Len(s) - 1
            /\ \A i \in 1 .. Len(s) - 1 : b[i] = s[i]
<1> DEFINE n == Len(s) - 1
           b == SubSeq(s, 1, n)
<1>1. n \in Nat /\ n <= Len(s) /\ Len(s) \in Nat
  OBVIOUS
<1>2. \A i \in 1 .. n : s[i] \in Contexts
  OBVIOUS
<1> HIDE DEF n
<1>3. b \in Seq(Contexts) /\ Len(b) = n /\ \A i \in 1 .. n : b[i] = s[i]
  BY <1>1, <1>2, SubSeqProperties
<1> QED
  BY <1>3 DEF n

\* A context put on top leaves the others as they are.
LEMMA Pushed ==
  ASSUME NEW s \in Seq(Contexts), NEW x \in Contexts
  PROVE  /\ Append(s, x) \in Seq(Contexts) /\ Len(Append(s, x)) = Len(s) + 1
         /\ Append(s, x)[Len(s) + 1] = x
         /\ \A i \in 1 .. Len(s) : Append(s, x)[i] = s[i]
OBVIOUS

\* The end of _ppcemu_decode_exec, without an interrupt
Advanced(c) == IF c.branched THEN c ELSE [c EXCEPT !.pc = (@ + Unit) % Top]

\* The end of an instruction leaves registers.
LEMMA AdvancedType ==
  ASSUME NEW c \in Cpu
  PROVE  Advanced(c) \in Cpu
<1>1. c.pc + Unit \in Int
  BY ProgramAssumption DEF Cpu, Addresses
<1>2. (c.pc + Unit) % Top \in Addresses
  BY <1>1, Wraps
<1> QED
  BY <1>2 DEF Advanced, Cpu

\* An interrupt or an exception enters a handler: the code below has put its own
\* return away by then, so that SRR0 and SRR1 are free for the new one.
LEMMA InterruptKeeps ==
  ASSUME NEW s, NEW sv, NEW c, Level(s, sv, c), Len(s) - 1 = Len(sv), NEW cause \in Causes
  PROVE  Level(Append(s, Entry(s[Len(s)], cause)), sv, Fire(c, cause))
<1> DEFINE e == Entry(s[Len(s)], cause)
           f == Fire(c, cause)
           t == Append(s, e)
<1>1. /\ s \in Seq(Contexts) /\ sv \in Seq(Contexts) /\ c \in Cpu /\ Len(s) >= 1
      /\ Registers(c) = s[Len(s)] /\ \A i \in 1 .. Len(sv) : sv[i] = s[i]
      /\ Len(s) \in Nat /\ Len(sv) \in Nat
  BY DEF Level
<1>2. s[Len(s)] \in Contexts
  BY <1>1, RegistersType
<1>3. e \in Contexts
  BY <1>2, EntryType
<1>4. f \in Cpu /\ Registers(f) = e /\ Interrupted(f) = s[Len(s)]
  BY <1>1, FireEnters
<1> HIDE DEF e, f
<1>5. /\ t \in Seq(Contexts) /\ Len(t) = Len(s) + 1 /\ t[Len(s) + 1] = e
      /\ \A i \in 1 .. Len(s) : t[i] = s[i]
  BY <1>1, <1>3, Pushed
<1> HIDE DEF t
<1>6. t[Len(t)] = e /\ t[Len(t) - 1] = s[Len(s)] /\ \A i \in 1 .. Len(sv) : sv[i] = t[i]
  BY <1>1, <1>5
<1>7. Level(t, sv, f)
  BY <1>1, <1>4, <1>5, <1>6 DEF Level
<1> QED
  BY <1>7 DEF t, e, f

\* ppcemu_step after an instruction: the interrupt that is pending, if any
LEMMA EndKeeps ==
  ASSUME NEW s, NEW c, Level(s, saved, Advanced(c)),
         "EE" \in Advanced(c).msr => Len(s) - 1 = Len(saved),
         End(c, s), saved' = saved
  PROVE  Inv'
<1> DEFINE n == Advanced(c)
<1>1. \/ cpu' = n /\ alone' = s
      \/ \E cause \in {"ext", "dec"} :
           /\ "EE" \in n.msr
           /\ cpu' = Fire(n, cause) /\ alone' = Append(s, Entry(s[Len(s)], cause))
  BY DEF End, Advanced
<1> HIDE DEF n
<1>2. CASE cpu' = n /\ alone' = s
  BY <1>2 DEF Inv, n
<1>3. ASSUME NEW cause \in {"ext", "dec"}, "EE" \in n.msr, cpu' = Fire(n, cause),
             alone' = Append(s, Entry(s[Len(s)], cause))
      PROVE  Inv'
  <2>1. cause \in Causes
    BY DEF Causes
  <2>2. Level(s, saved, n) /\ Len(s) - 1 = Len(saved)
    BY <1>3 DEF n
  <2>3. Level(Append(s, Entry(s[Len(s)], cause)), saved, Fire(n, cause))
    BY <2>1, <2>2, InterruptKeeps
  <2> QED
    BY <1>3, <2>3 DEF Inv
<1> QED
  BY <1>1, <1>2, <1>3

\* An instruction of the code that runs
LEMMA RunsKeep ==
  ASSUME Inv, NEW c \in Cpu, NEW meant, Registers(Advanced(c)) = meant, Runs(c, meant)
  PROVE  Inv'
<1> DEFINE s == Append(Below, meant)
<1>1. /\ alone \in Seq(Contexts) /\ saved \in Seq(Contexts) /\ Len(alone) >= 1
      /\ Len(alone) - 1 - Len(saved) \in {0, 1} /\ Len(alone) \in Nat /\ Len(saved) \in Nat
      /\ \A i \in 1 .. Len(saved) : saved[i] = alone[i]
  BY DEF Inv, Level
<1>2. Len(alone) - 1 = Len(saved)
  BY <1>1 DEF Runs, AtEdge, Depth
<1>3. /\ Below \in Seq(Contexts) /\ Len(Below) = Len(alone) - 1
      /\ \A i \in 1 .. Len(alone) - 1 : Below[i] = alone[i]
  BY <1>1, BelowStack DEF Below
<1>4. Advanced(c) \in Cpu /\ meant \in Contexts
  BY AdvancedType, RegistersType
<1>5. /\ s \in Seq(Contexts) /\ Len(s) = Len(alone) /\ s[Len(alone)] = meant
      /\ \A i \in 1 .. Len(alone) - 1 : s[i] = alone[i]
  <2>1. /\ s \in Seq(Contexts) /\ Len(s) = Len(Below) + 1 /\ s[Len(Below) + 1] = meant
        /\ \A i \in 1 .. Len(Below) : s[i] = Below[i]
    BY <1>3, <1>4, Pushed
  <2> HIDE DEF s
  <2> QED
    BY <1>1, <1>3, <2>1
<1>6. End(c, s) /\ saved' = saved
  BY DEF Runs
<1> HIDE DEF s
<1>7. Level(s, saved, Advanced(c))
  BY <1>1, <1>2, <1>4, <1>5 DEF Level
<1> QED
  BY <1>2, <1>5, <1>6, <1>7, EndKeeps

\* An exception of the instruction itself: f is the state at the handler's
\* vector, meant the context to which the handler returns.
LEMMA EnterKeeps ==
  ASSUME Inv, NEW f \in Cpu, NEW meant \in Contexts, NEW cause \in Causes,
         f.branched = TRUE, "EE" \notin f.msr, Registers(f) = Entry(meant, cause),
         Interrupted(f) = meant, Enter(f, meant, cause)
  PROVE  Inv'
<1> DEFINE e == Entry(meant, cause)
           t == Append(Below, meant)
           s == Append(t, e)
<1>1. /\ alone \in Seq(Contexts) /\ saved \in Seq(Contexts) /\ Len(alone) >= 1
      /\ Len(alone) - 1 - Len(saved) \in {0, 1} /\ Len(alone) \in Nat /\ Len(saved) \in Nat
      /\ \A i \in 1 .. Len(saved) : saved[i] = alone[i]
  BY DEF Inv, Level
<1>2. Len(alone) - 1 = Len(saved)
  BY <1>1 DEF Enter, AtEdge, Depth
<1>3. /\ Below \in Seq(Contexts) /\ Len(Below) = Len(alone) - 1
      /\ \A i \in 1 .. Len(alone) - 1 : Below[i] = alone[i]
  BY <1>1, BelowStack DEF Below
<1>4. e \in Contexts
  BY EntryType
<1> HIDE DEF e
<1>5. /\ t \in Seq(Contexts) /\ Len(t) = Len(Below) + 1 /\ t[Len(Below) + 1] = meant
      /\ \A i \in 1 .. Len(Below) : t[i] = Below[i]
  BY <1>3, Pushed
<1> HIDE DEF t
<1>6. /\ s \in Seq(Contexts) /\ Len(s) = Len(t) + 1 /\ s[Len(t) + 1] = e
      /\ \A i \in 1 .. Len(t) : s[i] = t[i]
  BY <1>4, <1>5, Pushed
<1>7. End(f, s) /\ saved' = saved
  BY DEF Enter, e, t
<1> HIDE DEF s
<1>8. Len(t) = Len(alone) /\ Len(s) = Len(alone) + 1
  BY <1>1, <1>3, <1>5, <1>6
<1>9. s[Len(s)] = e /\ s[Len(s) - 1] = meant
  BY <1>1, <1>3, <1>5, <1>6, <1>8
<1>10. ASSUME NEW i \in 1 .. Len(saved) PROVE saved[i] = s[i]
  <2>1. i \in 1 .. Len(alone) - 1 /\ i \in 1 .. Len(t) /\ i \in 1 .. Len(Below)
    BY <1>1, <1>2, <1>3, <1>8
  <2> QED
    BY <1>1, <1>3, <1>5, <1>6, <2>1
<1>11. Advanced(f) = f
  BY DEF Advanced
<1>12. Level(s, saved, f)
  BY <1>1, <1>2, <1>6, <1>8, <1>9, <1>10 DEF Level, e
<1> QED
  BY <1>7, <1>11, <1>12, EndKeeps

-----------------------------------------------------------------------------
(* The actions *)

\* What the invariant says of the registers and the context on top
LEMMA OnTop ==
  ASSUME Inv
  PROVE  /\ cpu \in Cpu /\ Begin \in Cpu /\ Alone = Registers(cpu) /\ Alone \in Contexts
         /\ Registers(Begin) = Alone
         /\ Alone.pc = cpu.pc /\ Alone.lr = cpu.lr /\ Alone.ctr = cpu.ctr
         /\ Alone.cr = AsBits(cpu.cr) /\ Alone.msr = cpu.msr
<1>1. cpu \in Cpu /\ Alone = Registers(cpu)
  BY DEF Inv, Level, Alone
<1>2. Begin \in Cpu
  BY <1>1 DEF Begin, Cpu
<1>3. Registers(Begin) = Registers(cpu)
  BY <1>1 DEF Begin, Cpu, Registers
<1> QED
  BY <1>1, <1>2, <1>3, RegistersType DEF Registers

\* The context after an instruction that does not branch is the next one.
LEMMA AfterPlain ==
  ASSUME NEW c \in Cpu, c.branched = FALSE
  PROVE  Registers(Advanced(c)) = On(Registers(c))
<1>1. c.branched \in BOOLEAN /\ Advanced(c) = [c EXCEPT !.pc = (@ + Unit) % Top]
  BY DEF Advanced
<1> QED
  BY <1>1 DEF Registers, On, Cpu

\* A branch that is taken has set the pc itself.
LEMMA AfterBranch ==
  ASSUME NEW c \in Cpu, c.branched = TRUE
  PROVE  Registers(Advanced(c)) = Registers(c)
BY DEF Advanced

\* An instruction that changes c but not the pc
LEMMA PlainKeeps ==
  ASSUME Inv, NEW c \in Cpu, c.branched = FALSE, Runs(c, On(Registers(c)))
  PROVE  Inv'
BY AfterPlain, RunsKeep

\* b, ba, bl and bla
LEMMA BKeeps ==
  ASSUME Inv, NEW li \in Int, NEW aa \in BOOLEAN, NEW lk \in BOOLEAN, B(li, aa, lk)
  PROVE  Inv'
<1> DEFINE to == Align((IF aa THEN li ELSE cpu.pc + li) % Top)
           linked == IF lk THEN [Begin EXCEPT !.lr = (cpu.pc + Unit) % Top] ELSE Begin
           c == [linked EXCEPT !.pc = to, !.branched = TRUE]
           next == (cpu.pc + Unit) % Top
<1>1. cpu \in Cpu /\ Begin \in Cpu /\ Begin.pc = cpu.pc /\ cpu.pc \in Int
  BY OnTop DEF Begin, Cpu, Addresses
<1>2. to \in Addresses
  <2>1. (IF aa THEN li ELSE cpu.pc + li) \in Int
    BY <1>1
  <2> QED
    BY <2>1, Wraps, Aligns
<1>3. next \in Addresses
  <2>1. cpu.pc + Unit \in Int
    BY <1>1, ProgramAssumption
  <2> QED
    BY <2>1, Wraps
<1>4. Runs(c, Branches(Alone, TRUE, to, lk))
  BY <1>1, OnTop DEF B, Program
<1> HIDE DEF to, next
<1>5. c \in Cpu /\ c.branched = TRUE
  BY <1>1, <1>2, <1>3 DEF Cpu, next
<1>6. Registers(c) = Branches(Alone, TRUE, to, lk)
  <2>1. CASE lk
    <3>1. Alone = [pc |-> cpu.pc, lr |-> cpu.lr, ctr |-> cpu.ctr, cr |-> AsBits(cpu.cr),
                   msr |-> cpu.msr]
      BY OnTop DEF Registers
    <3>2. Branches(Alone, TRUE, to, lk)
            = [pc |-> to, lr |-> next, ctr |-> cpu.ctr, cr |-> AsBits(cpu.cr), msr |-> cpu.msr]
      BY <2>1, <3>1 DEF Branches, To, Linked, next
    <3>3. Registers(c)
            = [pc |-> to, lr |-> next, ctr |-> cpu.ctr, cr |-> AsBits(cpu.cr), msr |-> cpu.msr]
      BY <1>1, <2>1 DEF Registers, Begin, Cpu, next
    <3> QED
      BY <3>2, <3>3
  <2>2. CASE ~ lk
    <3>1. Alone = [pc |-> cpu.pc, lr |-> cpu.lr, ctr |-> cpu.ctr, cr |-> AsBits(cpu.cr),
                   msr |-> cpu.msr]
      BY OnTop DEF Registers
    <3>2. Branches(Alone, TRUE, to, lk)
            = [pc |-> to, lr |-> cpu.lr, ctr |-> cpu.ctr, cr |-> AsBits(cpu.cr),
               msr |-> cpu.msr]
      BY <2>2, <3>1 DEF Branches, To, Linked
    <3>3. Registers(c)
            = [pc |-> to, lr |-> cpu.lr, ctr |-> cpu.ctr, cr |-> AsBits(cpu.cr),
               msr |-> cpu.msr]
      BY <1>1, <2>2 DEF Registers, Begin, Cpu
    <3> QED
      BY <3>2, <3>3
  <2> QED
    BY <2>1, <2>2
<1> HIDE DEF c
<1>7. Registers(Advanced(c)) = Branches(Alone, TRUE, to, lk)
  BY <1>5, <1>6, AfterBranch
<1> QED
  BY <1>4, <1>5, <1>7, RunsKeep

\* The three conditional branches, target being that of any of them
LEMMA CondBranchKeeps ==
  ASSUME Inv, NEW bo \in Bos, NEW bi \in Tested, NEW lk \in BOOLEAN,
         NEW target \in Addresses,
         Program(CondBranch(bo, bi, lk, target), Meant(bo, bi, lk, target))
  PROVE  Inv'
<1> DEFINE ctr == IF 4 \in bo THEN cpu.ctr ELSE (cpu.ctr - 1) % Top
           ctrOk == 4 \in bo \/ (IF 2 \in bo THEN ctr = 0 ELSE ctr # 0)
           condOk == 16 \in bo \/ (CrBit(cpu.cr, LastBit - bi) = 1) = (8 \in bo)
           counted == [Begin EXCEPT !.ctr = ctr]
           next == (cpu.pc + Unit) % Top
           a == [pc |-> cpu.pc, lr |-> cpu.lr, ctr |-> ctr, cr |-> AsBits(cpu.cr),
                 msr |-> cpu.msr]
           c == CondBranch(bo, bi, lk, target)
           m == Meant(bo, bi, lk, target)
<1>1. cpu \in Cpu /\ Begin \in Cpu /\ cpu.pc \in Int /\ cpu.ctr \in Addresses /\ cpu.ctr \in Int
  BY OnTop DEF Cpu, Addresses
<1>2. ctr \in Addresses
  BY <1>1, Wraps
<1>3. next \in Addresses
  <2>1. cpu.pc + Unit \in Int
    BY <1>1, ProgramAssumption
  <2> QED
    BY <2>1, Wraps
<1>4. ctrOk <=> (4 \in bo \/ (cpu.ctr = 1 <=> 2 \in bo))
  <2>1. (cpu.ctr - 1) % Top = 0 <=> cpu.ctr = 1
    BY <1>1, LastCount
  <2>2. CASE 4 \in bo
    BY <2>2
  <2>3. CASE 4 \notin bo
    <3>1. ctr = 0 <=> cpu.ctr = 1
      BY <2>1, <2>3
    <3> HIDE DEF ctr
    <3> QED
      BY <2>3, <3>1
  <2> QED
    BY <2>2, <2>3
<1>5. condOk <=> (16 \in bo \/ (bi \in Alone.cr <=> 8 \in bo))
  <2>1. bi \in CrBits /\ Alone.cr = AsBits(cpu.cr)
    BY ControlFlowAssumption, OnTop
  <2>2. bi \in Alone.cr <=> CrBit(cpu.cr, LastBit - bi) = 1
    BY <2>1, Places
  <2> DEFINE set == CrBit(cpu.cr, LastBit - bi) = 1
  <2>3. set \in BOOLEAN /\ (8 \in bo) \in BOOLEAN
    OBVIOUS
  <2>4. bi \in Alone.cr <=> set
    BY <2>2
  <2> HIDE DEF set
  <2>5. (set = (8 \in bo)) <=> (set <=> 8 \in bo)
    BY <2>3
  <2>6. condOk <=> (16 \in bo \/ set = (8 \in bo))
    BY DEF set
  <2> HIDE DEF condOk
  <2> QED
    BY <2>4, <2>5, <2>6
<1>6. Taken(bo, bi, Alone) <=> ctrOk /\ condOk
  <2>1. Taken(bo, bi, Alone) <=>
          /\ 4 \in bo \/ (cpu.ctr = 1 <=> 2 \in bo)
          /\ 16 \in bo \/ (bi \in Alone.cr <=> 8 \in bo)
    BY OnTop DEF Taken
  <2> HIDE DEF ctrOk, condOk
  <2> QED
    BY <1>4, <1>5, <2>1
<1>7. Counted(bo, Alone) = a
  <2>1. Alone = [pc |-> cpu.pc, lr |-> cpu.lr, ctr |-> cpu.ctr, cr |-> AsBits(cpu.cr),
                 msr |-> cpu.msr]
    BY OnTop DEF Registers
  <2> QED
    BY <2>1 DEF Counted
<1>8. c = IF ctrOk /\ condOk
          THEN [counted EXCEPT !.pc = target, !.branched = TRUE,
                               !.lr = IF lk THEN next ELSE @]
          ELSE counted
  BY DEF CondBranch
<1>9. m = Branches(Counted(bo, Alone), Taken(bo, bi, Alone), target, lk)
  BY DEF Meant
<1>10. Runs(c, m)
  BY DEF Program
<1> HIDE DEF ctr, ctrOk, condOk, next, c, m
<1>11. CASE ctrOk /\ condOk
  <2> DEFINE d == [counted EXCEPT !.pc = target, !.branched = TRUE,
                                  !.lr = IF lk THEN next ELSE @]
             lr == IF lk THEN next ELSE cpu.lr
  <2>1. c = d
    BY <1>8, <1>11
  <2>2. d \in Cpu /\ d.branched = TRUE
    BY <1>1, <1>2, <1>3 DEF Cpu
  <2>3. Registers(d) = [pc |-> target, lr |-> lr, ctr |-> ctr, cr |-> AsBits(cpu.cr),
                        msr |-> cpu.msr]
    BY <1>1 DEF Registers, Begin, Cpu
  <2>4. m = To(Linked(a, lk), target)
    BY <1>6, <1>7, <1>9, <1>11 DEF Branches
  <2>5. To(Linked(a, lk), target)
          = [pc |-> target, lr |-> lr, ctr |-> ctr, cr |-> AsBits(cpu.cr), msr |-> cpu.msr]
    BY DEF To, Linked, next
  <2> HIDE DEF d
  <2>6. Registers(Advanced(d)) = m
    BY <2>2, <2>3, <2>4, <2>5, AfterBranch
  <2> QED
    BY <1>10, <2>1, <2>2, <2>6, RunsKeep
<1>12. CASE ~ (ctrOk /\ condOk)
  <2>1. c = counted
    BY <1>8, <1>12
  <2>2. counted \in Cpu /\ counted.branched = FALSE
    BY <1>1, <1>2 DEF Cpu, Begin
  <2>3. Registers(counted) = a
    BY <1>1 DEF Registers, Begin, Cpu
  <2>4. m = On(a)
    BY <1>6, <1>7, <1>9, <1>12 DEF Branches
  <2> HIDE DEF counted, a
  <2> QED
    BY <1>10, <2>1, <2>2, <2>3, <2>4, PlainKeeps
<1> QED
  BY <1>11, <1>12

\* bc and its forms: the target is relative to the instruction, or absolute.
LEMMA BcKeeps ==
  ASSUME Inv, NEW bo \in Bos, NEW bi \in Tested, NEW bd \in Int, NEW aa \in BOOLEAN,
         NEW lk \in BOOLEAN, Bc(bo, bi, bd, aa, lk)
  PROVE  Inv'
<1> DEFINE target == (IF aa THEN bd ELSE cpu.pc + bd) % Top
<1>1. cpu.pc \in Int /\ Alone.pc = cpu.pc
  BY OnTop DEF Cpu, Addresses
<1>2. target \in Addresses
  <2>1. (IF aa THEN bd ELSE cpu.pc + bd) \in Int
    BY <1>1
  <2> QED
    BY <2>1, Wraps
<1>3. Program(CondBranch(bo, bi, lk, target), Meant(bo, bi, lk, target))
  BY <1>1 DEF Bc
<1> HIDE DEF target
<1> QED
  BY <1>2, <1>3, CondBranchKeeps

\* bclr and bcctr: the target comes from the register before it is written.
LEMMA RegisterBranchKeeps ==
  ASSUME Inv, NEW bo \in Bos, NEW bi \in Tested, NEW lk \in BOOLEAN,
         Bclr(bo, bi, lk) \/ Bcctr(bo, bi, lk)
  PROVE  Inv'
<1>1. /\ Align(cpu.lr) \in Addresses /\ Align(cpu.ctr) \in Addresses
      /\ Alone.lr = cpu.lr /\ Alone.ctr = cpu.ctr
  BY OnTop, Aligns DEF Cpu
<1>2. CASE Bclr(bo, bi, lk)
  <2>1. Program(CondBranch(bo, bi, lk, Align(cpu.lr)), Meant(bo, bi, lk, Align(cpu.lr)))
    BY <1>1, <1>2 DEF Bclr
  <2> QED
    BY <1>1, <2>1, CondBranchKeeps
<1>3. CASE Bcctr(bo, bi, lk)
  <2>1. Program(CondBranch(bo, bi, lk, Align(cpu.ctr)), Meant(bo, bi, lk, Align(cpu.ctr)))
    BY <1>1, <1>3 DEF Bcctr
  <2> QED
    BY <1>1, <2>1, CondBranchKeeps
<1> QED
  BY <1>2, <1>3

\* The instructions on CR: x is what they leave in it.
LEMMA CrKeeps ==
  ASSUME Inv, NEW x \in 0 .. CrTop - 1,
         Runs([Begin EXCEPT !.cr = x], On([Alone EXCEPT !.cr = AsBits(x)]))
  PROVE  Inv'
<1> DEFINE c == [Begin EXCEPT !.cr = x]
           a == [Alone EXCEPT !.cr = AsBits(x)]
<1>1. c \in Cpu /\ c.branched = FALSE
  BY OnTop DEF Cpu, Begin
<1>2. Registers(c) = a
  <2>1. Alone = [pc |-> cpu.pc, lr |-> cpu.lr, ctr |-> cpu.ctr, cr |-> AsBits(cpu.cr),
                 msr |-> cpu.msr]
    BY OnTop DEF Registers
  <2>2. a = [pc |-> cpu.pc, lr |-> cpu.lr, ctr |-> cpu.ctr, cr |-> AsBits(x), msr |-> cpu.msr]
    BY <2>1
  <2>3. Registers(c) = [pc |-> cpu.pc, lr |-> cpu.lr, ctr |-> cpu.ctr, cr |-> AsBits(x),
                        msr |-> cpu.msr]
    BY OnTop DEF Registers, Begin, Cpu
  <2> QED
    BY <2>2, <2>3
<1>3. Runs(c, On(a))
  OBVIOUS
<1> HIDE DEF c, a
<1> QED
  BY <1>1, <1>2, <1>3, PlainKeeps

\* CR_OP is the logic of the instruction's name.
LEMMA CrOpLogic ==
  ASSUME NEW op \in CrOps, NEW a \in {0, 1}, NEW b \in {0, 1}, NEW S, NEW i, NEW j,
         i \in S <=> a = 1, j \in S <=> b = 1
  PROVE  CrOp(op, a, b) \in BOOLEAN /\ (Logic(op, i \in S, j \in S) <=> CrOp(op, a, b))
<1>1. CASE op = "crand"
  BY <1>1 DEF CrOp, Logic
<1>2. CASE op = "crandc"
  BY <1>2 DEF CrOp, Logic
<1>3. CASE op = "creqv"
  BY <1>3 DEF CrOp, Logic
<1>4. CASE op = "crnand"
  BY <1>4 DEF CrOp, Logic
<1>5. CASE op = "crnor"
  BY <1>5 DEF CrOp, Logic
<1>6. CASE op = "cror"
  BY <1>6 DEF CrOp, Logic
<1>7. CASE op = "crorc"
  BY <1>7 DEF CrOp, Logic
<1>8. CASE op = "crxor"
  BY <1>8 DEF CrOp, Logic
<1> QED
  BY <1>1, <1>2, <1>3, <1>4, <1>5, <1>6, <1>7, <1>8 DEF CrOps

\* The instructions on two CR bits
LEMMA CrLogicKeeps ==
  ASSUME Inv, NEW op \in CrOps, NEW d \in CrBits, NEW i \in CrBits, NEW j \in CrBits,
         CrLogic(op, d, i, j)
  PROVE  Inv'
<1> DEFINE a == CrBit(cpu.cr, LastBit - i)
           b == CrBit(cpu.cr, LastBit - j)
           v == CrOp(op, a, b)
           x == SetCrBit(cpu.cr, LastBit - d, v)
           l == Logic(op, i \in Alone.cr, j \in Alone.cr)
<1>1. cpu.cr \in 0 .. CrTop - 1 /\ Begin.cr = cpu.cr /\ Alone.cr = AsBits(cpu.cr)
  BY OnTop DEF Cpu, Begin
<1>2. a \in {0, 1} /\ b \in {0, 1} /\ (i \in Alone.cr <=> a = 1) /\ (j \in Alone.cr <=> b = 1)
  <2>1. cpu.cr \in Nat
    BY <1>1
  <2>2. LastBit - i \in 0 .. Width /\ LastBit - j \in 0 .. Width
    BY Places, Widths
  <2> QED
    BY <1>1, <2>1, <2>2, BitType, Places
<1>3. Runs([Begin EXCEPT !.cr = x], On(WithBit(Alone, d, l)))
  BY <1>1 DEF CrLogic, Program
<1>4. v \in BOOLEAN /\ (l <=> v)
  <2> HIDE DEF a, b
  <2> QED
    BY <1>2, CrOpLogic
<1> HIDE DEF a, b, v, l
<1>5. /\ x \in 0 .. CrTop - 1
      /\ AsBits(x) = IF v THEN AsBits(cpu.cr) \cup {d} ELSE AsBits(cpu.cr) \ {d}
  BY <1>1, <1>4, SetCrBitBits
<1> HIDE DEF x
<1>6. WithBit(Alone, d, l) = [Alone EXCEPT !.cr = AsBits(x)]
  <2>1. CASE v
    BY <1>1, <1>4, <1>5, <2>1 DEF WithBit
  <2>2. CASE ~ v
    BY <1>1, <1>4, <1>5, <2>2 DEF WithBit
  <2> QED
    BY <2>1, <2>2
<1> QED
  BY <1>3, <1>5, <1>6, CrKeeps

\* The compares
LEMMA CmpKeeps ==
  ASSUME Inv, NEW f \in 0 .. Fields - 1, NEW y \in 0 .. Weight[FieldWidth] - 1, Cmp(f, y)
  PROVE  Inv'
<1> DEFINE x == SetCrField(cpu.cr, f, y)
           S == AsBits(y)
           w == WithField(Alone, f, S, Fields - 1)
<1>1. cpu.cr \in 0 .. CrTop - 1 /\ Begin.cr = cpu.cr /\ Alone.cr = AsBits(cpu.cr)
  BY OnTop DEF Cpu, Begin
<1>2. Runs([Begin EXCEPT !.cr = x], On(w))
  BY <1>1 DEF Cmp, Program
<1>3. /\ x \in 0 .. CrTop - 1
      /\ AsBits(x) = (AsBits(cpu.cr) \ BitsOf(f))
                       \cup {b \in BitsOf(f) : b + ((Fields - 1) - f) * FieldWidth \in S}
  BY <1>1, CmpBits
<1>4. w = [Alone EXCEPT !.cr = AsBits(x)]
  BY <1>1, <1>3 DEF WithField
<1> HIDE DEF x, w
<1> QED
  BY <1>2, <1>3, <1>4, CrKeeps

\* mcrf
LEMMA McrfKeeps ==
  ASSUME Inv, NEW d \in 0 .. Fields - 1, NEW s \in 0 .. Fields - 1, Mcrf(d, s)
  PROVE  Inv'
<1> DEFINE x == SetCrField(cpu.cr, d, CrField(cpu.cr, s))
           w == WithField(Alone, d, Alone.cr, s)
<1>1. cpu.cr \in 0 .. CrTop - 1 /\ Begin.cr = cpu.cr /\ Alone.cr = AsBits(cpu.cr)
  BY OnTop DEF Cpu, Begin
<1>2. Runs([Begin EXCEPT !.cr = x], On(w))
  BY <1>1 DEF Mcrf, Program
<1>3. /\ x \in 0 .. CrTop - 1
      /\ AsBits(x) = (AsBits(cpu.cr) \ BitsOf(d))
                       \cup {b \in BitsOf(d) : b + (s - d) * FieldWidth \in AsBits(cpu.cr)}
  BY <1>1, McrfBits
<1>4. w = [Alone EXCEPT !.cr = AsBits(x)]
  BY <1>1, <1>3 DEF WithField
<1> HIDE DEF x, w
<1> QED
  BY <1>2, <1>3, <1>4, CrKeeps

\* mtcrf
LEMMA MtcrfKeeps ==
  ASSUME Inv, NEW crm \in SUBSET (0 .. Fields - 1), NEW y \in Words, Mtcrf(crm, y)
  PROVE  Inv'
<1> DEFINE x == Weighted(MaskedCr(cpu.cr, crm, y))
           F == {Fields - 1 - i : i \in crm}
           M == UNION {BitsOf(f) : f \in F}
           w == WithFields(Alone, F, AsBits(y))
<1>1. cpu.cr \in 0 .. CrTop - 1 /\ Begin.cr = cpu.cr /\ Alone.cr = AsBits(cpu.cr)
  BY OnTop DEF Cpu, Begin
<1>2. Runs([Begin EXCEPT !.cr = x], On(w))
  BY <1>1 DEF Mtcrf, Program
<1>3. y \in 0 .. CrTop - 1
  BY ControlFlowAssumption
<1>4. x \in 0 .. CrTop - 1 /\ AsBits(x) = (AsBits(cpu.cr) \ M) \cup (AsBits(y) \cap M)
  BY <1>1, <1>3, MtcrfBits
<1>5. w = [Alone EXCEPT !.cr = (@ \ M) \cup (AsBits(y) \cap M)]
  BY DEF WithFields
<1> HIDE DEF x, w, M
<1>6. w = [Alone EXCEPT !.cr = AsBits(x)]
  BY <1>1, <1>4, <1>5
<1> QED
  BY <1>2, <1>4, <1>6, CrKeeps

\* mtlr, mtctr, mtmsr and what writes none of the registers
LEMMA MoveKeeps ==
  ASSUME Inv, NEW x, Plain \/ (x \in Addresses /\ (Mtlr(x) \/ Mtctr(x)))
                           \/ (x \in SUBSET MsrBits /\ Mtmsr(x))
  PROVE  Inv'
<1>1. Alone = [pc |-> cpu.pc, lr |-> cpu.lr, ctr |-> cpu.ctr, cr |-> AsBits(cpu.cr),
               msr |-> cpu.msr]
  BY OnTop DEF Registers
<1>2. cpu \in Cpu /\ Begin \in Cpu /\ Begin.branched = FALSE /\ Registers(Begin) = Alone
  BY OnTop DEF Begin, Cpu
<1>3. CASE Plain
  BY <1>2, <1>3, PlainKeeps DEF Plain
<1>4. ASSUME x \in Addresses, Mtlr(x) PROVE Inv'
  <2> DEFINE c == [Begin EXCEPT !.lr = x]
             a == [Alone EXCEPT !.lr = x]
  <2>1. c \in Cpu /\ c.branched = FALSE
    BY <1>2, <1>4 DEF Cpu
  <2>2. Registers(c) = a
    BY <1>1, <1>2 DEF Registers, Begin, Cpu
  <2>3. Runs(c, On(a))
    BY <1>4 DEF Mtlr, Program
  <2> HIDE DEF c, a
  <2> QED
    BY <2>1, <2>2, <2>3, PlainKeeps
<1>5. ASSUME x \in Addresses, Mtctr(x) PROVE Inv'
  <2> DEFINE c == [Begin EXCEPT !.ctr = x]
             a == [Alone EXCEPT !.ctr = x]
  <2>1. c \in Cpu /\ c.branched = FALSE
    BY <1>2, <1>5 DEF Cpu
  <2>2. Registers(c) = a
    BY <1>1, <1>2 DEF Registers, Begin, Cpu
  <2>3. Runs(c, On(a))
    BY <1>5 DEF Mtctr, Program
  <2> HIDE DEF c, a
  <2> QED
    BY <2>1, <2>2, <2>3, PlainKeeps
<1>6. ASSUME x \in SUBSET MsrBits, Mtmsr(x) PROVE Inv'
  <2> DEFINE c == [Begin EXCEPT !.msr = x]
             a == [Alone EXCEPT !.msr = x]
  <2>1. c \in Cpu /\ c.branched = FALSE
    BY <1>2, <1>6 DEF Cpu
  <2>2. Registers(c) = a
    BY <1>1, <1>2 DEF Registers, Begin, Cpu
  <2>3. Runs(c, On(a))
    BY <1>6 DEF Mtmsr
  <2> HIDE DEF c, a
  <2> QED
    BY <2>1, <2>2, <2>3, PlainKeeps
<1> QED
  BY <1>3, <1>4, <1>5, <1>6

\* The program goes elsewhere by rfi.
LEMMA LeaveKeeps ==
  ASSUME Inv, NEW x \in Addresses, NEW m \in SUBSET MsrBits, Leave(x, m)
  PROVE  Inv'
<1> DEFINE c == [Return EXCEPT !.pc = x, !.msr = m, !.srr0 = x, !.srr1 = m]
           a == [Alone EXCEPT !.pc = x, !.msr = m]
<1>1. Alone = [pc |-> cpu.pc, lr |-> cpu.lr, ctr |-> cpu.ctr, cr |-> AsBits(cpu.cr),
               msr |-> cpu.msr]
  BY OnTop DEF Registers
<1>2. cpu \in Cpu
  BY OnTop
<1>3. c \in Cpu /\ c.branched = TRUE
  BY <1>2 DEF Return, Begin, Cpu
<1>4. Registers(c) = a
  <2>1. a = [pc |-> x, lr |-> cpu.lr, ctr |-> cpu.ctr, cr |-> AsBits(cpu.cr), msr |-> m]
    <3>1. a = [Alone EXCEPT !.pc = x, !.msr = m]
      OBVIOUS
    <3> HIDE DEF a
    <3> QED
      BY <1>1, <3>1
  <2>2. c.pc = x /\ c.lr = cpu.lr /\ c.ctr = cpu.ctr /\ c.cr = cpu.cr /\ c.msr = m
    BY <1>2 DEF Return, Begin, Cpu
  <2> HIDE DEF c, a
  <2> QED
    BY <2>1, <2>2 DEF Registers
<1>5. Runs(c, a)
  BY DEF Leave, Program
<1> HIDE DEF c, a
<1>6. Registers(Advanced(c)) = a
  BY <1>3, <1>4, AfterBranch
<1> QED
  BY <1>3, <1>5, <1>6, RunsKeep

\* sc: the handler returns to the instruction after it.
LEMMA ScKeeps ==
  ASSUME Inv, Sc
  PROVE  Inv'
<1> DEFINE g == Fire(Begin, "syscall")
           next == (cpu.pc + Unit) % Top
           f == [g EXCEPT !.srr0 = next]
           a == On(Alone)
<1>1. Alone = [pc |-> cpu.pc, lr |-> cpu.lr, ctr |-> cpu.ctr, cr |-> AsBits(cpu.cr),
               msr |-> cpu.msr]
  BY OnTop DEF Registers
<1>2. "syscall" \in Causes /\ Begin \in Cpu /\ Registers(Begin) = Alone /\ cpu.pc \in Int
  BY OnTop DEF Causes, Cpu, Addresses
<1>3. /\ g \in Cpu /\ g.branched = TRUE /\ "EE" \notin g.msr
      /\ Registers(g) = Entry(Alone, "syscall") /\ Interrupted(g) = Alone
  BY <1>2, FireEnters
<1>4. next \in Addresses
  <2>1. cpu.pc + Unit \in Int
    BY <1>2, ProgramAssumption
  <2> QED
    BY <2>1, Wraps
<1>5. a \in Contexts
  BY OnTop, OnType
<1>6. a = [Alone EXCEPT !.pc = next]
  BY <1>1 DEF On
<1>7. Enter(f, a, "syscall")
  BY DEF Sc
<1> HIDE DEF g, next, a
<1>8. f \in Cpu /\ f.branched = TRUE /\ "EE" \notin f.msr
  BY <1>3, <1>4 DEF Cpu
<1>9. Registers(f) = Registers(g)
  BY <1>3 DEF Registers, Cpu
<1>10. Entry(a, "syscall") = Entry(Alone, "syscall")
  BY <1>1, <1>6 DEF Entry
<1>11. Interrupted(f) = a
  <2>1. Interrupted(f) = [Registers(g) EXCEPT !.pc = next, !.msr = g.srr1]
    BY <1>3, <1>9 DEF Interrupted, Cpu
  <2>2. Interrupted(g) = [Registers(g) EXCEPT !.pc = g.srr0, !.msr = g.srr1]
    BY DEF Interrupted
  <2> DEFINE r == Registers(g)
  <2>3. r = [pc |-> g.pc, lr |-> g.lr, ctr |-> g.ctr, cr |-> AsBits(g.cr), msr |-> g.msr]
    BY DEF Registers
  <2> HIDE DEF r
  <2>4. [r EXCEPT !.pc = next, !.msr = g.srr1]
          = [[r EXCEPT !.pc = g.srr0, !.msr = g.srr1] EXCEPT !.pc = next]
    BY <2>3
  <2> QED
    BY <1>3, <1>6, <2>1, <2>2, <2>4 DEF r
<1> HIDE DEF f
<1> QED
  BY <1>2, <1>3, <1>5, <1>7, <1>8, <1>9, <1>10, <1>11, EnterKeeps

\* An instruction that cannot be done: the handler returns to it.
LEMMA FaultKeeps ==
  ASSUME Inv, NEW cause \in Causes, Fault(cause)
  PROVE  Inv'
<1> DEFINE f == Fire(Begin, cause)
<1>1. Begin \in Cpu /\ Registers(Begin) = Alone /\ Alone \in Contexts
  BY OnTop
<1>2. /\ f \in Cpu /\ f.branched = TRUE /\ "EE" \notin f.msr
      /\ Registers(f) = Entry(Alone, cause) /\ Interrupted(f) = Alone
  BY <1>1, FireEnters
<1>3. Enter(f, Alone, cause)
  BY DEF Fault
<1> HIDE DEF f
<1> QED
  BY <1>1, <1>2, <1>3, EnterKeeps

\* A fetch that fails: the handler returns to the fetch.
LEMMA FetchFaultKeeps ==
  ASSUME Inv, FetchFault
  PROVE  Inv'
<1>1. Len(alone) - 1 = Len(saved)
  BY DEF Inv, Level, FetchFault, AtEdge, Depth
<1>2. "isi" \in Causes
  BY DEF Causes
<1>3. Level(Append(alone, Entry(alone[Len(alone)], "isi")), saved, Fire(cpu, "isi"))
  BY <1>1, <1>2, InterruptKeeps DEF Inv
<1> QED
  BY <1>3 DEF FetchFault, Inv, Alone

\* The handler that ends gives way to the code it interrupted.
LEMMA RfiKeeps ==
  ASSUME Inv, Rfi
  PROVE  Inv'
<1>1. /\ alone \in Seq(Contexts) /\ saved \in Seq(Contexts) /\ Len(alone) >= 1
      /\ Len(alone) - 1 - Len(saved) \in {0, 1} /\ Len(alone) \in Nat /\ Len(saved) \in Nat
      /\ \A i \in 1 .. Len(saved) : saved[i] = alone[i]
      /\ Len(alone) - 1 > Len(saved) => Interrupted(cpu) = alone[Len(alone) - 1]
  BY DEF Inv, Level
<1>2. Len(alone) - 2 = Len(saved) /\ Interrupted(cpu) = alone[Len(alone) - 1]
  BY <1>1 DEF Rfi, AtEdge, Depth
<1>3. /\ Below \in Seq(Contexts) /\ Len(Below) = Len(alone) - 1
      /\ \A i \in 1 .. Len(alone) - 1 : Below[i] = alone[i]
  BY <1>1, BelowStack DEF Below
<1>4. Return \in Cpu /\ Return.branched = TRUE
  BY OnTop DEF Return, Begin, Cpu
<1>5. Advanced(Return) = Return
  BY <1>4 DEF Advanced
<1>6. Registers(Return) = Interrupted(cpu)
  <2>1. Interrupted(cpu) = [pc |-> cpu.srr0, lr |-> cpu.lr, ctr |-> cpu.ctr,
                            cr |-> AsBits(cpu.cr), msr |-> cpu.srr1]
    BY InterruptedAt
  <2>2. /\ Return.pc = cpu.srr0 /\ Return.lr = cpu.lr /\ Return.ctr = cpu.ctr
        /\ Return.cr = cpu.cr /\ Return.msr = cpu.srr1
    BY OnTop DEF Return, Begin, Cpu
  <2> QED
    BY <2>1, <2>2 DEF Registers
<1>7. Len(Below) >= 1 /\ Below[Len(Below)] = alone[Len(alone) - 1]
  BY <1>1, <1>2, <1>3
<1>8. \A i \in 1 .. Len(saved) : saved[i] = Below[i]
  BY <1>1, <1>2, <1>3
<1>9. Level(Below, saved, Return)
  BY <1>1, <1>2, <1>3, <1>4, <1>6, <1>7, <1>8 DEF Level
<1> QED
  BY <1>2, <1>3, <1>5, <1>9, EndKeeps DEF Rfi

\* Once a handler has put away SRR0, SRR1 and what it uses, the context below it
\* is in memory.
LEMMA SaveKeeps ==
  ASSUME Inv, NEW x \in Scratch, Save(x)
  PROVE  Inv'
<1> DEFINE top == [Alone EXCEPT !.lr = x.lr, !.ctr = x.ctr, !.cr = AsBits(x.cr)]
           was == [pc |-> cpu.srr0, msr |-> cpu.srr1, lr |-> cpu.lr, ctr |-> cpu.ctr,
                   cr |-> AsBits(cpu.cr)]
<1>1. /\ alone \in Seq(Contexts) /\ saved \in Seq(Contexts) /\ Len(alone) >= 1
      /\ Len(alone) - 1 - Len(saved) \in {0, 1} /\ Len(alone) \in Nat /\ Len(saved) \in Nat
      /\ \A i \in 1 .. Len(saved) : saved[i] = alone[i]
      /\ Len(alone) - 1 > Len(saved) => Interrupted(cpu) = alone[Len(alone) - 1]
  BY DEF Inv, Level
<1>2. Len(alone) - 2 = Len(saved) /\ Interrupted(cpu) = alone[Len(alone) - 1]
  BY <1>1 DEF Save, AtEdge, Depth
<1>3. /\ Below \in Seq(Contexts) /\ Len(Below) = Len(alone) - 1
      /\ \A i \in 1 .. Len(alone) - 1 : Below[i] = alone[i]
  BY <1>1, BelowStack DEF Below
<1>4. /\ cpu' = [cpu EXCEPT !.lr = x.lr, !.ctr = x.ctr, !.cr = x.cr]
      /\ saved' = Append(saved, was) /\ alone' = Append(Below, top)
  BY DEF Save
<1>5. x.lr \in Addresses /\ x.ctr \in Addresses /\ x.cr \in 0 .. CrTop - 1
  BY ControlFlowAssumption
<1>6. cpu' \in Cpu
  BY <1>4, <1>5, OnTop DEF Cpu
<1>7. Registers(cpu') = top
  <2>1. Alone = [pc |-> cpu.pc, lr |-> cpu.lr, ctr |-> cpu.ctr, cr |-> AsBits(cpu.cr),
                 msr |-> cpu.msr]
    BY OnTop DEF Registers
  <2>2. top = [pc |-> cpu.pc, lr |-> x.lr, ctr |-> x.ctr, cr |-> AsBits(x.cr),
               msr |-> cpu.msr]
    <3>1. top = [Alone EXCEPT !.lr = x.lr, !.ctr = x.ctr, !.cr = AsBits(x.cr)]
      OBVIOUS
    <3> HIDE DEF top
    <3> QED
      BY <2>1, <3>1
  <2>3. /\ cpu'.pc = cpu.pc /\ cpu'.lr = x.lr /\ cpu'.ctr = x.ctr /\ cpu'.cr = x.cr
        /\ cpu'.msr = cpu.msr
    BY <1>4, OnTop DEF Cpu
  <2> HIDE DEF top
  <2> QED
    BY <2>2, <2>3 DEF Registers
<1>8. was = Interrupted(cpu)
  <2>1. Interrupted(cpu) = [pc |-> cpu.srr0, lr |-> cpu.lr, ctr |-> cpu.ctr,
                            cr |-> AsBits(cpu.cr), msr |-> cpu.srr1]
    BY InterruptedAt
  <2> QED
    BY <2>1
<1>9. was \in Contexts /\ top \in Contexts
  <2>1. alone[Len(alone) - 1] \in Contexts
    BY <1>1, <1>2
  <2>2. top \in Contexts
    <3> HIDE DEF top
    <3> QED
      BY <1>6, <1>7, RegistersType
  <2> HIDE DEF was, top
  <2> QED
    BY <1>2, <1>8, <2>1, <2>2
<1> HIDE DEF was, top
<1>10. /\ alone' \in Seq(Contexts) /\ Len(alone') = Len(alone) /\ alone'[Len(alone)] = top
       /\ \A i \in 1 .. Len(alone) - 1 : alone'[i] = alone[i]
  <2>1. /\ alone' \in Seq(Contexts) /\ Len(alone') = Len(Below) + 1
        /\ alone'[Len(Below) + 1] = top
        /\ \A i \in 1 .. Len(Below) : alone'[i] = Below[i]
    BY <1>3, <1>4, <1>9, Pushed
  <2> QED
    <3>1. Len(Below) + 1 = Len(alone) /\ Len(Below) = Len(alone) - 1
      BY <1>1, <1>3
    <3>2. \A i \in 1 .. Len(alone) - 1 : alone'[i] = Below[i] /\ Below[i] = alone[i]
      BY <1>3, <2>1, <3>1
    <3>3. Len(alone') = Len(alone) /\ alone'[Len(alone)] = top
      BY <2>1, <3>1
    <3> QED
      BY <2>1, <3>2, <3>3
<1>11. /\ saved' \in Seq(Contexts) /\ Len(saved') = Len(saved) + 1
       /\ saved'[Len(saved) + 1] = was
       /\ \A i \in 1 .. Len(saved) : saved'[i] = saved[i]
  BY <1>1, <1>4, <1>9, Pushed
<1>12. ASSUME NEW i \in 1 .. Len(saved') PROVE saved'[i] = alone'[i]
  <2>1. CASE i = Len(saved) + 1
    <3>1. saved'[i] = was
      BY <1>11, <2>1
    <3>2. i = Len(alone) - 1 /\ i \in 1 .. Len(alone) - 1
      BY <1>1, <1>2, <1>11, <2>1
    <3>3. alone'[i] = alone[i] /\ was = alone[i]
      BY <1>1, <1>2, <1>8, <1>10, <3>2
    <3> QED
      BY <3>1, <3>3
  <2>2. CASE i \in 1 .. Len(saved)
    <3>1. i \in 1 .. Len(alone) - 1
      BY <1>1, <1>2, <2>2
    <3>2. saved'[i] = saved[i] /\ saved[i] = alone[i]
      BY <1>1, <1>11, <2>2
    <3>3. alone'[i] = alone[i]
      BY <1>10, <3>1
    <3> QED
      BY <3>2, <3>3
  <2> QED
    BY <1>1, <1>11, <2>1, <2>2
<1>13. Level(alone', saved', cpu')
  BY <1>1, <1>2, <1>6, <1>7, <1>10, <1>11, <1>12 DEF Level
<1> QED
  BY <1>13 DEF Inv

\* A handler that puts back what it saved is at its edge again.
LEMMA RestoreKeeps ==
  ASSUME Inv, Restore
  PROVE  Inv'
<1> DEFINE was == saved[Len(saved)]
           top == [Alone EXCEPT !.lr = was.lr, !.ctr = was.ctr, !.cr = was.cr]
           n == Number(was.cr)
<1>1. /\ alone \in Seq(Contexts) /\ saved \in Seq(Contexts) /\ Len(alone) >= 1
      /\ Len(alone) - 1 - Len(saved) \in {0, 1} /\ Len(alone) \in Nat /\ Len(saved) \in Nat
      /\ \A i \in 1 .. Len(saved) : saved[i] = alone[i]
  BY DEF Inv, Level
<1>2. Len(alone) - 1 = Len(saved) /\ Len(saved) >= 1
  BY <1>1 DEF Restore, AtEdge, Depth
<1>3. /\ Below \in Seq(Contexts) /\ Len(Below) = Len(alone) - 1
      /\ \A i \in 1 .. Len(alone) - 1 : Below[i] = alone[i]
  BY <1>1, BelowStack DEF Below
<1>4. was \in Contexts /\ was = alone[Len(alone) - 1]
  BY <1>1, <1>2
<1>5. /\ cpu' = [cpu EXCEPT !.srr0 = was.pc, !.srr1 = was.msr, !.lr = was.lr,
                            !.ctr = was.ctr, !.cr = n]
      /\ alone' = Append(Below, top) /\ saved' = SubSeq(saved, 1, Len(saved) - 1)
  BY DEF Restore
<1> HIDE DEF was
<1>6. n \in 0 .. CrTop - 1 /\ AsBits(n) = was.cr
  <2>1. was.cr \in SUBSET CrBits
    BY <1>4 DEF Contexts
  <2> QED
    BY <2>1, NumberBits
<1> HIDE DEF n
<1>7. cpu' \in Cpu
  BY <1>4, <1>5, <1>6, OnTop DEF Cpu, Contexts
<1>8. /\ cpu'.pc = cpu.pc /\ cpu'.lr = was.lr /\ cpu'.ctr = was.ctr /\ cpu'.cr = n
      /\ cpu'.msr = cpu.msr /\ cpu'.srr0 = was.pc /\ cpu'.srr1 = was.msr
  BY <1>5, OnTop DEF Cpu
<1>9. Registers(cpu') = top
  <2>1. Alone = [pc |-> cpu.pc, lr |-> cpu.lr, ctr |-> cpu.ctr, cr |-> AsBits(cpu.cr),
                 msr |-> cpu.msr]
    BY OnTop DEF Registers
  <2>2. top = [pc |-> cpu.pc, lr |-> was.lr, ctr |-> was.ctr, cr |-> was.cr, msr |-> cpu.msr]
    <3>1. top = [Alone EXCEPT !.lr = was.lr, !.ctr = was.ctr, !.cr = was.cr]
      OBVIOUS
    <3> HIDE DEF top
    <3> QED
      BY <2>1, <3>1
  <2> HIDE DEF top
  <2> QED
    BY <1>6, <1>8, <2>2 DEF Registers
<1> HIDE DEF top
<1>10. Interrupted(cpu') = was
  <2>1. was = [pc |-> was.pc, lr |-> was.lr, ctr |-> was.ctr, cr |-> was.cr, msr |-> was.msr]
    BY <1>4 DEF Contexts
  <2>2. Interrupted(cpu')
          = [pc |-> was.pc, lr |-> was.lr, ctr |-> was.ctr, cr |-> was.cr, msr |-> was.msr]
    BY <1>6, <1>8, InterruptedAt
  <2> QED
    BY <2>1, <2>2
<1>11. top \in Contexts
  BY <1>7, <1>9, RegistersType
<1>12. /\ alone' \in Seq(Contexts) /\ Len(alone') = Len(alone) /\ alone'[Len(alone)] = top
       /\ \A i \in 1 .. Len(alone) - 1 : alone'[i] = alone[i]
  <2>1. /\ alone' \in Seq(Contexts) /\ Len(alone') = Len(Below) + 1
        /\ alone'[Len(Below) + 1] = top
        /\ \A i \in 1 .. Len(Below) : alone'[i] = Below[i]
    BY <1>3, <1>5, <1>11, Pushed
  <2> QED
    BY <1>1, <1>3, <2>1
<1>13. /\ saved' \in Seq(Contexts) /\ Len(saved') = Len(saved) - 1
       /\ \A i \in 1 .. Len(saved) - 1 : saved'[i] = saved[i]
  BY <1>1, <1>2, <1>5, BelowStack
<1>14. \A i \in 1 .. Len(saved') : saved'[i] = alone'[i]
  BY <1>1, <1>2, <1>12, <1>13
<1>15. alone'[Len(alone') - 1] = was
  BY <1>1, <1>2, <1>4, <1>12
<1>16. Level(alone', saved', cpu')
  BY <1>1, <1>2, <1>7, <1>9, <1>10, <1>12, <1>13, <1>14, <1>15 DEF Level
<1> QED
  BY <1>16 DEF Inv

-----------------------------------------------------------------------------
(* The theorems *)

\* The invariant holds after a reset.
LEMMA Initially ==
  Init => Inv
<1> SUFFICES ASSUME Init PROVE Inv
  OBVIOUS
<1> DEFINE z == [pc |-> 0, lr |-> 0, ctr |-> 0, cr |-> 0, msr |-> {"IP"}, srr0 |-> 0,
                 srr1 |-> {}, branched |-> FALSE]
<1>1. 0 \in Addresses
  BY ProgramAssumption DEF Addresses
<1>2. 0 \in 0 .. CrTop - 1
  <2>1. Width \in 0 .. Width /\ CrTop = Weight[Width]
    BY Widths DEF CrTop, Width
  <2>2. CrTop \in Nat /\ CrTop >= 1
    BY <2>1, WeightNat
  <2> QED
    BY <2>2
<1>3. z \in Cpu
  BY <1>1, <1>2 DEF Cpu, MsrBits
<1>4. "reset" \in Causes /\ Reset = Fire(z, "reset")
  BY DEF Causes, Reset
<1> HIDE DEF z
<1>5. Reset \in Cpu
  BY <1>3, <1>4, FireEnters
<1>6. Registers(Reset) \in Contexts
  BY <1>5, RegistersType
<1>7. cpu = Reset /\ saved = <<>> /\ alone = <<Registers(Reset)>>
  BY DEF Init
<1> QED
  BY <1>5, <1>6, <1>7 DEF Inv, Level

\* Every instruction keeps the invariant.
LEMMA InstructionKeeps ==
  ASSUME Inv, Instruction
  PROVE  Inv'
<1>1. ASSUME NEW lk \in BOOLEAN, NEW aa \in BOOLEAN, NEW x \in Offsets, B(x, aa, lk)
      PROVE  Inv'
  BY <1>1, BKeeps, ControlFlowAssumption
<1>2. ASSUME NEW lk \in BOOLEAN, NEW bo \in Bos, NEW bi \in Tested, NEW aa \in BOOLEAN,
             NEW x \in Offsets, Bc(bo, bi, x, aa, lk)
      PROVE  Inv'
  BY <1>2, BcKeeps, ControlFlowAssumption
<1>3. ASSUME NEW lk \in BOOLEAN, NEW bo \in Bos, NEW bi \in Tested,
             Bclr(bo, bi, lk) \/ Bcctr(bo, bi, lk)
      PROVE  Inv'
  BY <1>3, RegisterBranchKeeps
<1>4. ASSUME NEW op \in CrOps, NEW x \in CrArgs, CrLogic(op, x[1], x[2], x[3])
      PROVE  Inv'
  <2>1. x[1] \in CrBits /\ x[2] \in CrBits /\ x[3] \in CrBits
    BY ControlFlowAssumption
  <2> QED
    BY <1>4, <2>1, CrLogicKeeps
<1>5. ASSUME NEW f \in 0 .. Fields - 1, NEW x \in 0 .. Weight[FieldWidth] - 1, Cmp(f, x)
      PROVE  Inv'
  BY <1>5, CmpKeeps
<1>6. ASSUME NEW f \in 0 .. Fields - 1, NEW s \in 0 .. Fields - 1, Mcrf(f, s)
      PROVE  Inv'
  BY <1>6, McrfKeeps
<1>7. ASSUME NEW crm \in SUBSET (0 .. Fields - 1), NEW x \in Words, Mtcrf(crm, x)
      PROVE  Inv'
  BY <1>7, MtcrfKeeps
<1>8. ASSUME NEW x \in Values, Mtlr(x) \/ Mtctr(x)
      PROVE  Inv'
  BY <1>8, MoveKeeps, ControlFlowAssumption
<1>9. ASSUME NEW x \in MsrsHere, Mtmsr(x)
      PROVE  Inv'
  <2>1. Alone.msr \in SUBSET MsrBits
    BY OnTop DEF Contexts
  <2>2. x \in SUBSET MsrBits
    BY <2>1, ControlFlowAssumption DEF MsrsHere, MsrBits
  <2> QED
    BY <1>9, <2>2, MoveKeeps
<1>10. ASSUME NEW x \in Targets, NEW m \in Msrs, Leave(x, m)
       PROVE  Inv'
  BY <1>10, LeaveKeeps, ControlFlowAssumption
<1>11. CASE Plain
  BY <1>11, MoveKeeps
<1>12. CASE Sc
  BY <1>12, ScKeeps
<1>13. ASSUME NEW cause \in {"program", "dsi"}, Fault(cause)
       PROVE  Inv'
  <2>1. cause \in Causes
    BY DEF Causes
  <2> QED
    BY <1>13, <2>1, FaultKeeps
<1> QED
  BY <1>1, <1>2, <1>3, <1>4, <1>5, <1>6, <1>7, <1>8, <1>9, <1>10, <1>11, <1>12, <1>13
     DEF Instruction

\* Every step keeps the invariant.
LEMMA StepKeeps ==
  Inv /\ [Next]_vars => Inv'
<1> SUFFICES ASSUME Inv, [Next]_vars PROVE Inv'
  OBVIOUS
<1>1. CASE Instruction
  BY <1>1, InstructionKeeps
<1>2. CASE FetchFault
  BY <1>2, FetchFaultKeeps
<1>3. CASE Rfi
  BY <1>3, RfiKeeps
<1>4. ASSUME NEW x \in Scratch, Save(x) PROVE Inv'
  BY <1>4, SaveKeeps
<1>5. CASE Restore
  BY <1>5, RestoreKeeps
<1>6. CASE UNCHANGED vars
  BY <1>6 DEF vars, Inv, Level, Registers, Interrupted
<1> QED
  BY <1>1, <1>2, <1>3, <1>4, <1>5, <1>6 DEF Next

\* The invariant holds whatever the program, its handlers and the interrupts.
THEOREM InvHolds == Spec => []Inv
<1> QED
  BY Initially, StepKeeps, PTL DEF Spec

\* The registers, the contexts that handlers saved and those of the code alone
\* have their types, for every width of CR and of an address.
THEOREM TypeCorrect == Spec => []TypeOK
<1>1. Inv => TypeOK
  BY DEF Inv, Level, TypeOK
<1> QED
  BY <1>1, InvHolds, PTL

\* The code that runs, and all code that waits below it, is where it would be if
\* it were alone: for every depth of handlers, every program made of these
\* instructions and every moment of an interrupt (decode.c 508-778, branch.c,
\* cond.c, exception.h 34-66).
THEOREM CodeRunsAsAlone == Spec => []RunsAsAlone
<1>1. Inv => RunsAsAlone
  <2> SUFFICES ASSUME Inv PROVE RunsAsAlone
    OBVIOUS
  <2>1. /\ Len(alone) \in Nat /\ Len(saved) \in Nat /\ Len(alone) - 1 - Len(saved) \in {0, 1}
        /\ \A i \in 1 .. Len(saved) : saved[i] = alone[i]
        /\ Len(alone) - 1 > Len(saved) => Interrupted(cpu) = alone[Len(alone) - 1]
    BY DEF Inv, Level
  <2>2. ASSUME NEW i \in 1 .. Depth PROVE Kept(i) = alone[i]
    <3>1. CASE i <= Len(saved)
      BY <2>1, <3>1 DEF Kept
    <3>2. CASE ~ (i <= Len(saved))
      <4>1. i = Len(alone) - 1 /\ Len(alone) - 1 > Len(saved)
        BY <2>1, <3>2 DEF Depth
      <4>2. Kept(i) = Interrupted(cpu)
        BY <3>2 DEF Kept, Interrupted
      <4> QED
        BY <2>1, <4>1, <4>2
    <3> QED
      BY <3>1, <3>2
  <2> QED
    BY <2>2, OnTop DEF RunsAsAlone
<1> QED
  BY <1>1, InvHolds, PTL
=============================================================================
