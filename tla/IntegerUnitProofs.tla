-------------------------- MODULE IntegerUnitProofs --------------------------
(***************************************************************************)
(* The integer unit for words of any width: what a program may trust       *)
(* of XER and of the recorded field, that the registers always hold words, *)
(* and that sums, products, quotients, shifts, rotates and the sequences   *)
(* compilers build from them compute what they should.                     *)
(*                                                                         *)
(* A word is related to its bits by quotients of powers of two, in Power;  *)
(* the first part is the arithmetic of natural numbers this needs.         *)
(***************************************************************************)
EXTENDS IntegerUnit, WellFoundedInduction, TLAPS

-----------------------------------------------------------------------------
(* Induction, quotients and remainders *)

\* A set of natural numbers has a least element: they are well founded.
LEMMA LeastNatural ==
  ASSUME NEW S \in SUBSET Nat, S # {}
  PROVE  \E x \in S : \A y \in S : x <= y
<1> DEFINE R == {p \in Nat \X Nat : p[1] < p[2]}
<1>1. IsWellFoundedOn(R, Nat)
  BY NatLessThanWellFounded DEF OpToRel
<1>2. PICK x \in S : \A y \in S : ~ (<<y, x>> \in R)
  <2> HIDE DEF R
  <2> QED
    BY <1>1, WFMin
<1>3. \A y \in S : y \in Nat
  OBVIOUS
<1>4. \A y \in S : ~ (y < x)
  BY <1>2, <1>3
<1> QED
  BY <1>3, <1>4

\* Induction, over the set of the numbers that have the property.
LEMMA SetInduction ==
  ASSUME NEW S, 0 \in S, \A n \in Nat : n \in S => n + 1 \in S
  PROVE  \A n \in Nat : n \in S
<1> SUFFICES ASSUME Nat \ S # {} PROVE FALSE
  OBVIOUS
<1>1. PICK x \in Nat \ S : \A y \in Nat \ S : x <= y
  BY LeastNatural
<1>2. x # 0 /\ x - 1 \in Nat
  BY <1>1
<1>3. x - 1 \notin S
  BY <1>2
<1> QED
  BY <1>1, <1>2, <1>3

\* A step from one value to the next gives a sequence of values.
Iterates(n, T, base, G) ==
  \E f \in [0 .. n -> T] : f[0] = base /\ \A k \in 1 .. n : f[k] = G[f[k - 1]][k]

\* There is such a sequence, so a recursive function of a number has its values.
LEMMA Iterated ==
  ASSUME NEW n \in Nat, NEW T, NEW base \in T, NEW G \in [T -> [1 .. n -> T]]
  PROVE  Iterates(n, T, base, G)
<1> DEFINE Good(m, f) == /\ f \in [0 .. m -> T] /\ f[0] = base
                         /\ \A k \in 1 .. m : f[k] = G[f[k - 1]][k]
           S == {m \in Nat : m <= n => \E f : Good(m, f)}
<1>0. \A m \in Nat : m \in S <=> (m <= n => \E f : Good(m, f))
  <2> HIDE DEF Good
  <2> QED
    OBVIOUS
<1> HIDE DEF S
<1>1. 0 \in S
  <2>1. Good(0, [k \in 0 .. 0 |-> base])
    OBVIOUS
  <2> QED
    BY <1>0, <2>1
<1>2. ASSUME NEW m \in Nat, m \in S
      PROVE  m + 1 \in S
  <2> SUFFICES ASSUME m + 1 <= n PROVE \E f : Good(m + 1, f)
    <3> HIDE DEF Good
    <3> QED
      BY <1>0
  <2>1. PICK f : Good(m, f)
    <3> HIDE DEF Good
    <3> QED
      BY <1>0, <1>2
  <2> DEFINE g == [k \in 0 .. m + 1 |-> IF k = m + 1 THEN G[f[m]][m + 1] ELSE f[k]]
  <2>2. g \in [0 .. m + 1 -> T]
    <3>1. f[m] \in T /\ m + 1 \in 1 .. n
      BY <2>1
    <3>2. G[f[m]][m + 1] \in T
      BY <3>1
    <3>3. \A k \in 0 .. m + 1 : k # m + 1 => f[k] \in T
      BY <2>1
    <3> QED
      BY <3>2, <3>3
  <2>3. g[0] = base
    BY <2>1
  <2>4. ASSUME NEW k \in 1 .. m + 1 PROVE g[k] = G[g[k - 1]][k]
    <3>1. g[k - 1] = f[k - 1]
      OBVIOUS
    <3>2. CASE k = m + 1
      <4>1. g[k] = G[f[m]][m + 1] /\ k - 1 = m
        BY <3>2
      <4> QED
        BY <3>1, <3>2, <4>1
    <3>3. CASE k # m + 1
      <4>1. k \in 1 .. m /\ g[k] = f[k]
        BY <3>3
      <4> QED
        BY <3>1, <4>1, <2>1
    <3> QED
      BY <3>2, <3>3
  <2>5. Good(m + 1, g)
    BY <2>2, <2>3, <2>4
  <2> HIDE DEF Good
  <2> QED
    BY <2>5
<1>3. n \in S
  BY <1>1, <1>2, SetInduction
<1>4. \E f : Good(n, f)
  <2> HIDE DEF Good
  <2> QED
    BY <1>0, <1>3
<1> QED
  BY <1>4 DEF Iterates

\* Quotient and remainder are unique.
LEMMA Quotients ==
  ASSUME NEW n \in Nat, n > 0, NEW p \in Int, NEW q \in Int, NEW r \in 0 .. n - 1,
         NEW s \in 0 .. n - 1, p * n + r = q * n + s
  PROVE  p = q /\ r = s
<1>1. (p - q) * n = s - r
  OBVIOUS
<1> DEFINE d == p - q
<1>2. d \in Int /\ d * n = s - r
  BY <1>1
<1> HIDE DEF d
<1>3. CASE d >= 1
  <2>1. d * n >= 1 * n
    BY <1>2, <1>3
  <2> QED
    BY <1>2, <2>1
<1>4. CASE d <= -1
  <2>1. d * n <= (-1) * n
    BY <1>2, <1>4
  <2> QED
    BY <1>2, <2>1
<1>5. CASE d = 0
  <2>1. s - r = 0
    BY <1>2, <1>5
  <2> QED
    BY <1>5, <2>1 DEF d
<1> QED
  BY <1>2, <1>3, <1>4, <1>5

\* Every number has a quotient and a remainder.
LEMMA Remainders ==
  ASSUME NEW n \in Nat, n > 0, NEW x \in Int
  PROVE  /\ x \div n \in Int /\ x % n \in 0 .. n - 1
         /\ x = (x \div n) * n + (x % n)
OBVIOUS

\* A number written as quotient and remainder has that quotient and remainder.
LEMMA Remainder ==
  ASSUME NEW n \in Nat, n > 0, NEW q \in Int, NEW r \in 0 .. n - 1
  PROVE  (q * n + r) % n = r /\ (q * n + r) \div n = q
<1> DEFINE x == q * n + r
<1>1. x \in Int
  OBVIOUS
<1> HIDE DEF x
<1>2. x \div n \in Int /\ x % n \in 0 .. n - 1 /\ x = (x \div n) * n + (x % n)
  BY <1>1, Remainders
<1>3. (x \div n) * n + (x % n) = q * n + r
  BY <1>2 DEF x
<1>4. x \div n = q /\ x % n = r
  <2> DEFINE p == x \div n
             s == x % n
  <2>1. p \in Int /\ s \in 0 .. n - 1 /\ p * n + s = q * n + r
    BY <1>2, <1>3
  <2> HIDE DEF p, s
  <2>2. p = q /\ s = r
    BY <2>1, Quotients
  <2> QED
    BY <2>2 DEF p, s
<1> QED
  BY <1>4 DEF x

-----------------------------------------------------------------------------
(* Powers of two *)

\* The greatest exponent, and half of the words.
Most == 2 * Width
Half == Power[Width - 1]

\* The width, in the form the steps below use.
LEMMA Widths ==
  /\ Width \in Nat /\ Width >= 4 /\ Most \in Nat /\ Most = 2 * Width
  /\ Width - 1 \in Nat /\ Width \in 1 .. Most /\ Width - 1 \in 0 .. Most
BY IntegerAssumption DEF IntegerAssumption, Most

\* Each power is twice the one before.
LEMMA PowerStep ==
  /\ Power[0] = 1
  /\ \A b \in 1 .. Most : Power[b] = 2 * Power[b - 1]
<1> DEFINE Doubles(f) == f = [b \in 0 .. Most |-> IF b = 0 THEN 1 ELSE 2 * f[b - 1]]
           G == [a \in Nat |-> [k \in 1 .. Most |-> 2 * a]]
<1>1. \E f : Doubles(f)
  <2>1. G \in [Nat -> [1 .. Most -> Nat]]
    OBVIOUS
  <2>2. PICK f \in [0 .. Most -> Nat] : f[0] = 1 /\ \A k \in 1 .. Most : f[k] = G[f[k - 1]][k]
    <3> HIDE DEF G
    <3>1. Iterates(Most, Nat, 1, G)
      BY <2>1, Iterated, Widths
    <3> QED
      BY <3>1 DEF Iterates
  <2>3. ASSUME NEW k \in 1 .. Most PROVE f[k] = 2 * f[k - 1]
    <3>1. f[k - 1] \in Nat
      BY Widths
    <3> QED
      BY <2>2, <3>1
  <2>4. Doubles(f)
    BY <2>2, <2>3
  <2> QED
    BY <2>4
<1>2. Power = CHOOSE f : Doubles(f)
  BY DEF Power, Most
<1>3. Doubles(Power)
  <2> HIDE DEF Doubles
  <2> QED
    BY <1>1, <1>2
<1> QED
  BY <1>3, Widths

\* Powers are positive.
LEMMA PowerNat ==
  ASSUME NEW b \in 0 .. Most
  PROVE  Power[b] \in Nat /\ Power[b] >= 1
<1> DEFINE S == {n \in Nat : n <= Most => Power[n] \in Nat /\ Power[n] >= 1}
<1>1. 0 \in S
  BY PowerStep
<1>2. ASSUME NEW n \in Nat, n \in S PROVE n + 1 \in S
  <2> SUFFICES ASSUME n + 1 <= Most PROVE Power[n + 1] \in Nat /\ Power[n + 1] >= 1
    OBVIOUS
  <2>1. Power[n + 1] = 2 * Power[n]
    BY PowerStep, Widths
  <2> QED
    BY <1>2, <2>1, Widths
<1>3. \A n \in Nat : n \in S
  <2> HIDE DEF S
  <2> QED
    BY <1>1, <1>2, SetInduction
<1> QED
  BY <1>3, Widths

\* The power of a sum is the product of the powers.
LEMMA PowerSum ==
  ASSUME NEW a \in Nat, NEW b \in Nat, a + b <= Most
  PROVE  Power[a + b] = Power[a] * Power[b]
<1> DEFINE S == {n \in Nat : a + n <= Most => Power[a + n] = Power[a] * Power[n]}
<1>0. Power[a] \in Nat
  BY PowerNat, Widths
<1>1. 0 \in S
  BY <1>0, PowerStep
<1>2. ASSUME NEW n \in Nat, n \in S PROVE n + 1 \in S
  <2> SUFFICES ASSUME a + (n + 1) <= Most
               PROVE  Power[a + (n + 1)] = Power[a] * Power[n + 1]
    OBVIOUS
  <2>1. Power[a + n] = Power[a] * Power[n]
    BY <1>2, Widths
  <2>2. a + (n + 1) \in 1 .. Most /\ n + 1 \in 1 .. Most
        /\ a + (n + 1) - 1 = a + n /\ n + 1 - 1 = n
    BY Widths
  <2>3. Power[a + (n + 1)] = 2 * Power[a + n] /\ Power[n + 1] = 2 * Power[n]
    BY <2>2, PowerStep
  <2>4. Power[n] \in Nat
    BY <2>2, PowerNat, Widths
  <2> QED
    BY <1>0, <2>1, <2>3, <2>4
<1>3. b \in S
  <2> HIDE DEF S
  <2> QED
    BY <1>1, <1>2, SetInduction
<1> QED
  BY <1>3

\* Powers grow, and faster than the numbers.
LEMMA PowerGrows ==
  ASSUME NEW a \in Nat, NEW b \in Nat, a <= b, b <= Most
  PROVE  /\ Power[a] <= Power[b] /\ a < Power[a]
         /\ a < b => 2 * Power[a] <= Power[b]
<1>1. ASSUME NEW x \in Nat, NEW y \in Nat, x <= y, y <= Most
      PROVE  Power[x] <= Power[y]
  <2>1. y - x \in Nat /\ x + (y - x) = y /\ y - x \in 0 .. Most /\ x \in 0 .. Most
    BY <1>1, Widths
  <2>2. Power[y] = Power[x] * Power[y - x]
    BY <2>1, <1>1, PowerSum
  <2>3. Power[x] \in Nat /\ Power[y - x] \in Nat /\ Power[y - x] >= 1
    BY <2>1, PowerNat
  <2>4. Power[x] * Power[y - x] >= Power[x] * 1
    BY <2>3
  <2> QED
    BY <2>2, <2>3, <2>4
<1>2. a < Power[a]
  <2> DEFINE S == {n \in Nat : n <= Most => n < Power[n]}
  <2>1. 0 \in S
    BY PowerStep
  <2>2. ASSUME NEW n \in Nat, n \in S PROVE n + 1 \in S
    <3> SUFFICES ASSUME n + 1 <= Most PROVE n + 1 < Power[n + 1]
      OBVIOUS
    <3>1. n \in 0 .. Most /\ n + 1 \in 1 .. Most /\ n + 1 - 1 = n
      BY Widths
    <3>2. Power[n + 1] = 2 * Power[n] /\ Power[n] \in Nat /\ Power[n] >= 1 /\ n < Power[n]
      BY <2>2, <3>1, PowerStep, PowerNat, Widths
    <3> QED
      BY <3>2
  <2>3. a \in S
    <3> HIDE DEF S
    <3> QED
      BY <2>1, <2>2, SetInduction
  <2> QED
    BY <2>3, Widths
<1>3. ASSUME a < b PROVE 2 * Power[a] <= Power[b]
  <2>1. a + 1 \in 1 .. Most /\ a + 1 - 1 = a /\ a + 1 \in Nat
    BY <1>3, Widths
  <2>2. Power[a + 1] = 2 * Power[a]
    BY <2>1, PowerStep
  <2> QED
    BY <1>1, <1>3, <2>1, <2>2
<1> QED
  BY <1>1, <1>2, <1>3

\* A word is two halves, of eight numbers at least each.
LEMMA Halves ==
  /\ Half \in Nat /\ Half >= 8 /\ Modulus = 2 * Half /\ Ones = 2 * Half - 1
  /\ Modulus \in Nat /\ Modulus > 0
<1>1. Half \in Nat /\ Modulus = 2 * Half
  BY Widths, PowerStep, PowerNat DEF Half, Modulus
<1>2. Power[1] = 2 /\ Power[2] = 4 /\ Power[3] = 8
  BY Widths, PowerStep
<1>3. Power[3] <= Half
  BY Widths, PowerGrows DEF Half
<1> QED
  BY <1>1, <1>2, <1>3 DEF Ones

-----------------------------------------------------------------------------
(* What a program may trust of XER and of the recorded field *)

\* What a recorded field says, and what a step may do to SO and to field 0.
Recorded(c, so) ==
  /\ c \ {"so"} \in {{"lt"}, {"gt"}, {"eq"}}
  /\ ("so" \in c) = so

Honest(s, t) ==
  /\ s.xer.so => t.xer.so
  /\ t.cr0 # s.cr0 => Recorded(t.cr0, t.xer.so)

\* cpu is a record of three parts, with flags in the second.
Shaped(s) ==
  /\ s = [gpr |-> s.gpr, xer |-> s.xer, cr0 |-> s.cr0]
  /\ s.xer \in Flags

\* What an order records.
LEMMA OrderRecorded ==
  ASSUME NEW a, NEW b, NEW so \in BOOLEAN
  PROVE  Recorded({Order(a, b)} \cup (IF so THEN {"so"} ELSE {}), so)
BY DEF Order, Recorded

\* The overflow goes into SO and never takes it back.
LEMMA OverflowKeepsSummary ==
  ASSUME NEW x \in Flags, NEW oe \in BOOLEAN, NEW ov \in BOOLEAN
  PROVE  /\ set_xer_ov(x, oe, ov) \in Flags
         /\ x.so => set_xer_ov(x, oe, ov).so
BY DEF set_xer_ov, Flags

\* An instruction with a result is honest when its XER is.
LEMMA ResultHonest ==
  ASSUME NEW s, Shaped(s), NEW d, NEW r, NEW x \in Flags, s.xer.so => x.so,
         NEW rc \in BOOLEAN
  PROVE  Shaped(Result(s, d, r, x, rc)) /\ Honest(s, Result(s, d, r, x, rc))
<1> DEFINE t == Result(s, d, r, x, rc)
<1>1. /\ t = [gpr |-> t.gpr, xer |-> t.xer, cr0 |-> t.cr0]
      /\ t.xer = x /\ t.cr0 = IF rc THEN update_cr0(r, x.so) ELSE s.cr0
  BY DEF Result, Shaped
<1>2. Recorded(update_cr0(r, x.so), x.so)
  BY OrderRecorded DEF update_cr0, Flags
<1> QED
  BY <1>1, <1>2 DEF Shaped, Honest

\* The flags that the arithmetic instructions give are flags.
LEMMA SumFlags ==
  ASSUME NEW op, NEW a, NEW b, NEW ca \in BOOLEAN
  PROVE  Sum(op, a, b, ca).ca \in BOOLEAN /\ Sum(op, a, b, ca).ov \in BOOLEAN
<1> DEFINE c == IF op \in Carrying THEN Total(op, a, b, ca) >= Modulus ELSE ca
           y == IF op = "addme" /\ ca THEN 0 ELSE Second(op, b)
           v == add_overflow(First(op, a), y, Wrap(Total(op, a, b, ca)))
<1>1. c \in BOOLEAN
  <2>1. CASE op \in Carrying
    <3>1. c = (Total(op, a, b, ca) >= Modulus)
      BY <2>1
    <3>2. (Total(op, a, b, ca) >= Modulus) \in BOOLEAN
      OBVIOUS
    <3> HIDE DEF c
    <3> QED
      BY <3>1, <3>2
  <2>2. CASE op \notin Carrying
    BY <2>2
  <2> QED
    BY <2>1, <2>2
<1>2. v \in BOOLEAN
  BY DEF add_overflow
<1>3. Sum(op, a, b, ca) = [r |-> Wrap(Total(op, a, b, ca)), ca |-> c, ov |-> v]
  BY DEF Sum
<1> QED
  BY <1>1, <1>2, <1>3

\* The carry of a right shift is a flag.
LEMMA ArithmeticFlags ==
  ASSUME NEW a, NEW n
  PROVE  Arithmetic(a, n).ca \in BOOLEAN
<1>1. CASE Amount(n) >= Width
  <2>1. Arithmetic(a, n).ca = Negative(a)
    BY <1>1 DEF Arithmetic
  <2> QED
    BY <2>1 DEF Negative
<1>2. CASE ~ Amount(n) >= Width
  <2> DEFINE c == Negative(a) /\ Amount(n) # 0 /\ a % Power[Amount(n)] # 0
  <2>1. c \in BOOLEAN
    OBVIOUS
  <2>2. Arithmetic(a, n).ca = c
    BY <1>2 DEF Arithmetic
  <2> QED
    BY <2>1, <2>2
<1> QED
  BY <1>1, <1>2

\* The forms of instructions, one by one: the sums.
LEMMA AddHonest ==
  ASSUME NEW s, Shaped(s), NEW op, NEW t, NEW im, NEW oe \in BOOLEAN, NEW rc \in BOOLEAN
  PROVE  Shaped(AddForm(s, op, t, im, oe, rc)) /\ Honest(s, AddForm(s, op, t, im, oe, rc))
<1> DEFINE b == IF op \in WithImmediate THEN Simm(im) ELSE s.gpr[t[3]]
           o == Sum(op, s.gpr[t[2]], b, s.xer.ca)
           x == [s.xer EXCEPT !.ca = o.ca]
<1>1. o.ca \in BOOLEAN /\ o.ov \in BOOLEAN
  BY SumFlags DEF Shaped, Flags
<1> HIDE DEF o
<1>2. x \in Flags /\ x.so = s.xer.so
  BY <1>1 DEF Shaped, Flags
<1>3. AddForm(s, op, t, im, oe, rc) = Result(s, t[1], o.r, set_xer_ov(x, oe, o.ov), rc)
  BY DEF AddForm, o
<1> HIDE DEF x
<1>4. set_xer_ov(x, oe, o.ov) \in Flags /\ (x.so => set_xer_ov(x, oe, o.ov).so)
  BY <1>1, <1>2, OverflowKeepsSummary
<1> QED
  BY <1>2, <1>3, <1>4, ResultHonest

\* The quotients.
LEMMA DivideHonest ==
  ASSUME NEW s, Shaped(s), NEW op, NEW t, NEW oe \in BOOLEAN, NEW rc \in BOOLEAN
  PROVE  Shaped(DivideForm(s, op, t, oe, rc)) /\ Honest(s, DivideForm(s, op, t, oe, rc))
<1> DEFINE o == Quotient(op, s.gpr[t[2]], s.gpr[t[3]], s.gpr[t[1]])
<1>1. o.ov \in BOOLEAN
  BY DEF Quotient
<1>2. DivideForm(s, op, t, oe, rc) = Result(s, t[1], o.r, set_xer_ov(s.xer, oe, o.ov), rc)
  BY DEF DivideForm
<1> HIDE DEF o
<1> QED
  BY <1>1, <1>2, OverflowKeepsSummary, ResultHonest DEF Shaped

\* The products.
LEMMA MultiplyHonest ==
  ASSUME NEW s, Shaped(s), NEW op, NEW t, NEW b, NEW oe \in BOOLEAN, NEW rc \in BOOLEAN
  PROVE  /\ Shaped(MultiplyForm(s, op, t, b, oe, rc))
         /\ Honest(s, MultiplyForm(s, op, t, b, oe, rc))
<1> DEFINE o == Product(op, s.gpr[t[2]], b)
<1>1. o.ov \in BOOLEAN
  BY DEF Product
<1>2. MultiplyForm(s, op, t, b, oe, rc) = Result(s, t[1], o.r, set_xer_ov(s.xer, oe, o.ov), rc)
  BY DEF MultiplyForm
<1> HIDE DEF o
<1> QED
  BY <1>1, <1>2, OverflowKeepsSummary, ResultHonest DEF Shaped

\* What leaves XER alone.
LEMMA PlainHonest ==
  ASSUME NEW s, Shaped(s), NEW d, NEW r, NEW rc \in BOOLEAN
  PROVE  Shaped(Result(s, d, r, s.xer, rc)) /\ Honest(s, Result(s, d, r, s.xer, rc))
BY ResultHonest DEF Shaped

\* The arithmetic shifts, which set the carry.
LEMMA ShiftHonest ==
  ASSUME NEW s, Shaped(s), NEW t, NEW n, NEW rc \in BOOLEAN
  PROVE  Shaped(ArithmeticForm(s, t, n, rc)) /\ Honest(s, ArithmeticForm(s, t, n, rc))
<1> DEFINE o == Arithmetic(s.gpr[t[2]], n)
           x == [s.xer EXCEPT !.ca = o.ca]
<1>1. o.ca \in BOOLEAN
  BY ArithmeticFlags
<1>2. ArithmeticForm(s, t, n, rc) = Result(s, t[1], o.r, x, rc)
  BY DEF ArithmeticForm
<1> HIDE DEF o
<1>3. x \in Flags /\ x.so = s.xer.so
  BY <1>1 DEF Shaped, Flags
<1> QED
  BY <1>2, <1>3, ResultHonest

\* The compares.
LEMMA CompareHonest ==
  ASSUME NEW s, Shaped(s), NEW op, NEW a, NEW b
  PROVE  Shaped(CompareForm(s, op, a, b)) /\ Honest(s, CompareForm(s, op, a, b))
<1> DEFINE t == CompareForm(s, op, a, b)
<1>1. /\ t = [gpr |-> t.gpr, xer |-> t.xer, cr0 |-> t.cr0]
      /\ t.xer = s.xer /\ t.cr0 = Compared(op, a, b, s.xer.so)
  BY DEF CompareForm, Shaped
<1>2. Recorded(Compared(op, a, b, s.xer.so), s.xer.so)
  BY OrderRecorded DEF Compared, Shaped, Flags
<1> QED
  BY <1>1, <1>2 DEF Shaped, Honest

-----------------------------------------------------------------------------
\* Every step but mtspr XER is honest.
LEMMA StepHonest ==
  ASSUME Shaped(cpu), Next
  PROVE  Shaped(cpu)' /\ (Honest(cpu, cpu') \/ \E x \in Flags : Mtxer(x))
<1> DEFINE Good == Shaped(cpu') /\ Honest(cpu, cpu')
<1>1. ASSUME NEW t \in Operands, NEW rc \in BOOLEAN, NEW oe \in BOOLEAN, Add(t, oe, rc)
      PROVE  Good
  BY <1>1, AddHonest DEF Add
<1>2. ASSUME NEW t \in Operands, NEW rc \in BOOLEAN, NEW oe \in BOOLEAN, Divide(t, oe, rc)
      PROVE  Good
  BY <1>2, DivideHonest DEF Divide
<1>3. ASSUME NEW t \in Operands, NEW rc \in BOOLEAN, NEW oe \in BOOLEAN, Multiply(t, oe, rc)
      PROVE  Good
  BY <1>3, MultiplyHonest DEF Multiply
<1>4. ASSUME NEW t \in Operands, NEW rc \in BOOLEAN, Logical(t, rc)
      PROVE  Good
  BY <1>4, PlainHonest DEF Logical, LogicForm
<1>5. ASSUME NEW t \in Operands, NEW rc \in BOOLEAN, Shift(t, rc)
      PROVE  Good
  BY <1>5, PlainHonest, ShiftHonest DEF Shift, ShiftForm
<1>6. ASSUME NEW t \in Operands, NEW rc \in BOOLEAN, Single(t, rc)
      PROVE  Good
  BY <1>6, PlainHonest DEF Single, UnaryForm
<1>7. ASSUME NEW t \in Operands, NEW rc \in BOOLEAN, NEW rot \in Rotates, Rotate(t, rot, rc)
      PROVE  Good
  BY <1>7, PlainHonest DEF Rotate, RotateForm
<1>8. ASSUME NEW t \in Operands, NEW im \in Immediates, AddImmediate(t, im)
      PROVE  Good
  <2>1. CASE \E i : cpu' = generic_addi(cpu, t, i)
    <3>1. PICK i : cpu' = generic_addi(cpu, t, i)
      BY <2>1
    <3>2. PICK r : cpu' = Result(cpu, t[1], r, cpu.xer, FALSE)
      BY <3>1 DEF generic_addi
    <3> QED
      BY <3>2, PlainHonest
  <2>2. CASE \E op : \E rc \in BOOLEAN : cpu' = AddForm(cpu, op, t, im, FALSE, rc)
    BY <2>2, AddHonest
  <2> QED
    BY <1>8, <2>1, <2>2 DEF AddImmediate
<1>9. ASSUME NEW t \in Operands, NEW im \in Immediates, MultiplyImmediate(t, im)
      PROVE  Good
  BY <1>9, MultiplyHonest DEF MultiplyImmediate
<1>10. ASSUME NEW t \in Operands, NEW im \in Immediates, LogicalImmediate(t, im)
      PROVE  Good
  <2>1. PICK op \in LogicImmediate, b \in {im, Left(im, Width \div 2)} :
          cpu' = LogicForm(cpu, op, t, b, op = "and")
    BY <1>10 DEF LogicalImmediate
  <2>2. PICK rc \in BOOLEAN : rc = (op = "and")
    OBVIOUS
  <2> QED
    <3>1. PICK r : cpu' = Result(cpu, t[1], r, cpu.xer, rc)
      BY <2>1, <2>2 DEF LogicForm
    <3> QED
      BY <3>1, PlainHonest
<1>11. ASSUME NEW t \in Operands, NEW im \in Immediates, CompareImmediate(t, im)
      PROVE  Good
  BY <1>11, CompareHonest DEF CompareImmediate
<1>12. ASSUME NEW t \in Operands, Compare(t)
      PROVE  Good
  BY <1>12, CompareHonest DEF Compare
<1>13. ASSUME NEW x \in Flags, Mtxer(x)
      PROVE  Shaped(cpu')
  BY <1>13 DEF Mtxer, Shaped
<1> QED
  BY <1>1, <1>2, <1>3, <1>4, <1>5, <1>6, <1>7, <1>8, <1>9, <1>10, <1>11, <1>12, <1>13
  DEF Next, Shaped

\* The parts of cpu stay what they are.
LEMMA ShapedAlways == Spec => []Shaped(cpu)
<1>1. Init => Shaped(cpu)
  BY DEF Init, Shaped, Flags
<1>2. Shaped(cpu) /\ [Next]_cpu => Shaped(cpu)'
  BY StepHonest DEF Shaped
<1> QED
  BY <1>1, <1>2, PTL DEF Spec

(***************************************************************************)
(* For words of any width: SO is cleared by mtspr alone, however long a    *)
(* program adds, multiplies and divides after an overflow.                 *)
(***************************************************************************)
THEOREM SummaryNeverLost == Spec => SummaryStays
<1>1. Shaped(cpu) /\ [Next]_cpu =>
        [cpu.xer.so /\ ~ cpu'.xer.so => \E x \in Flags : Mtxer(x)]_cpu
  BY StepHonest DEF Honest
<1> QED
  BY <1>1, ShapedAlways, PTL DEF Spec, SummaryStays

(***************************************************************************)
(* For words of any width: a recorded field orders one number and its SO   *)
(* bit is that of XER after the instruction.                               *)
(***************************************************************************)
THEOREM RecordsTheSummary == Spec => RecordsSummary
<1>1. Shaped(cpu) /\ [Next]_cpu =>
        [cpu'.cr0 # cpu.cr0 =>
           /\ cpu'.cr0 \ {"so"} \in {{"lt"}, {"gt"}, {"eq"}}
           /\ ("so" \in cpu'.cr0) = cpu'.xer.so]_cpu
  <2>1. ASSUME NEW x \in Flags, Mtxer(x), Shaped(cpu)
        PROVE  cpu'.cr0 = cpu.cr0
    BY <2>1 DEF Mtxer, Shaped
  <2> QED
    BY <2>1, StepHonest DEF Honest, Recorded
<1> QED
  BY <1>1, ShapedAlways, PTL DEF Spec, RecordsSummary

-----------------------------------------------------------------------------
(* Sums *)

\* A number less than two words either way wraps by adding or taking words.
LEMMA WrapIs ==
  ASSUME NEW m \in Nat, m > 0, NEW n \in Int, n >= -2 * m, n < 2 * m
  PROVE  n % m = IF n < -m THEN n + 2 * m ELSE IF n < 0 THEN n + m
                 ELSE IF n < m THEN n ELSE n - m
<1>1. CASE n < -m BY <1>1, SMTT(30)
<1>2. CASE n >= -m /\ n < 0 BY <1>2, SMTT(30)
<1>3. CASE n >= 0 /\ n < m BY <1>3, SMTT(30)
<1>4. CASE n >= m BY <1>4, SMTT(30)
<1> QED BY <1>1, <1>2, <1>3, <1>4

\* The two readings of a word of two halves.
LEMMA SignedIs ==
  ASSUME NEW x \in Word
  PROVE  /\ Negative(x) = (x >= Half)
         /\ Signed(x) = IF x >= Half THEN x - 2 * Half ELSE x
         /\ x \in Int /\ x >= 0 /\ x < 2 * Half
<1>1. Modulus \div 2 = Half
  BY Halves
<1>2. x \in Int /\ x >= 0 /\ x < 2 * Half
  BY Halves DEF Word
<1> QED
  BY Halves, <1>1, <1>2 DEF Negative, Signed

\* The adder: its word is the signed sum wrapped, and add_overflow says that
\* the signed sum does not fit.
LEMMA AdderExact ==
  ASSUME NEW x \in Word, NEW y \in Word, NEW c \in {0, 1}
  PROVE  LET r == Wrap(x + y + c)
             s == Signed(x) + Signed(y) + c
         IN /\ r = Wrap(s)
            /\ add_overflow(x, y, r) = (s # Signed(Wrap(s)))
<1> DEFINE n == x + y + c
           s == Signed(x) + Signed(y) + c
           r == Wrap(n)
<1>1. /\ x \in Int /\ x >= 0 /\ x < 2 * Half /\ y \in Int /\ y >= 0 /\ y < 2 * Half
      /\ Signed(x) = IF x >= Half THEN x - 2 * Half ELSE x
      /\ Signed(y) = IF y >= Half THEN y - 2 * Half ELSE y
      /\ Negative(x) = (x >= Half) /\ Negative(y) = (y >= Half)
  BY SignedIs
<1>2. /\ n \in Int /\ n >= 0 /\ n < 4 * Half
      /\ s \in Int /\ s >= -2 * Half /\ s < 2 * Half
  BY Halves, <1>1
<1>3. r = IF n < 2 * Half THEN n ELSE n - 2 * Half
  <2>1. n % (2 * Half) = IF n < 2 * Half THEN n ELSE n - 2 * Half
    BY Halves, <1>2, WrapIs
  <2> QED
    BY Halves, <2>1 DEF Wrap
<1>4. Wrap(s) = IF s < 0 THEN s + 2 * Half ELSE s
  <2>1. s % (2 * Half) = IF s < 0 THEN s + 2 * Half ELSE s
    BY Halves, <1>2, WrapIs
  <2> QED
    BY Halves, <2>1 DEF Wrap
<1>5. r = Wrap(s)
  <2> HIDE DEF r
  <2> QED
    BY Halves, <1>1, <1>2, <1>3, <1>4
<1>6. r \in Word /\ r \in Int
  BY Halves, <1>2, <1>3 DEF Word
<1>7. Negative(r) = (r >= Half) /\ Signed(r) = IF r >= Half THEN r - 2 * Half ELSE r
  BY <1>6, SignedIs
<1>8. add_overflow(x, y, r) = (s # Signed(r))
  <2>1. add_overflow(x, y, r) = ((x >= Half) = (y >= Half) /\ (x >= Half) # (r >= Half))
    BY <1>1, <1>7 DEF add_overflow
  <2> HIDE DEF r
  <2> QED
    BY Halves, <2>1, <1>1, <1>2, <1>3, <1>6, <1>7
<1> QED
  BY <1>5, <1>8

\* What the inputs of the adder mean as signed numbers, and what they add up
\* to as unsigned ones.
LEMMA InputsExact ==
  ASSUME NEW op \in Additive,
         NEW a \in Word, NEW b \in Word, NEW ca \in BOOLEAN
  PROVE  /\ First(op, a) \in Word /\ Second(op, b) \in Word
         /\ CarryIn(op, ca) \in {0, 1}
         /\ Signed(First(op, a)) + Signed(Second(op, b)) + CarryIn(op, ca)
              = Exact(op, Signed(a), Signed(b), -1, ca)
         /\ First(op, a) + Second(op, b) + CarryIn(op, ca)
              = Exact(op, a, b, Ones, ca)
                  + (IF op \in Complementing THEN Modulus ELSE 0)
<1> DEFINE x == First(op, a)
           y == Second(op, b)
           c == CarryIn(op, ca)
           z(v, ones) == IF op \in WithRegister \cup WithImmediate THEN v
                         ELSE IF op \in {"addme", "subfme"} THEN ones ELSE 0
<1>1. /\ a \in Int /\ a >= 0 /\ a < 2 * Half
      /\ Signed(a) = IF a >= Half THEN a - 2 * Half ELSE a
  BY SignedIs
<1>2. x \in Word /\ x = IF op \in Complementing THEN 2 * Half - 1 - a ELSE a
  BY Halves, <1>1 DEF First, Not, Ones, Word
<1>3. Signed(x) = IF op \in Complementing THEN -1 - Signed(a) ELSE Signed(a)
  <2>1. x \in Int /\ Signed(x) = IF x >= Half THEN x - 2 * Half ELSE x
    BY <1>2, SignedIs
  <2> HIDE DEF x
  <2> QED
    BY Halves, <1>1, <1>2, <2>1
<1>4. 0 \in Word /\ Ones \in Word /\ Signed(0) = 0 /\ Signed(Ones) = -1
  <2>1. 0 \in Word /\ Ones \in Word /\ Ones = 2 * Half - 1
    BY Halves DEF Word, Ones
  <2> QED
    BY Halves, <2>1, SignedIs
<1>5. y = z(b, Ones) /\ y \in Word /\ y \in Int
  BY <1>4 DEF Second, Word
<1>6. Signed(y) = z(Signed(b), -1) /\ Signed(y) \in Int
  <2>1. Signed(y) \in Int
    BY Halves, <1>5, SignedIs
  <2> QED
    BY <2>1, <1>4 DEF Second
<1>7. /\ c \in {0, 1}
      /\ op \in WithCarry => Flag(~ ca) = 1 - c
      /\ op \in WithCarry => Flag(ca) = c
      /\ op \notin WithCarry => c = IF op \in Complementing THEN 1 ELSE 0
  BY DEF CarryIn, Flag
<1>8. Signed(a) \in Int
  BY Halves, <1>1
<1> HIDE DEF x, y, c
<1>9. Exact(op, Signed(a), Signed(b), -1, ca) = Signed(x) + Signed(y) + c
  <2>1. CASE op \in Complementing
    <3>1. Exact(op, Signed(a), Signed(b), -1, ca)
            = Signed(y) - Signed(a) - (IF op \in WithCarry THEN 1 - c ELSE 0)
      BY <2>1, <1>6, <1>7 DEF Exact
    <3> QED
      BY <2>1, <3>1, <1>3, <1>6, <1>7, <1>8
  <2>2. CASE op \notin Complementing
    <3>1. Exact(op, Signed(a), Signed(b), -1, ca)
            = Signed(a) + Signed(y) + (IF op \in WithCarry THEN c ELSE 0)
      BY <2>2, <1>6, <1>7 DEF Exact
    <3> QED
      BY <2>2, <3>1, <1>3, <1>6, <1>7, <1>8
  <2> QED
    BY <2>1, <2>2
<1>10. x + y + c = Exact(op, a, b, Ones, ca)
                     + (IF op \in Complementing THEN Modulus ELSE 0)
  <2>1. CASE op \in Complementing
    <3>1. Exact(op, a, b, Ones, ca)
            = y - a - (IF op \in WithCarry THEN 1 - c ELSE 0)
      BY <2>1, <1>5, <1>7 DEF Exact
    <3> QED
      BY Halves, <2>1, <3>1, <1>1, <1>2, <1>5, <1>7
  <2>2. CASE op \notin Complementing
    <3>1. Exact(op, a, b, Ones, ca)
            = a + y + (IF op \in WithCarry THEN c ELSE 0)
      BY <2>2, <1>5, <1>7 DEF Exact
    <3> QED
      BY <2>2, <3>1, <1>1, <1>2, <1>5, <1>7
  <2> QED
    BY <2>1, <2>2
<1> QED
  BY <1>2, <1>5, <1>7, <1>9, <1>10 DEF x, y, c

\* The code replaces rB by 0 in addme with the carry set, whose sum is rA.
LEMMA AddmeExact ==
  ASSUME NEW a \in Word
  PROVE  /\ add_overflow(a, 0, Wrap(a + Ones + 1)) = FALSE
         /\ Signed(a) + -1 + 1 = Signed(a) /\ Signed(Wrap(Signed(a))) = Signed(a)
<1>1. /\ a \in Int /\ a >= 0 /\ a < 2 * Half
      /\ Signed(a) = IF a >= Half THEN a - 2 * Half ELSE a
  BY SignedIs
<1>2. Wrap(a + Ones + 1) = a
  <2>1. a + Ones + 1 = a + 2 * Half
    BY Halves, <1>1 DEF Ones
  <2>2. (a + 2 * Half) % (2 * Half) = a
    BY Halves, <1>1, WrapIs
  <2> QED
    BY Halves, <2>1, <2>2 DEF Wrap
<1>3. Wrap(Signed(a)) = a
  BY Halves, <1>1, WrapIs DEF Wrap
<1>4. ~ Negative(0)
  BY Halves DEF Negative
<1> QED
  BY Halves, <1>1, <1>2, <1>3, <1>4 DEF add_overflow

\* What one form gives: the exact result wrapped, the overflow, the carry.
LEMMA SumIsExact ==
  ASSUME NEW op \in Additive, NEW a \in Word, NEW b \in Word, NEW ca \in BOOLEAN
  PROVE  SumExact(op, a, b, ca)
<1> DEFINE x == First(op, a)
           y == Second(op, b)
           c == CarryIn(op, ca)
           t == Total(op, a, b, ca)
           s == Exact(op, Signed(a), Signed(b), -1, ca)
           u == Exact(op, a, b, Ones, ca)
           o == Sum(op, a, b, ca)
<1>1. /\ x \in Word /\ y \in Word /\ c \in {0, 1} /\ t = x + y + c
      /\ s = Signed(x) + Signed(y) + c
      /\ t = u + (IF op \in Complementing THEN Modulus ELSE 0)
  BY InputsExact DEF Total
<1>2. Wrap(t) = Wrap(s) /\ add_overflow(x, y, Wrap(t)) = (s # Signed(Wrap(s)))
  BY <1>1, AdderExact
<1>3. o.r = Wrap(s)
  BY <1>2 DEF Sum
<1>4. op \in MayOverflow => o.ov = (s # Signed(Wrap(s)))
  <2>1. CASE op = "addme" /\ ca
    <3>1. x = a /\ t = a + Ones + 1 /\ s = Signed(a) + -1 + 1
      BY <2>1 DEF Total, First, Second, CarryIn, Flag, Exact, Complementing, WithCarry,
                  WithRegister, WithImmediate
    <3>2. o.ov = add_overflow(a, 0, Wrap(a + Ones + 1))
      BY <2>1, <3>1 DEF Sum
    <3>3. s = Signed(a) /\ Signed(Wrap(Signed(a))) = Signed(a)
      BY <3>1, AddmeExact
    <3>4. o.ov = FALSE
      BY <3>2, AddmeExact
    <3>5. Signed(Wrap(s)) = s
      BY <3>3
    <3> QED
      BY <3>4, <3>5
  <2>2. CASE ~ (op = "addme" /\ ca)
    BY <2>2, <1>2 DEF Sum
  <2> QED
    BY <2>1, <2>2
<1>5. o.ca = IF op \notin Carrying THEN ca
             ELSE IF op \in Complementing THEN u >= 0 ELSE u >= Modulus
  <2>1. o.ca = IF op \in Carrying THEN t >= Modulus ELSE ca
    BY DEF Sum
  <2>2. t \in Int
    BY <1>1 DEF Word
  <2>3. u \in Int
    BY Halves, SignedIs DEF Exact, Flag, Ones
  <2> HIDE DEF t, u, o
  <2> QED
    BY Halves, <1>1, <2>1, <2>2, <2>3
<1> QED
  BY <1>3, <1>4, <1>5 DEF SumExact

\* The word and the carry of a form, from its exact unsigned result.
LEMMA SumIs ==
  ASSUME NEW op \in Additive, NEW a \in Word, NEW b \in Word, NEW ca \in BOOLEAN
  PROVE  LET u == Exact(op, a, b, Ones, ca)
             o == Sum(op, a, b, ca)
         IN /\ u \in Int
            /\ o.r \in Word
            /\ o.r = IF u < 0 THEN u + Modulus ELSE IF u < Modulus THEN u ELSE u - Modulus
            /\ o.ca \in BOOLEAN
            /\ op \in Carrying /\ op \in Complementing => (o.ca <=> u >= 0)
            /\ op \in Carrying /\ op \notin Complementing => (o.ca <=> u >= Modulus)
<1> DEFINE x == First(op, a)
           y == Second(op, b)
           c == CarryIn(op, ca)
           t == Total(op, a, b, ca)
           u == Exact(op, a, b, Ones, ca)
           o == Sum(op, a, b, ca)
<1>1. /\ x \in Word /\ y \in Word /\ c \in {0, 1} /\ t = x + y + c
      /\ t = u + (IF op \in Complementing THEN Modulus ELSE 0)
  BY InputsExact DEF Total
<1>2. u \in Int
  BY Halves, SignedIs DEF Exact, Flag, Ones
<1>3. t \in Int /\ t >= 0 /\ t < 2 * Modulus
  BY Halves, <1>1 DEF Word
<1>4. t % Modulus = IF t < Modulus THEN t ELSE t - Modulus
  BY Halves, <1>3, WrapIs
<1>5. o.r = t % Modulus
  BY DEF Sum, Wrap
<1>6. op \in Carrying => (o.ca <=> t >= Modulus)
  BY DEF Sum
<1>7. o.ca \in BOOLEAN
  BY SumFlags
<1>8. op \in Complementing => t = u + Modulus
  BY <1>1
<1>9. op \notin Complementing => t = u
  BY <1>1, <1>2
<1> HIDE DEF x, y, c, t, u, o
<1>10. o.r = IF u < 0 THEN u + Modulus ELSE IF u < Modulus THEN u ELSE u - Modulus
  BY Halves, <1>2, <1>3, <1>4, <1>5, <1>8, <1>9
<1>11. o.r \in Word
  BY Halves, <1>3, <1>4, <1>5 DEF Word
<1>12. CASE op \in Complementing
  <2>1. t >= Modulus <=> u >= 0
    BY Halves, <1>2, <1>8, <1>12
  <2> QED
    BY <1>2, <1>6, <1>7, <1>10, <1>11, <1>12, <2>1 DEF u, o
<1>13. CASE op \notin Complementing
  BY <1>2, <1>6, <1>7, <1>9, <1>10, <1>11, <1>13 DEF u, o
<1> QED
  BY <1>12, <1>13

(***************************************************************************)
(* In words of any width, every form of addition and subtraction gives the *)
(* exact sum wrapped, the overflow of the signed one and the carry of the  *)
(* unsigned one.                                                           *)
(***************************************************************************)
LEMMA SumsAreExact ==
  ASSUME A \in Word, B \in Word, Ca \in BOOLEAN
  PROVE  SumsExact
BY SumIsExact DEF SumsExact

-----------------------------------------------------------------------------
(* Quotients by powers of two *)

\* The readings of a word and of its two halves.
LEMMA WordIs ==
  ASSUME NEW x \in Word
  PROVE  /\ x \in Int /\ x >= 0 /\ x < Modulus
         /\ Signed(x) \in Int /\ Signed(x) >= -Half /\ Signed(x) < Half
         /\ Negative(x) = (Signed(x) < 0)
         /\ x = IF Signed(x) < 0 THEN Signed(x) + Modulus ELSE Signed(x)
BY SignedIs, Halves

\* A number that fits a signed word is read back from the word it wraps to.
LEMMA SignedWrap ==
  ASSUME NEW n \in Int
  PROVE  /\ Wrap(n) \in Word
         /\ n >= -Half /\ n < Half => Signed(Wrap(n)) = n
<1>1. Wrap(n) \in Word
  BY Halves, Remainders DEF Wrap, Word
<1>2. ASSUME n >= -Half, n < Half PROVE Signed(Wrap(n)) = n
  <2>1. n % Modulus = IF n < 0 THEN n + Modulus ELSE n
    BY <1>2, WrapIs, Halves
  <2> QED
    BY <1>1, <1>2, <2>1, SignedIs, Halves DEF Wrap
<1> QED
  BY <1>1, <1>2

\* Adding multiples changes the quotient by as many and the remainder not at all.
LEMMA Multiples ==
  ASSUME NEW p \in Nat, p > 0, NEW x \in Int, NEW k \in Int
  PROVE  (k * p + x) % p = x % p /\ (k * p + x) \div p = k + (x \div p)
<1> DEFINE q == x \div p
           r == x % p
<1>1. q \in Int /\ r \in 0 .. p - 1 /\ x = q * p + r
  BY Remainders
<1> HIDE DEF q, r
<1>2. k * p + x = (k + q) * p + r
  <2>1. (k + q) * p = k * p + q * p /\ k * p \in Int /\ q * p \in Int
    BY <1>1
  <2> QED
    BY <1>1, <2>1
<1>3. ((k + q) * p + r) % p = r /\ ((k + q) * p + r) \div p = k + q
  BY <1>1, Remainder
<1> QED
  BY <1>2, <1>3 DEF q, r

\* A quotient lies between the same bounds, and has the sign of the number.
LEMMA QuotientBounds ==
  ASSUME NEW p \in Nat, p >= 1, NEW h \in Nat, NEW x \in Int, x >= -h, x < h
  PROVE  /\ x \div p \in Int /\ x \div p >= -h /\ x \div p < h
         /\ (x < 0) = (x \div p < 0)
<1> DEFINE q == x \div p
           r == x % p
<1>1. q \in Int /\ r \in 0 .. p - 1 /\ x = q * p + r
  BY Remainders
<1> HIDE DEF q, r
<1>2. q < 0 => x < 0 /\ q >= x
  <2> SUFFICES ASSUME q < 0 PROVE x < 0 /\ q >= x
    OBVIOUS
  <2>1. q * p <= (-1) * p
    BY <1>1
  <2>2. (q + 1) * p <= (q + 1) * 1
    <3>1. (-(q + 1)) * p >= (-(q + 1)) * 1
      BY <1>1
    <3> QED
      BY <1>1, <3>1
  <2>3. (q + 1) * p = q * p + p /\ q * p \in Int
    BY <1>1
  <2> QED
    BY <1>1, <2>1, <2>2, <2>3
<1>3. q >= 0 => x >= 0 /\ q <= x
  <2> SUFFICES ASSUME q >= 0 PROVE x >= 0 /\ q <= x
    OBVIOUS
  <2>1. q * p >= q * 1
    BY <1>1
  <2> QED
    BY <1>1, <2>1
<1>4. q \in Int /\ q >= -h /\ q < h /\ (x < 0) = (q < 0)
  BY <1>1, <1>2, <1>3
<1> QED
  BY <1>4 DEF q

\* The powers up to the width divide the word, and their multiples are even.
LEMMA PowerDivides ==
  ASSUME NEW n \in 0 .. Width
  PROVE  /\ Power[n] \in Nat /\ Power[n] >= 1
         /\ Power[Width - n] \in Nat /\ Power[Width - n] >= 1
         /\ Modulus = Power[Width - n] * Power[n]
<1>1. Width - n \in Nat /\ (Width - n) + n = Width /\ n \in Nat /\ Width <= Most
      /\ n \in 0 .. Most /\ Width - n \in 0 .. Most
  BY Widths
<1>2. Modulus = Power[Width - n] * Power[n]
  BY <1>1, PowerSum DEF Modulus
<1> QED
  BY <1>1, <1>2, PowerNat

\* A word and its signed reading have the same low bits.
LEMMA SignedLow ==
  ASSUME NEW x \in Word, NEW n \in 0 .. Width
  PROVE  x % Power[n] = Signed(x) % Power[n]
<1> DEFINE p == Power[n]
           k == Power[Width - n]
           s == Signed(x)
<1>1. p \in Nat /\ p > 0 /\ k \in Nat /\ Modulus = k * p
  BY PowerDivides
<1>2. s \in Int /\ (x = s \/ x = s + Modulus)
  BY WordIs
<1> HIDE DEF p, k, s
<1>3. (k * p + s) % p = s % p
  <2>1. k \in Int
    BY <1>1
  <2> QED
    BY <1>1, <1>2, <2>1, Multiples
<1>4. x % p = s % p
  BY <1>1, <1>2, <1>3
<1> QED
  BY <1>4 DEF p, s

\* The shift amount, and its power.
LEMMA Amounts ==
  ASSUME NEW b \in Nat
  PROVE  /\ Amount(b) \in Nat /\ Amount(b) \in 0 .. Most
         /\ Power[Amount(b)] \in Nat /\ Power[Amount(b)] >= 1
         /\ Amount(b) >= Width => Power[Amount(b)] >= Modulus
<1>1. Amount(b) \in Nat /\ Amount(b) \in 0 .. Most
  BY Widths, Remainders DEF Amount
<1>2. Amount(b) >= Width => Power[Width] <= Power[Amount(b)]
  BY <1>1, PowerGrows, Widths
<1> QED
  BY <1>1, <1>2, PowerNat, Halves DEF Modulus

\* sraw gives the floor of the division of the signed word, and the carry says
\* that a negative one leaves a remainder.
LEMMA ArithmeticIs ==
  ASSUME NEW s \in Word, NEW b \in Nat
  PROVE  LET o == Arithmetic(s, b)
             p == Power[Amount(b)]
         IN /\ o.r \in Word /\ Signed(o.r) = Signed(s) \div p
            /\ o.ca = (Signed(s) < 0 /\ Signed(s) % p # 0)
<1> DEFINE n == Amount(b)
           p == Power[n]
           v == Signed(s)
           o == Arithmetic(s, b)
<1>1. n \in Nat /\ n \in 0 .. Most /\ p \in Nat /\ p >= 1 /\ (n >= Width => p >= Modulus)
  BY Amounts
<1>2. v \in Int /\ v >= -Half /\ v < Half /\ Negative(s) = (v < 0)
  BY WordIs
<1>3. CASE n >= Width
  <2>1. o = [r |-> IF v < 0 THEN Ones ELSE 0, ca |-> v < 0]
    BY <1>2, <1>3 DEF Arithmetic
  <2>2. Ones \in Word /\ 0 \in Word /\ Signed(Ones) = -1 /\ Signed(0) = 0
    BY SignedIs, Halves DEF Word
  <2>3. v < 0 => v \div p = -1 /\ v % p # 0
    <3> SUFFICES ASSUME v < 0 PROVE v \div p = -1 /\ v % p # 0
      OBVIOUS
    <3> HIDE DEF n, p, v
    <3>1. v + p \in 0 .. p - 1 /\ v + p # 0 /\ v = (-1) * p + (v + p) /\ -1 \in Int
      BY <1>1, <1>2, <1>3, Halves
    <3>2. ((-1) * p + (v + p)) \div p = -1 /\ ((-1) * p + (v + p)) % p = v + p
      BY <1>1, <3>1, Remainder
    <3> QED
      BY <3>1, <3>2
  <2>4. v >= 0 => v \div p = 0
    <3> HIDE DEF n, p, v
    <3> QED
      BY <1>1, <1>2, <1>3, Halves
  <2> HIDE DEF n, p, v, o
  <2> QED
    BY <1>2, <2>1, <2>2, <2>3, <2>4 DEF n, p, v, o
<1>4. CASE n < Width
  <2>1. o = [r |-> Wrap(v \div p), ca |-> v < 0 /\ n # 0 /\ s % p # 0]
    <3>1. ~ (n >= Width)
      BY <1>1, <1>4, Widths
    <3> QED
      BY <1>2, <3>1 DEF Arithmetic
  <2>2. v \div p \in Int /\ v \div p >= -Half /\ v \div p < Half
    BY <1>1, <1>2, QuotientBounds, Halves
  <2>3. Wrap(v \div p) \in Word /\ Signed(Wrap(v \div p)) = v \div p
    BY <2>2, SignedWrap
  <2>4. s % p = v % p
    BY <1>1, <1>4, SignedLow, Widths
  <2>5. n = 0 => v % p = 0
    <3> SUFFICES ASSUME n = 0 PROVE v % p = 0
      OBVIOUS
    <3>1. p = 1
      BY PowerStep
    <3> HIDE DEF p, v
    <3> QED
      BY <1>2, <3>1
  <2>6. o.r = Wrap(v \div p) /\ o.ca = (v < 0 /\ n # 0 /\ s % p # 0)
    BY <2>1
  <2> HIDE DEF n, p, v, o
  <2>7. o.ca = (v < 0 /\ v % p # 0)
    BY <2>4, <2>5, <2>6
  <2> QED
    BY <2>3, <2>6, <2>7 DEF n, p, v, o
<1> QED
  BY <1>1, <1>3, <1>4, Widths

-----------------------------------------------------------------------------
(* Instructions that programs use together *)

\* What a compare says, without the SO bit.
LEMMA ComparedIs ==
  ASSUME NEW op, NEW a, NEW b, NEW c \in {"lt", "gt", "eq"}
  PROVE  c \in Compared(op, a, b, FALSE) <=>
           c = IF op = "cmpl" THEN Order(a, b) ELSE Order(Signed(a), Signed(b))
BY DEF Compared

\* The compares and the subtraction agree.
LEMMA ComparesCorrect ==
  ASSUME A \in Word, B \in Word, Ca \in BOOLEAN
  PROVE  ComparesAgree
<1> DEFINE a == A
           b == B
           d == Sum("subfc", b, a, Ca)
           x == Signed(a)
           y == Signed(b)
<1>1. "subfc" \in Additive /\ "subfc" \in Complementing /\ "subfc" \in Carrying
      /\ "subfc" \in MayOverflow /\ "subfc" \in WithRegister /\ "subfc" \notin WithCarry
  BY DEF Additive, Complementing, Carrying, MayOverflow, WithRegister, WithCarry,
         WithImmediate
<1>2. Exact("subfc", b, a, Ones, Ca) = a - b - 0 /\ Exact("subfc", y, x, -1, Ca) = x - y - 0
  BY <1>1 DEF Exact
<1>3. /\ a \in Int /\ a >= 0 /\ a < Modulus /\ x \in Int /\ x >= -Half /\ x < Half
      /\ a = IF x < 0 THEN x + Modulus ELSE x
      /\ b \in Int /\ b >= 0 /\ b < Modulus /\ y \in Int /\ y >= -Half /\ y < Half
      /\ b = IF y < 0 THEN y + Modulus ELSE y
  BY WordIs
<1> HIDE DEF a, b
<1>4. /\ d.r \in Word /\ d.ca \in BOOLEAN /\ (d.ca <=> a - b >= 0)
      /\ d.r = IF a - b < 0 THEN a - b + Modulus ELSE a - b
  <2> DEFINE u == a - b - 0
  <2>1. /\ d.r \in Word /\ d.ca \in BOOLEAN /\ (d.ca <=> u >= 0)
        /\ d.r = IF u < 0 THEN u + Modulus ELSE IF u < Modulus THEN u ELSE u - Modulus
    <3>1. Exact("subfc", b, a, Ones, Ca) = u
      BY <1>2
    <3> HIDE DEF u
    <3> QED
      BY <1>1, <3>1, SumIs DEF a, b
  <2>2. u = a - b
    BY <1>3
  <2> HIDE DEF u, d, x, y
  <2> QED
    BY <1>3, <2>1, <2>2, Halves
<1>5. d.ov = (x - y # Signed(Wrap(x - y)))
  <2>1. d.ov = (Exact("subfc", y, x, -1, Ca) # Signed(Wrap(Exact("subfc", y, x, -1, Ca))))
    BY <1>1, SumIsExact DEF SumExact, a, b
  <2>2. Exact("subfc", y, x, -1, Ca) = x - y
    BY <1>2, <1>3
  <2> QED
    BY <2>1, <2>2
<1>6. Negative(d.r) = (d.r >= Half)
  BY <1>4, SignedIs
<1>7. Signed(Wrap(x - y)) = IF d.r >= Half THEN d.r - Modulus ELSE d.r
  <2>1. Wrap(x - y) = d.r
    <3>1. (x - y) % Modulus = IF x - y < 0 THEN x - y + Modulus ELSE x - y
      <4> HIDE DEF x, y
      <4> QED
        BY <1>3, WrapIs, Halves
    <3> HIDE DEF x, y, d
    <3> QED
      BY <1>3, <1>4, <3>1, Halves DEF Wrap
  <2> QED
    BY <1>4, <2>1, SignedIs, Halves
<1>8. (x < y) = (Negative(d.r) # d.ov)
  <2> DEFINE r == d.r
  <2>1. r \in Int
    BY <1>4 DEF Word
  <2>2. d.ov = (x - y # IF r >= Half THEN r - Modulus ELSE r)
    BY <1>5, <1>7
  <2>3. r = IF a - b < 0 THEN a - b + Modulus ELSE a - b
    BY <1>4
  <2> HIDE DEF r, x, y, d
  <2>4. (x < y) = ((r >= Half) # (x - y # IF r >= Half THEN r - Modulus ELSE r))
    BY <1>3, <2>1, <2>3, Halves
  <2> QED
    BY <1>6, <2>2, <2>4 DEF r
<1>9. a < b <=> ~ d.ca
  <2> HIDE DEF x, y, d
  <2> QED
    BY <1>3, <1>4
<1>10. a = b <=> d.r = 0
  <2> DEFINE r == d.r
  <2>1. r = IF a - b < 0 THEN a - b + Modulus ELSE a - b
    BY <1>4
  <2> HIDE DEF r, d
  <2>2. a = b <=> r = 0
    BY <1>3, <2>1, Halves
  <2> QED
    BY <2>2 DEF r
<1>11. x = y <=> a = b
  <2> HIDE DEF x, y
  <2> QED
    BY <1>3, Halves
<1>12. \A op \in {"cmp", "cmpl"}, c \in {"lt", "gt", "eq"} :
         c \in Compared(op, A, B, FALSE) <=>
           c = IF op = "cmpl" THEN Order(a, b) ELSE Order(x, y)
  BY ComparedIs DEF a, b
<1>13. \A i \in Int, j \in Int :
         /\ Order(i, j) \in {"lt", "gt", "eq"}
         /\ Order(i, j) = "lt" <=> i < j
         /\ Order(i, j) = "eq" <=> i = j
         /\ Order(i, j) = "gt" <=> ~ (i < j \/ i = j)
  BY DEF Order
<1> HIDE DEF d, x, y
<1>14. ASSUME NEW op \in {"cmp", "cmpl"}
       PROVE  /\ "eq" \in Compared(op, A, B, FALSE) <=> d.r = 0
              /\ "gt" \in Compared(op, A, B, FALSE)
                   <=> ~ ("lt" \in Compared(op, A, B, FALSE)
                            \/ "eq" \in Compared(op, A, B, FALSE))
  <2> DEFINE o == IF op = "cmpl" THEN Order(a, b) ELSE Order(x, y)
  <2>1. \A c \in {"lt", "gt", "eq"} : c \in Compared(op, A, B, FALSE) <=> c = o
    BY <1>12
  <2>2. o \in {"lt", "gt", "eq"} /\ (o = "eq" <=> a = b)
    <3>1. CASE op = "cmpl"
      BY <3>1, <1>3, <1>13
    <3>2. CASE op = "cmp"
      <4>1. o = Order(x, y)
        BY <3>2
      <4> HIDE DEF o
      <4> QED
        BY <4>1, <1>3, <1>11, <1>13
    <3> QED
      BY <3>1, <3>2
  <2> HIDE DEF o
  <2> QED
    BY <1>10, <2>1, <2>2
<1>15. /\ "lt" \in Compared("cmp", A, B, FALSE) <=> x < y
       /\ "lt" \in Compared("cmpl", A, B, FALSE) <=> a < b
  <2> HIDE DEF x, y, d
  <2> QED
    BY <1>3, <1>12, <1>13
<1>16. /\ ("lt" \in Compared("cmp", A, B, FALSE)) = (Negative(d.r) # d.ov)
       /\ ("lt" \in Compared("cmpl", A, B, FALSE)) = ~ d.ca
  <2> DEFINE M == Compared("cmp", A, B, FALSE)
             N == Compared("cmpl", A, B, FALSE)
  <2>1. ("lt" \in M <=> x < y) /\ ("lt" \in N <=> a < b)
    BY <1>15
  <2> HIDE DEF M, N
  <2>2. ("lt" \in M) = (Negative(d.r) # d.ov) /\ ("lt" \in N) = ~ d.ca
    BY <1>4, <1>8, <1>9, <2>1
  <2> QED
    BY <2>2 DEF M, N
<1>17. ASSUME NEW op \in {"cmp", "cmpl"}
       PROVE  /\ ("eq" \in Compared(op, A, B, FALSE)) = (d.r = 0)
              /\ ("gt" \in Compared(op, A, B, FALSE))
                   = ~ ("lt" \in Compared(op, A, B, FALSE)
                          \/ "eq" \in Compared(op, A, B, FALSE))
  <2> DEFINE M == Compared(op, A, B, FALSE)
  <2>1. ("eq" \in M <=> d.r = 0) /\ ("gt" \in M <=> ~ ("lt" \in M \/ "eq" \in M))
    BY <1>14
  <2> HIDE DEF M
  <2>2. ("eq" \in M) = (d.r = 0) /\ ("gt" \in M) = ~ ("lt" \in M \/ "eq" \in M)
    BY <2>1
  <2> QED
    BY <2>2 DEF M
<1> QED
  BY <1>16, <1>17, Zenon DEF ComparesAgree, d, a, b

\* Two reduced words make a number that two words hold.
LEMMA WideRange ==
  ASSUME NEW m \in Nat, m > 0, NEW high \in 0 .. m - 1, NEW low \in 0 .. m - 1
  PROVE  m * m \in Nat /\ m * m > 0 /\ high * m + low \in 0 .. m * m - 1
<1>1. (high + 1) * m <= m * m
  BY Z3
<1>2. (high + 1) * m = high * m + m /\ high * m \in Nat /\ m * m \in Nat
  OBVIOUS
<1>3. m * m > 0
  BY Z3
<1> QED
  BY <1>1, <1>2, <1>3

\* addc and adde add numbers of two words.
LEMMA WideSum ==
  ASSUME NEW a \in Word, NEW b \in Word, NEW high \in Word, NEW ca \in BOOLEAN
  PROVE  LET low == Sum("addc", a, b, ca)
         IN Sum("adde", high, b, low.ca).r * Modulus + low.r
              = ((high * Modulus + a) + (b * Modulus + b)) % (Modulus * Modulus)
<1> DEFINE low == Sum("addc", a, b, ca)
           l == low.r
           c == Flag(low.ca)
           h == Sum("adde", high, b, low.ca).r
           m == Modulus
<1>1. /\ "addc" \in Additive /\ "addc" \notin Complementing /\ "addc" \in Carrying
      /\ "addc" \in WithRegister /\ "addc" \notin WithCarry
      /\ "adde" \in Additive /\ "adde" \notin Complementing
      /\ "adde" \in WithRegister /\ "adde" \in WithCarry
  BY DEF Additive, Complementing, Carrying, WithRegister, WithCarry, WithImmediate
<1>2. a \in 0 .. m - 1 /\ b \in 0 .. m - 1 /\ high \in 0 .. m - 1 /\ m \in Nat /\ m > 0
  BY Halves DEF Word
<1>3. /\ l \in Word /\ l = IF a + b < m THEN a + b ELSE a + b - m
      /\ low.ca \in BOOLEAN /\ (low.ca <=> a + b >= m)
  <2>1. Exact("addc", a, b, Ones, ca) = a + b
    BY <1>1, <1>2 DEF Exact
  <2>2. a + b >= 0 /\ a + b \in Int
    BY <1>2
  <2> DEFINE u == a + b
  <2>u. Exact("addc", a, b, Ones, ca) = u
    BY <2>1
  <2> HIDE DEF u
  <2>3. /\ l \in Word /\ low.ca \in BOOLEAN /\ (low.ca <=> u >= m)
        /\ l = IF u < 0 THEN u + m ELSE IF u < m THEN u ELSE u - m
    BY <1>1, <1>2, <2>u, SumIs DEF Word
  <2> HIDE DEF l, low, m
  <2> QED
    BY <1>2, <2>2, <2>3 DEF u
<1>4. c = (IF a + b >= m THEN 1 ELSE 0) /\ c \in {0, 1}
  BY <1>3 DEF Flag
<1>5. h \in Word /\ h = IF high + b + c < m THEN high + b + c ELSE high + b + c - m
  <2>1. Exact("adde", high, b, Ones, low.ca) = high + b + c
    BY <1>1 DEF Exact
  <2>2. high + b + c >= 0 /\ high + b + c \in Int
    BY <1>2, <1>4
  <2> DEFINE u == high + b + c
  <2>u. Exact("adde", high, b, Ones, low.ca) = u
    BY <2>1
  <2> HIDE DEF c, low, u
  <2>3. /\ h \in Word
        /\ h = IF u < 0 THEN u + m ELSE IF u < m THEN u ELSE u - m
    <3>1. low.ca \in BOOLEAN
      BY <1>3
    <3> HIDE DEF l
    <3> QED
      BY <1>1, <1>2, <2>u, <3>1, SumIs DEF Word
  <2> HIDE DEF h, m
  <2> QED
    BY <1>2, <1>4, <2>2, <2>3 DEF u
<1> HIDE DEF low, l, c, h
<1>6. l \in 0 .. m - 1 /\ h \in 0 .. m - 1 /\ a + b = c * m + l
  BY <1>2, <1>3, <1>4, <1>5 DEF Word
<1> DEFINE n == (high * m + a) + (b * m + b)
           q == IF high + b + c < m THEN 0 ELSE 1
<1>7. high + b + c = q * m + h /\ q \in {0, 1}
  BY <1>2, <1>4, <1>5, <1>6
<1> HIDE DEF q
<1>8. n = q * (m * m) + (h * m + l) /\ n \in Int
  <2> HIDE DEF m
  <2>1. n = (high + b) * m + (a + b)
    BY <1>2
  <2>2. (high + b) * m + (c * m + l) = (high + b + c) * m + l
    BY <1>2, <1>4, <1>6
  <2>3. (q * m + h) * m = q * (m * m) + h * m
    BY <1>2, <1>6, <1>7
  <2>4. q * (m * m) \in Int /\ h * m \in Int /\ n \in Int
    BY <1>2, <1>6, <1>7
  <2> QED
    BY <1>6, <1>7, <2>1, <2>2, <2>3, <2>4
<1>9. h * m + l = n % (m * m)
  <2> HIDE DEF n, m
  <2>1. q \in Int
    BY <1>7
  <2>2. m \in Nat /\ m > 0 /\ h \in 0 .. m - 1 /\ l \in 0 .. m - 1 /\ n \in Int
    BY <1>2, <1>6, <1>8
  <2> DEFINE w == m * m
             x == h * m + l
  <2>3. n = q * w + x
    BY <1>8
  <2>4. w \in Nat /\ w > 0 /\ x \in 0 .. w - 1
    BY <2>2, WideRange
  <2> HIDE DEF w, x
  <2>5. (q * w + x) % w = x
    BY <2>1, <2>4, Remainder
  <2>6. x = n % w
    BY <2>3, <2>5
  <2> QED
    BY <2>6 DEF w, x
<1> QED
  BY <1>9 DEF l, h, low

\* subfic and subfze negate them.
LEMMA WideNegative ==
  ASSUME NEW a \in Word, NEW high \in Word, NEW ca \in BOOLEAN
  PROVE  LET negated == Sum("subfic", a, 0, ca)
         IN Sum("subfze", high, 0, negated.ca).r * Modulus + negated.r
              = (-(high * Modulus + a)) % (Modulus * Modulus)
<1> DEFINE low == Sum("subfic", a, 0, ca)
           l == low.r
           c == Flag(~ low.ca)
           h == Sum("subfze", high, 0, low.ca).r
           m == Modulus
<1>1. /\ "subfic" \in Additive /\ "subfic" \in Complementing /\ "subfic" \in Carrying
      /\ "subfic" \in WithImmediate /\ "subfic" \notin WithCarry
      /\ "subfze" \in Additive /\ "subfze" \in Complementing
      /\ "subfze" \notin WithRegister \cup WithImmediate /\ "subfze" \in WithCarry
  BY DEF Additive, Complementing, Carrying, WithRegister, WithCarry, WithImmediate
<1>2. a \in 0 .. m - 1 /\ 0 \in Word /\ high \in 0 .. m - 1 /\ m \in Nat /\ m > 0
  BY Halves DEF Word
<1>3. /\ l \in Word /\ l = IF a = 0 THEN 0 ELSE m - a
      /\ low.ca \in BOOLEAN /\ (low.ca <=> a = 0)
  <2>1. Exact("subfic", a, 0, Ones, ca) = -a
    BY <1>1, <1>2 DEF Exact
  <2>2. -a \in Int /\ -a <= 0 /\ -a < m
    BY <1>2
  <2>3. /\ l \in Word /\ low.ca \in BOOLEAN /\ (low.ca <=> -a >= 0)
        /\ l = IF -a < 0 THEN -a + m ELSE -a
    <3> DEFINE u == -a
    <3>u. Exact("subfic", a, 0, Ones, ca) = u
      BY <2>1
    <3> HIDE DEF u
    <3>1. /\ l \in Word /\ low.ca \in BOOLEAN /\ (low.ca <=> u >= 0)
          /\ l = IF u < 0 THEN u + m ELSE IF u < m THEN u ELSE u - m
      BY <1>1, <1>2, <3>u, SumIs
    <3> HIDE DEF l, low, m
    <3> QED
      BY <1>2, <2>2, <3>1 DEF u
  <2> HIDE DEF l, low
  <2> QED
    BY <1>2, <2>3
<1>4. c = (IF a = 0 THEN 0 ELSE 1) /\ c \in {0, 1}
  BY <1>3 DEF Flag
<1>5. h \in Word /\ h = IF 0 - high - c < 0 THEN 0 - high - c + m ELSE 0 - high - c
  <2>1. Exact("subfze", high, 0, Ones, low.ca) = 0 - high - c
    BY <1>1 DEF Exact
  <2>2. 0 - high - c < m /\ 0 - high - c \in Int
    BY <1>2, <1>4
  <2> DEFINE u == 0 - high - c
  <2>u. Exact("subfze", high, 0, Ones, low.ca) = u
    BY <2>1
  <2> HIDE DEF c, low, u
  <2>3. /\ h \in Word
        /\ h = IF u < 0 THEN u + m ELSE IF u < m THEN u ELSE u - m
    <3>1. low.ca \in BOOLEAN /\ 0 \in Word
      BY <1>2, <1>3
    <3> HIDE DEF l
    <3> QED
      BY <1>1, <1>2, <2>u, <3>1, SumIs DEF Word
  <2> HIDE DEF h, m
  <2> QED
    BY <1>2, <2>2, <2>3 DEF u
<1> HIDE DEF low, l, c, h
<1>6. l \in 0 .. m - 1 /\ h \in 0 .. m - 1 /\ -a = (-c) * m + l
  BY <1>2, <1>3, <1>4, <1>5 DEF Word
<1> DEFINE n == -(high * m + a)
           q == IF 0 - high - c < 0 THEN -1 ELSE 0
<1>7. 0 - high - c = q * m + h /\ q \in {-1, 0}
  BY <1>2, <1>4, <1>5, <1>6
<1> HIDE DEF q
<1>8. n = q * (m * m) + (h * m + l) /\ n \in Int
  <2> HIDE DEF m
  <2>1. n = (0 - high) * m + -a
    BY <1>2
  <2>2. (0 - high) * m + ((-c) * m + l) = (0 - high - c) * m + l
    BY <1>2, <1>4, <1>6
  <2>3. (q * m + h) * m = q * (m * m) + h * m
    BY <1>2, <1>6, <1>7
  <2>4. q * (m * m) \in Int /\ h * m \in Int /\ n \in Int
    BY <1>2, <1>6, <1>7
  <2> QED
    BY <1>6, <1>7, <2>1, <2>2, <2>3, <2>4
<1>9. h * m + l = n % (m * m)
  <2> HIDE DEF n, m
  <2>1. q \in Int
    BY <1>7
  <2>2. m \in Nat /\ m > 0 /\ h \in 0 .. m - 1 /\ l \in 0 .. m - 1 /\ n \in Int
    BY <1>2, <1>6, <1>8
  <2> DEFINE w == m * m
             x == h * m + l
  <2>3. n = q * w + x
    BY <1>8
  <2>4. w \in Nat /\ w > 0 /\ x \in 0 .. w - 1
    BY <2>2, WideRange
  <2> HIDE DEF w, x
  <2>5. (q * w + x) % w = x
    BY <2>1, <2>4, Remainder
  <2>6. x = n % w
    BY <2>3, <2>5
  <2> QED
    BY <2>6 DEF w, x
<1> QED
  BY <1>9 DEF l, h, low

\* srawi and addze divide by a power of two, towards zero.
LEMMA DividedTowardsZero ==
  ASSUME NEW a \in Word, NEW n \in 0 .. Width - 1
  PROVE  LET o == Arithmetic(a, n)
             v == Signed(a)
         IN Signed(Sum("addze", o.r, 0, o.ca).r)
              = IF v < 0 THEN -((-v) \div Power[n]) ELSE v \div Power[n]
<1> DEFINE o == Arithmetic(a, n)
           v == Signed(a)
           p == Power[n]
           q == v \div p
           w == v % p
           s == Sum("addze", o.r, 0, o.ca).r
<1>1. /\ "addze" \in Additive /\ "addze" \notin Complementing
      /\ "addze" \notin WithRegister \cup WithImmediate /\ "addze" \in WithCarry
  BY DEF Additive, Complementing, WithRegister, WithCarry, WithImmediate
<1>2. n \in Nat /\ Amount(n) = n /\ n \in 0 .. Width
  <2>1. n \in Nat /\ n \in 0 .. Most - 1 /\ 0 * Most + n = n /\ Most > 0
    BY Widths
  <2>2. (0 * Most + n) % Most = n
    BY <2>1, Remainder, Widths
  <2> QED
    BY <2>1, <2>2, Widths DEF Amount, Most
<1>3. o.r \in Word /\ Signed(o.r) = q /\ o.ca = (v < 0 /\ w # 0)
  BY <1>2, ArithmeticIs
<1>4. v \in Int /\ v >= -Half /\ v < Half
  BY WordIs
<1>5. p \in Nat /\ p >= 1
  BY <1>2, PowerDivides
<1>6. q \in Int /\ w \in 0 .. p - 1 /\ v = q * p + w
  <2> HIDE DEF v, p
  <2> QED
    BY <1>4, <1>5, Remainders
<1>7. q >= -Half /\ q < Half /\ (v < 0) = (q < 0)
  BY <1>4, <1>5, QuotientBounds, Halves
<1>8. o.ca \in BOOLEAN
  BY <1>3
<1> DEFINE c == Flag(o.ca)
<1>9. c = IF v < 0 /\ w # 0 THEN 1 ELSE 0
  BY <1>3 DEF Flag
<1>10. s = Wrap(q + c) /\ q + c \in Int
  <2>1. Exact("addze", Signed(o.r), Signed(0), -1, o.ca) = q + 0 + c
    BY <1>1, <1>3 DEF Exact
  <2>2. s = Wrap(Exact("addze", Signed(o.r), Signed(0), -1, o.ca))
    <3>1. 0 \in Word
      BY Halves DEF Word
    <3>2. SumExact("addze", o.r, 0, o.ca)
      <4> HIDE DEF o
      <4> QED
        BY <1>1, <1>3, <1>8, <3>1, SumIsExact
    <3> QED
      BY <3>2 DEF SumExact
  <2> HIDE DEF q, s, c, o
  <2>3. q + 0 + c = q + c /\ q + c \in Int
    BY <1>6, <1>9
  <2> QED
    BY <2>1, <2>2, <2>3
<1> HIDE DEF o, v, p, q, w, s, c
<1>11. Signed(s) = q + c
  <2>1. q + c >= -Half /\ q + c < Half
    BY <1>6, <1>7, <1>9, Halves
  <2> QED
    BY <1>10, <2>1, SignedWrap
<1>12. v < 0 => q + c = -((-v) \div p)
  <2> SUFFICES ASSUME v < 0 PROVE q + c = -((-v) \div p)
    OBVIOUS
  <2> DEFINE k == -(q + c)
             x == IF w = 0 THEN 0 ELSE p - w
  <2>1. k \in Int /\ x \in 0 .. p - 1 /\ -v = k * p + x
    <3>1. CASE w = 0
      <4>1. c = 0 /\ v = q * p
        BY <1>5, <1>6, <1>9, <3>1
      <4>2. -(q * p) = (-q) * p
        BY <1>5, <1>6
      <4> QED
        BY <1>5, <1>6, <3>1, <4>1, <4>2
    <3>2. CASE w # 0
      <4>1. c = 1
        BY <1>9, <3>2
      <4>2. (-(q + 1)) * p = -(q * p) - p /\ q * p \in Int
        BY <1>5, <1>6
      <4>3. -v = -(q * p) - p + (p - w)
        BY <1>5, <1>6, <4>2
      <4> QED
        BY <1>5, <1>6, <3>2, <4>1, <4>2, <4>3
    <3> QED
      BY <3>1, <3>2
  <2> HIDE DEF k, x
  <2>2. (k * p + x) \div p = k
    BY <1>5, <2>1, Remainder
  <2>3. (-v) \div p = -(q + c)
    BY <2>1, <2>2 DEF k
  <2> QED
    BY <1>10, <2>3
<1>13. ~ (v < 0) => q + c = v \div p
  BY <1>6, <1>9 DEF q
<1> QED
  BY <1>11, <1>12, <1>13 DEF s, o, v, p

\* subfe of a register from itself gives the borrow in every bit.
LEMMA BorrowMask ==
  ASSUME NEW x \in Word, NEW ca \in BOOLEAN
  PROVE  Sum("subfe", x, x, ca).r = IF ca THEN 0 ELSE Ones
<1>1. /\ "subfe" \in Additive /\ "subfe" \in Complementing
      /\ "subfe" \in WithRegister /\ "subfe" \in WithCarry
  BY DEF Additive, Complementing, WithRegister, WithCarry, WithImmediate
<1>2. x \in Int
  BY WordIs
<1>3. Exact("subfe", x, x, Ones, ca) = IF ca THEN 0 ELSE -1
  BY <1>1, <1>2 DEF Exact, Flag
<1> DEFINE u == IF ca THEN 0 ELSE -1
<1>4. Sum("subfe", x, x, ca).r
        = IF u < 0 THEN u + Modulus ELSE IF u < Modulus THEN u ELSE u - Modulus
  <2> HIDE DEF u
  <2> QED
    BY <1>1, <1>3, SumIs DEF u
<1> QED
  BY <1>4, Halves

\* The sequences of two words, of a division and of a borrow hold together.
LEMMA CarriesCorrect ==
  ASSUME A \in Word, B \in Word, Ca \in BOOLEAN
  PROVE  CarriesAgree
<1> DEFINE low == Sum("addc", A, B, Ca)
           negated == Sum("subfic", A, 0, Ca)
           borrow == Sum("subfc", B, A, Ca)
<1>1. Ones \in Word
  BY Halves DEF Word
<1>2. ASSUME NEW high \in {A, B, Ones}
      PROVE  /\ Sum("adde", high, B, low.ca).r * Modulus + low.r
                  = ((high * Modulus + A) + (B * Modulus + B)) % (Modulus * Modulus)
             /\ Sum("subfze", high, 0, negated.ca).r * Modulus + negated.r
                  = (-(high * Modulus + A)) % (Modulus * Modulus)
  <2>1. high \in Word
    BY <1>1
  <2> QED
    BY <2>1, WideSum, WideNegative
<1>3. ASSUME NEW n \in 0 .. Width - 1
      PROVE  LET o == Arithmetic(A, n)
             IN Signed(Sum("addze", o.r, 0, o.ca).r)
                  = IF Signed(A) < 0 THEN -((-Signed(A)) \div Power[n])
                    ELSE Signed(A) \div Power[n]
  BY DividedTowardsZero
<1>4. ASSUME NEW x \in {A, B}
      PROVE  Sum("subfe", x, x, borrow.ca).r = IF A < B THEN Ones ELSE 0
  <2>1. /\ "subfc" \in Additive /\ "subfc" \in Complementing /\ "subfc" \in Carrying
        /\ "subfc" \in WithRegister /\ "subfc" \notin WithCarry
    BY DEF Additive, Complementing, Carrying, WithRegister, WithCarry, WithImmediate
  <2>2. Exact("subfc", B, A, Ones, Ca) = A - B - 0
    BY <2>1 DEF Exact
  <2>3. borrow.ca \in BOOLEAN /\ (borrow.ca <=> A - B - 0 >= 0)
    <3> DEFINE u == A - B - 0
    <3>u. Exact("subfc", B, A, Ones, Ca) = u
      BY <2>2
    <3> HIDE DEF u
    <3>1. borrow.ca \in BOOLEAN /\ (borrow.ca <=> u >= 0)
      BY <2>1, <3>u, SumIs
    <3> QED
      BY <3>1 DEF u
  <2>4. A \in Int /\ B \in Int
    BY WordIs
  <2>5. A < B <=> ~ borrow.ca
    BY <2>3, <2>4
  <2> HIDE DEF borrow
  <2>6. Sum("subfe", x, x, borrow.ca).r = IF borrow.ca THEN 0 ELSE Ones
    BY <2>3, BorrowMask
  <2> QED
    BY <2>5, <2>6
<1> QED
  BY <1>2, <1>3, <1>4 DEF CarriesAgree

-----------------------------------------------------------------------------
(* Products and quotients *)

\* Multiples of a word disappear.
LEMMA WrapOff ==
  ASSUME NEW x \in Int, NEW k \in Int
  PROVE  Wrap(k * Modulus + x) = Wrap(x)
BY Multiples, Halves DEF Wrap

\* The product of two words and that of their signed readings have the same
\* low word, which is what it is in either reading.
LEMMA LowWord ==
  ASSUME NEW a \in Word, NEW b \in Word
  PROVE  Signed(a) * Signed(b) \in Int /\ Wrap(Signed(a) * Signed(b)) = Wrap(a * b)
<1> DEFINE m == Modulus
           x == Signed(a)
           y == Signed(b)
           e == IF x < 0 THEN 1 ELSE 0
           f == IF y < 0 THEN 1 ELSE 0
<1>1. m \in Nat /\ x \in Int /\ y \in Int /\ e \in Int /\ f \in Int
  BY Halves, WordIs
<1>2. a = e * m + x /\ b = f * m + y
  BY Halves, WordIs
<1> HIDE DEF m, x, y, e, f
<1>3. (e * m + x) * (f * m + y) = (e * (f * m) + e * y + f * x) * m + x * y
  <2>1. (e * m + x) * (f * m + y) = (e * m) * (f * m) + (e * m) * y + x * (f * m) + x * y
    BY <1>1
  <2>2. (e * m) * (f * m) = (e * (f * m)) * m /\ (e * m) * y = (e * y) * m
        /\ x * (f * m) = (f * x) * m
    BY <1>1
  <2>3. (e * (f * m) + e * y + f * x) * m = (e * (f * m)) * m + (e * y) * m + (f * x) * m
    <3>1. e * (f * m) \in Int /\ e * y \in Int /\ f * x \in Int
      BY <1>1
    <3> QED
      BY <1>1, <3>1
  <2> QED
    BY <2>1, <2>2, <2>3
<1>4. e * (f * m) + e * y + f * x \in Int /\ x * y \in Int
  BY <1>1
<1>5. Wrap(a * b) = Wrap(x * y)
  BY <1>2, <1>3, <1>4, WrapOff DEF m
<1> QED
  BY <1>4, <1>5 DEF x, y

\* What mullw, mulhw and mulhwu give.
LEMMA ProductIs ==
  ASSUME NEW a \in Word, NEW b \in Word
  PROVE  /\ Product("mullw", a, b).r = Wrap(Signed(a) * Signed(b))
         /\ Product("mullw", a, b).ov
              = (Signed(a) * Signed(b) # Signed(Wrap(Signed(a) * Signed(b))))
         /\ Product("mulhw", a, b).r = Wrap((Signed(a) * Signed(b)) \div Modulus)
         /\ Product("mulhwu", a, b).r = Wrap((a * b) \div Modulus)
BY DEF Product

\* The high and the low word make the signed and the unsigned product.
LEMMA HighAndLow ==
  ASSUME NEW a \in Word, NEW b \in Word
  PROVE  LET low == Product("mullw", a, b)
         IN /\ Signed(Product("mulhw", a, b).r) * Modulus + low.r = Signed(a) * Signed(b)
            /\ Product("mulhwu", a, b).r * Modulus + low.r = a * b
<1> DEFINE m == Modulus
           h == Half
           x == Signed(a)
           y == Signed(b)
           p == x * y
           q == p \div m
           l == p % m
           n == a * b
           s == n \div m
           t == n % m
<1>1. m \in Nat /\ m > 0 /\ m = 2 * h /\ h \in Nat /\ h >= 8
  BY Halves
<1>2. /\ x \in Int /\ x >= -h /\ x < h /\ y \in Int /\ y >= -h /\ y < h
      /\ a \in Int /\ a >= 0 /\ a < m /\ b \in Int /\ b >= 0 /\ b < m
  BY WordIs
<1>3. /\ Product("mullw", a, b).r = Wrap(p) /\ Product("mulhw", a, b).r = Wrap(q)
      /\ Product("mulhwu", a, b).r = Wrap(s)
  BY ProductIs
<1>4. p \in Int /\ n \in Int /\ Wrap(p) = Wrap(n)
  BY <1>2, LowWord
<1> HIDE DEF x, y
<1>5. p >= -(h * h) /\ p <= h * h
  <2>1. (h - x) * (h + y) >= 0 /\ (h + x) * (h - y) >= 0
        /\ (h - x) * (h - y) >= 0 /\ (h + x) * (h + y) >= 0
    <3>1. \A i \in Int, j \in Int : i >= 0 /\ j >= 0 => i * j >= 0
      OBVIOUS
    <3>2. h - x >= 0 /\ h + y >= 0 /\ h + x >= 0 /\ h - y >= 0
          /\ h - x \in Int /\ h + y \in Int /\ h + x \in Int /\ h - y \in Int
      BY <1>1, <1>2
    <3> QED
      BY <3>1, <3>2
  <2>2. /\ (h - x) * (h + y) = h * h + h * y - h * x - x * y
        /\ (h + x) * (h - y) = h * h - h * y + h * x - x * y
        /\ (h - x) * (h - y) = h * h - h * y - h * x + x * y
        /\ (h + x) * (h + y) = h * h + h * y + h * x + x * y
    BY <1>1, <1>2
  <2>3. h * h \in Int /\ h * y \in Int /\ h * x \in Int /\ x * y \in Int
    BY <1>1, <1>2
  <2> QED
    BY <2>1, <2>2, <2>3
<1> HIDE DEF m, h, p
<1>6. q \in Int /\ l \in 0 .. m - 1 /\ p = q * m + l
  BY <1>1, <1>4, Remainders
<1> HIDE DEF q, l
<1>7. q >= -h /\ q < h
  <2>1. h * h \in Int /\ h * h >= h /\ h * m = 2 * (h * h)
    BY <1>1, Z3
  <2>2. ~ (q >= h)
    <3> SUFFICES ASSUME q >= h PROVE FALSE
      OBVIOUS
    <3>1. q * m >= h * m
      BY <1>1, <1>6
    <3> QED
      BY <1>1, <1>5, <1>6, <2>1, <3>1
  <2>3. ~ (q < -h)
    <3> SUFFICES ASSUME q < -h PROVE FALSE
      OBVIOUS
    <3>1. (-q) * m >= (h + 1) * m
      BY <1>1, <1>6
    <3>2. (-q) * m = -(q * m) /\ (h + 1) * m = h * m + m /\ q * m \in Int
      BY <1>1, <1>6
    <3> QED
      BY <1>1, <1>4, <1>5, <1>6, <2>1, <3>1, <3>2
  <2> QED
    BY <1>1, <1>6, <2>2, <2>3
<1>8. Signed(Wrap(q)) = q
  BY <1>6, <1>7, SignedWrap DEF h
<1>9. Wrap(p) = l
  BY DEF Wrap, m, l
<1>10. n <= (m - 1) * (m - 1) /\ n >= 0
  <2>1. a * b <= (m - 1) * b
    BY <1>1, <1>2
  <2>2. (m - 1) * b <= (m - 1) * (m - 1)
    BY <1>1, <1>2
  <2>3. a * b >= 0
    BY <1>2
  <2>4. (m - 1) * b \in Int /\ (m - 1) * (m - 1) \in Int
    BY <1>1, <1>2
  <2> QED
    BY <1>4, <2>1, <2>2, <2>3, <2>4
<1> HIDE DEF n
<1>11. s \in Int /\ t \in 0 .. m - 1 /\ n = s * m + t
  BY <1>1, <1>4, Remainders
<1> HIDE DEF s, t
<1>12. s >= 0 /\ s < m
  <2>1. (m - 1) * (m - 1) = m * m - 2 * m + 1 /\ m * m \in Int
    BY <1>1
  <2>2. ~ (s >= m)
    <3> SUFFICES ASSUME s >= m PROVE FALSE
      OBVIOUS
    <3>1. s * m >= m * m
      BY <1>1, <1>11
    <3> QED
      BY <1>1, <1>10, <1>11, <2>1, <3>1
  <2>3. ~ (s < 0)
    <3> SUFFICES ASSUME s < 0 PROVE FALSE
      OBVIOUS
    <3>1. (-s) * m >= 1 * m
      BY <1>1, <1>11
    <3>2. (-s) * m = -(s * m) /\ s * m \in Int
      BY <1>1, <1>11
    <3> QED
      BY <1>1, <1>10, <1>11, <3>1, <3>2
  <2> QED
    BY <1>1, <1>11, <2>2, <2>3
<1>13. Wrap(s) = s
  BY <1>11, <1>12, WrapIs, Halves DEF Wrap, m
<1>14. Wrap(n) = t
  BY DEF Wrap, m, t
<1>15. l = t
  BY <1>4, <1>9, <1>14
<1>16. /\ Signed(Product("mulhw", a, b).r) * m + Product("mullw", a, b).r = p
       /\ Product("mulhwu", a, b).r * m + Product("mullw", a, b).r = n
  BY <1>3, <1>6, <1>8, <1>9, <1>11, <1>13, <1>15
<1> QED
  BY <1>16 DEF m, p, n, x, y

\* The amount of a number; divw divides the amounts of its operands.
Magnitude(n) == IF n < 0 THEN -n ELSE n

\* ABS of a word is the amount of its signed reading.
LEMMA AbsIs ==
  ASSUME NEW x \in Word
  PROVE  Abs(x) = Magnitude(Signed(x))
<1>1. /\ x \in Int /\ x >= 0 /\ x < Modulus /\ Signed(x) \in Int
      /\ Negative(x) = (Signed(x) < 0)
      /\ x = IF Signed(x) < 0 THEN Signed(x) + Modulus ELSE Signed(x)
  BY WordIs
<1>2. CASE Signed(x) < 0
  <2>1. Not(x) + 1 = -Signed(x) /\ -Signed(x) > 0 /\ -Signed(x) < Modulus
    <3>1. -Signed(x) = Modulus - x
      BY <1>1, <1>2, Halves
    <3>2. x > 0
      BY <1>1, <1>2, SignedIs, Halves
    <3> QED
      BY <1>1, <1>2, <3>1, <3>2, Halves DEF Not
  <2>2. Wrap(-Signed(x)) = -Signed(x)
    BY <1>1, <2>1, WrapIs, Halves DEF Wrap
  <2> QED
    BY <1>1, <1>2, <2>1, <2>2 DEF Abs, Magnitude
<1>3. CASE ~ (Signed(x) < 0)
  BY <1>1, <1>3 DEF Abs, Magnitude
<1> QED
  BY <1>2, <1>3

\* When a quotient does not exist.
LEMMA Overflows ==
  ASSUME NEW a \in Word, NEW b \in Word
  PROVE  /\ b = 0 <=> Signed(b) = 0
         /\ a = Modulus \div 2 <=> Signed(a) = -Half
         /\ b = Ones <=> Signed(b) = -1
<1>1. Modulus \div 2 = Half
  BY Halves
<1> QED
  BY <1>1, SignedIs, Halves

\* What is left of a division of the amounts, with the sign of the dividend.
LEMMA RestIs ==
  ASSUME NEW x \in Int, NEW y \in Int, y # 0
  PROVE  LET k == Magnitude(x) \div Magnitude(y)
             q == IF (x < 0) # (y < 0) THEN -k ELSE k
         IN /\ k \in Nat /\ k <= Magnitude(x)
            /\ Magnitude(y) >= 2 => k + k <= Magnitude(x)
            /\ q \in Int /\ q * y \in Int /\ x - q * y \in Int
            /\ Magnitude(x - q * y) < Magnitude(y)
            /\ x - q * y = 0 \/ (x - q * y < 0) = (x < 0)
<1> DEFINE m == Magnitude(x)
           n == Magnitude(y)
           k == m \div n
           w == m % n
           q == IF (x < 0) # (y < 0) THEN -k ELSE k
<1>1. m \in Nat /\ n \in Nat /\ n > 0 /\ (x = m \/ x = -m) /\ (y = n \/ y = -n)
      /\ (x < 0 => x = -m) /\ (~ (x < 0) => x = m)
      /\ (y < 0 => y = -n) /\ (~ (y < 0) => y = n)
  BY DEF Magnitude
<1> HIDE DEF m, n
<1>2. k \in Int /\ w \in 0 .. n - 1 /\ m = k * n + w
  BY <1>1, Remainders
<1> HIDE DEF k, w
<1>3. k >= 0
  <2> SUFFICES ASSUME k < 0 PROVE FALSE
    BY <1>2
  <2>1. (-k) * n >= 1 * n
    BY <1>1, <1>2
  <2>2. (-k) * n = -(k * n) /\ k * n \in Int
    BY <1>1, <1>2
  <2> QED
    BY <1>1, <1>2, <2>1, <2>2
<1>4. k <= m
  <2>1. k * n >= k * 1
    BY <1>1, <1>2, <1>3
  <2> QED
    BY <1>1, <1>2, <2>1
<1>5. n >= 2 => k + k <= m
  <2> SUFFICES ASSUME n >= 2 PROVE k + k <= m
    OBVIOUS
  <2>1. k * n >= k * 2
    BY <1>1, <1>2, <1>3
  <2> QED
    BY <1>1, <1>2, <2>1
<1>6. q \in Int /\ q * y = IF x < 0 THEN -(k * n) ELSE k * n
  <2>1. (-k) * n = -(k * n) /\ k * (-n) = -(k * n) /\ (-k) * (-n) = k * n
    BY <1>1, <1>2
  <2>2. CASE x < 0 /\ y < 0
    <3>1. q = k /\ y = -n
      BY <1>1, <2>2
    <3> QED
      BY <1>2, <2>1, <2>2, <3>1
  <2>3. CASE x < 0 /\ ~ (y < 0)
    <3>1. q = -k /\ y = n
      BY <1>1, <2>3
    <3> QED
      BY <1>2, <2>1, <2>3, <3>1
  <2>4. CASE ~ (x < 0) /\ y < 0
    <3>1. q = -k /\ y = -n
      BY <1>1, <2>4
    <3> QED
      BY <1>2, <2>1, <2>4, <3>1
  <2>5. CASE ~ (x < 0) /\ ~ (y < 0)
    <3>1. q = k /\ y = n
      BY <1>1, <2>5
    <3> QED
      BY <1>2, <2>5, <3>1
  <2> QED
    BY <2>2, <2>3, <2>4, <2>5
<1> HIDE DEF q
<1>7. k * n \in Int /\ q * y \in Int
  BY <1>1, <1>2, <1>6
<1>8. x - q * y = IF x < 0 THEN -w ELSE w
  BY <1>1, <1>2, <1>6, <1>7
<1> DEFINE r == x - q * y
<1>9. r \in Int /\ r = IF x < 0 THEN -w ELSE w
  BY <1>7, <1>8
<1> HIDE DEF r
<1>10. Magnitude(r) < n /\ (r = 0 \/ (r < 0) = (x < 0))
  BY <1>1, <1>2, <1>9 DEF Magnitude
<1> QED
  BY <1>2, <1>3, <1>4, <1>5, <1>6, <1>7, <1>9, <1>10 DEF m, n, k, q, r

\* No signed quotient is there when divw overflows.
LEMMA NoQuotient ==
  ASSUME NEW x \in Int, NEW y \in Int, y = 0 \/ (x = -Half /\ y = -1),
         NEW q \in Int, q < Half
  PROVE  ~ Divides(q, x, y)
<1> DEFINE r == x - q * y
<1>1. Divides(q, x, y) => Magnitude(r) < Magnitude(y)
  BY DEF Divides, Magnitude
<1>2. CASE y = 0
  <2>1. r \in Int
    <3>1. q * y = 0
      BY <1>2
    <3> QED
      BY <3>1
  <2> HIDE DEF r
  <2>2. Magnitude(y) = 0 /\ Magnitude(r) >= 0 /\ Magnitude(r) \in Int
    BY <1>2, <2>1 DEF Magnitude
  <2> QED
    BY <1>1, <2>2
<1>3. CASE x = -Half /\ y = -1
  <2>1. r = q - Half /\ r \in Int /\ r < 0
    <3>1. q * y = -q
      BY <1>3
    <3> QED
      BY <1>3, <3>1, Halves
  <2> HIDE DEF r
  <2>2. Magnitude(y) = 1
    <3>1. y < 0 /\ 0 - y = 1
      BY <1>3
    <3>2. Magnitude(y) = 0 - y
      BY <3>1 DEF Magnitude
    <3> QED
      BY <3>1, <3>2
  <2>3. Magnitude(r) >= 1 /\ Magnitude(r) \in Int
    BY <2>1 DEF Magnitude
  <2> QED
    BY <1>1, <2>2, <2>3
<1> QED
  BY <1>2, <1>3

\* divw: whether it overflows, and the quotient if it does not.
LEMMA SignedQuotient ==
  ASSUME NEW a \in Word, NEW b \in Word, NEW old \in Word
  PROVE  LET o == Quotient("divw", a, b, old)
             x == Signed(a)
             y == Signed(b)
         IN /\ o.ov \in BOOLEAN /\ (o.ov <=> y = 0 \/ (x = -Half /\ y = -1))
            /\ o.r \in Word
            /\ ~ o.ov => /\ Divides(Signed(o.r), x, y)
                         /\ x - Signed(o.r) * y \in Int
                         /\ x - Signed(o.r) * y > -Half /\ x - Signed(o.r) * y < Half
<1> DEFINE o == Quotient("divw", a, b, old)
           x == Signed(a)
           y == Signed(b)
           v == b = 0 \/ (a = Modulus \div 2 /\ b = Ones)
           k == Abs(a) \div Abs(b)
           neg == Negative(a) # Negative(b)
           z == IF v THEN old ELSE IF neg THEN Wrap(Not(k) + 1) ELSE k
<1>1. o.ov = v /\ o.r = z
  BY DEF Quotient
<1>2. v <=> y = 0 \/ (x = -Half /\ y = -1)
  BY Overflows
<1>3. o.ov \in BOOLEAN
  BY <1>1
<1>4. /\ x \in Int /\ x >= -Half /\ x < Half /\ y \in Int /\ y >= -Half /\ y < Half
      /\ Negative(a) = (x < 0) /\ Negative(b) = (y < 0)
      /\ Abs(a) = Magnitude(x) /\ Abs(b) = Magnitude(y)
  BY WordIs, AbsIs
<1> HIDE DEF x, y, v
<1>5. ASSUME ~ v
      PROVE  /\ z \in Word
             /\ Divides(Signed(z), x, y)
             /\ x - Signed(z) * y \in Int
             /\ x - Signed(z) * y > -Half /\ x - Signed(z) * y < Half
  <2> DEFINE q == IF (x < 0) # (y < 0) THEN -k ELSE k
  <2>1. y # 0
    BY <1>2, <1>5
  <2>2. /\ k \in Nat /\ k <= Magnitude(x) /\ (Magnitude(y) >= 2 => k + k <= Magnitude(x))
        /\ q \in Int /\ q * y \in Int /\ x - q * y \in Int
        /\ Magnitude(x - q * y) < Magnitude(y)
        /\ x - q * y = 0 \/ (x - q * y < 0) = (x < 0)
    <3>1. k = Magnitude(x) \div Magnitude(y)
      BY <1>4
    <3> HIDE DEF k
    <3> QED
      BY <1>4, <2>1, <3>1, RestIs
  <2>3. z = IF (x < 0) # (y < 0) THEN Wrap(Not(k) + 1) ELSE k
    BY <1>4, <1>5
  <2> HIDE DEF k, z, q
  <2>4. k <= Half /\ (k = Half => x = -Half /\ (y = 1 \/ y = -1))
    BY <1>4, <2>1, <2>2, Halves DEF Magnitude
  <2>5. q >= -Half /\ q < Half
    BY <1>2, <1>4, <1>5, <2>2, <2>4, Halves DEF q
  <2>6. z = Wrap(q)
    <3>1. CASE (x < 0) # (y < 0)
      <4>1. Not(k) + 1 = 1 * Modulus + q
        BY <2>2, <3>1, Halves DEF Not, q
      <4>2. Wrap(1 * Modulus + q) = Wrap(q)
        BY <2>2, WrapOff
      <4> QED
        BY <2>3, <3>1, <4>1, <4>2
    <3>2. CASE ~ ((x < 0) # (y < 0))
      <4>1. z = q
        BY <2>3, <3>2 DEF q
      <4>2. q >= 0 /\ q < Modulus
        BY <2>2, <2>5, <3>2, Halves DEF q
      <4>3. Wrap(q) = q
        BY <2>2, <4>2, WrapIs, Halves DEF Wrap
      <4> QED
        BY <4>1, <4>3
    <3> QED
      BY <3>1, <3>2
  <2>7. z \in Word /\ Signed(z) = q
    BY <2>2, <2>5, <2>6, SignedWrap
  <2> DEFINE r == x - q * y
  <2>8. r \in Int /\ Magnitude(r) < Magnitude(y) /\ (r = 0 \/ (r < 0) = (x < 0))
    BY <2>2
  <2>9. Divides(q, x, y)
    BY <2>8 DEF Divides, Magnitude
  <2> HIDE DEF r
  <2>10. r > -Half /\ r < Half
    BY <1>4, <2>8, Halves DEF Magnitude
  <2> QED
    BY <2>7, <2>8, <2>9, <2>10 DEF r
<1>6. v => z = old
  OBVIOUS
<1> HIDE DEF z, o
<1>7. /\ o.r \in Word
      /\ ~ o.ov => /\ Divides(Signed(o.r), x, y)
                   /\ x - Signed(o.r) * y \in Int
                   /\ x - Signed(o.r) * y > -Half /\ x - Signed(o.r) * y < Half
  BY <1>1, <1>3, <1>5, <1>6
<1>8. o.ov \in BOOLEAN /\ (o.ov <=> y = 0 \/ (x = -Half /\ y = -1))
  BY <1>1, <1>2, <1>3
<1> QED
  BY <1>7, <1>8 DEF o, x, y

\* subf from a word of the low word of a number takes that number away.
LEMMA SubtractedLow ==
  ASSUME NEW a \in Word, NEW p \in Int, NEW ca \in BOOLEAN
  PROVE  Sum("subf", Wrap(p), a, ca).r = Wrap(Signed(a) - p)
<1> DEFINE w == Wrap(p)
           x == Signed(a)
           y == Signed(w)
           q == p \div Modulus
<1>1. /\ "subf" \in Additive /\ "subf" \in Complementing
      /\ "subf" \in WithRegister /\ "subf" \notin WithCarry
  BY DEF Additive, Complementing, WithRegister, WithCarry, WithImmediate
<1>2. w \in Word /\ q \in Int /\ p = q * Modulus + w
  BY SignedWrap, Remainders, Halves DEF Wrap
<1>3. x \in Int /\ y \in Int /\ w = IF y < 0 THEN y + Modulus ELSE y
  BY <1>2, WordIs
<1>4. Sum("subf", w, a, ca).r = Wrap(x - y)
  <2>1. Exact("subf", y, x, -1, ca) = x - y - 0
    BY <1>1 DEF Exact
  <2>2. Sum("subf", w, a, ca).r = Wrap(Exact("subf", y, x, -1, ca))
    <3>1. SumExact("subf", w, a, ca)
      BY <1>1, <1>2, SumIsExact
    <3> QED
      BY <3>1 DEF SumExact
  <2>3. x - y - 0 = x - y
    BY <1>3
  <2> QED
    BY <2>1, <2>2, <2>3
<1> HIDE DEF w, x, y, q
<1>5. \E k \in Int : x - y = k * Modulus + (x - p)
  <2>1. CASE y < 0
    <3>1. (q + 1) * Modulus = q * Modulus + Modulus /\ q * Modulus \in Int
      BY <1>2, Halves
    <3>2. x - y = (q + 1) * Modulus + (x - p)
      BY <1>2, <1>3, <2>1, <3>1, Halves
    <3> QED
      BY <1>2, <3>2
  <2>2. CASE ~ (y < 0)
    <3>1. q * Modulus \in Int
      BY <1>2, Halves
    <3>2. x - y = q * Modulus + (x - p)
      BY <1>2, <1>3, <2>2, <3>1, Halves
    <3> QED
      BY <1>2, <3>2
  <2> QED
    BY <2>1, <2>2
<1>6. x - p \in Int
  BY <1>3
<1>7. Wrap(x - y) = Wrap(x - p)
  BY <1>5, <1>6, WrapOff
<1> QED
  BY <1>4, <1>7 DEF w, x

\* A word less a number that fits under it.
LEMMA UnsignedRest ==
  ASSUME NEW a \in Word, NEW p \in Int, NEW ca \in BOOLEAN, a - p >= 0, a - p < Modulus
  PROVE  Sum("subf", Wrap(p), a, ca).r = a - p
<1> DEFINE x == Signed(a)
<1>1. a \in Int /\ x \in Int /\ (x = a \/ x = a - Modulus)
  BY WordIs, Halves
<1>2. Sum("subf", Wrap(p), a, ca).r = Wrap(x - p)
  BY SubtractedLow
<1> HIDE DEF x
<1>3. Wrap(a - p) = a - p
  BY <1>1, WrapIs, Halves DEF Wrap
<1>4. Wrap(x - p) = Wrap(a - p)
  <2>1. a - p \in Int /\ x - p \in Int
    BY <1>1
  <2>2. Wrap((-1) * Modulus + (a - p)) = Wrap(a - p)
    BY <2>1, WrapOff
  <2>3. x - p = a - p \/ x - p = (-1) * Modulus + (a - p)
    BY <1>1, Halves
  <2> QED
    BY <2>2, <2>3
<1> QED
  BY <1>2, <1>3, <1>4

\* Products and quotients of words, and what a quotient leaves.
LEMMA ProductsCorrect ==
  ASSUME A \in Word, B \in Word, Ca \in BOOLEAN
  PROVE  ProductsExact
<1> DEFINE low == Product("mullw", A, B)
           q == Quotient("divw", A, B, A)
           qu == Quotient("divwu", A, B, A)
           x == Signed(A)
           y == Signed(B)
           Rest(quotient) == Sum("subf", Product("mullw", quotient, B).r, A, Ca).r
<1>0. /\ x \in Int /\ x >= -Half /\ x < Half /\ y \in Int /\ y >= -Half /\ y < Half
      /\ A \in Int /\ A >= 0 /\ A < Modulus /\ B \in Int /\ B >= 0 /\ B < Modulus
  BY WordIs
<1>1. /\ Signed(Product("mulhw", A, B).r) * Modulus + low.r = x * y
      /\ Product("mulhwu", A, B).r * Modulus + low.r = A * B
  BY HighAndLow
<1>2. low.ov = (Signed(low.r) # x * y)
  BY ProductIs
<1>3. /\ q.ov \in BOOLEAN /\ (q.ov <=> y = 0 \/ (x = -Half /\ y = -1))
      /\ q.r \in Word
      /\ ~ q.ov => /\ Divides(Signed(q.r), x, y)
                   /\ x - Signed(q.r) * y \in Int
                   /\ x - Signed(q.r) * y > -Half /\ x - Signed(q.r) * y < Half
  BY SignedQuotient
<1>4. q.ov = ~ \E n \in Word : Divides(Signed(n), x, y)
  <2>1. ASSUME q.ov, NEW n \in Word PROVE ~ Divides(Signed(n), x, y)
    <3>1. Signed(n) \in Int /\ Signed(n) < Half
      BY WordIs
    <3> QED
      BY <1>0, <1>3, <2>1, <3>1, NoQuotient
  <2>2. ASSUME ~ q.ov PROVE \E n \in Word : Divides(Signed(n), x, y)
    BY <1>3, <2>2
  <2> HIDE DEF q
  <2> QED
    BY <1>3, <2>1, <2>2
<1>5. ASSUME ~ q.ov PROVE Signed(Rest(q.r)) = x - Signed(q.r) * y
  <2> DEFINE p == Signed(q.r) * y
  <2>1. p \in Int /\ Product("mullw", q.r, B).r = Wrap(p)
    BY <1>3, LowWord, ProductIs
  <2>2. Rest(q.r) = Wrap(x - p)
    BY <2>1, SubtractedLow
  <2>3. x - p \in Int /\ x - p > -Half /\ x - p < Half
    BY <1>3, <1>5
  <2> HIDE DEF p, q, Rest
  <2>4. Signed(Wrap(x - p)) = x - p
    <3>1. x - p >= -Half
      BY <2>3, Halves
    <3> QED
      BY <2>3, <3>1, SignedWrap
  <2> QED
    BY <2>2, <2>4 DEF p
<1>6. qu.ov = (B = 0) /\ (B # 0 => qu.r = A \div B)
  BY DEF Quotient
<1>7. ASSUME B # 0 PROVE Divides(qu.r, A, B) /\ Rest(qu.r) = A % B
  <2> DEFINE k == A \div B
             w == A % B
  <2>1. k \in Int /\ w \in 0 .. B - 1 /\ A = k * B + w
    BY <1>0, <1>7, Remainders
  <2> HIDE DEF k, w
  <2>2. k >= 0 /\ k <= A
    <3>1. ~ (k < 0)
      <4> SUFFICES ASSUME k < 0 PROVE FALSE
        OBVIOUS
      <4>1. (-k) * B >= 1 * B
        BY <1>0, <2>1
      <4>2. (-k) * B = -(k * B) /\ k * B \in Int
        BY <1>0, <2>1
      <4> QED
        BY <1>0, <2>1, <4>1, <4>2
    <3>2. k * B >= k * 1
      BY <1>0, <1>7, <2>1, <3>1
    <3> QED
      BY <1>0, <2>1, <3>1, <3>2
  <2>3. k \in Word
    BY <1>0, <2>1, <2>2, Halves DEF Word
  <2>4. k * B \in Int /\ A - k * B = w
    BY <1>0, <2>1
  <2>5. Divides(k, A, B)
    <3> DEFINE r == A - k * B
    <3>1. r \in Int /\ r >= 0 /\ r < B
      BY <1>0, <2>1, <2>4
    <3>2. Divides(k, A, B) <=>
            (IF r < 0 THEN -r ELSE r) < (IF B < 0 THEN -B ELSE B)
              /\ (r = 0 \/ (r < 0) = (A < 0))
      BY DEF Divides
    <3> HIDE DEF r
    <3> QED
      BY <1>0, <3>1, <3>2
  <2>6. Product("mullw", k, B).r = Wrap(k * B)
    BY <2>3, LowWord, ProductIs
  <2>7. Rest(k) = A - k * B
    <3>1. A - k * B >= 0 /\ A - k * B < Modulus
      BY <1>0, <2>1, <2>4, Halves
    <3> QED
      BY <2>4, <2>6, <3>1, UnsignedRest
  <2>8. Rest(k) = w
    BY <2>4, <2>7
  <2>9. qu.r = k
    BY <1>6, <1>7 DEF k
  <2> QED
    BY <2>5, <2>8, <2>9 DEF w
<1>8. ~ qu.ov <=> B # 0
  BY <1>6
<1> QED
  BY <1>1, <1>2, <1>3, <1>4, <1>5, <1>6, <1>7, <1>8 DEF ProductsExact

-----------------------------------------------------------------------------
(* The bits of a word *)

\* Bit k of a number, the least significant first.
BitOf(x, k) == (x \div Power[k]) % 2

\* Bits from s on of a number are those of its quotient.
LEMMA CutHigh ==
  ASSUME NEW s \in Nat, NEW k \in Nat, s + k <= Most, NEW q \in Nat,
         NEW r \in 0 .. Power[s] - 1
  PROVE  (q * Power[s] + r) \div Power[s + k] = q \div Power[k]
<1> DEFINE a == Power[s]
           b == Power[k]
           h == q \div b
           l == q % b
<1>1. a \in Nat /\ a >= 1 /\ b \in Nat /\ b >= 1 /\ Power[s + k] = a * b /\ r \in Nat /\ r < a
  BY PowerNat, PowerSum, Widths
<1> HIDE DEF a, b
<1>2. h \in Int /\ l \in 0 .. b - 1 /\ q = h * b + l
  BY <1>1, Remainders
<1> HIDE DEF h, l
<1>3. q * a + r = h * (a * b) + (l * a + r)
  <2>1. (h * b + l) * a = h * (a * b) + l * a
    BY <1>1, <1>2
  <2>2. h * (a * b) \in Int /\ l * a \in Int
    BY <1>1, <1>2
  <2> QED
    BY <1>1, <1>2, <2>1, <2>2
<1>4. l * a + r \in 0 .. a * b - 1
  <2>1. (l + 1) * a <= b * a
    BY <1>1, <1>2
  <2>2. (l + 1) * a = l * a + a /\ b * a = a * b /\ l * a \in Nat /\ a * b \in Nat
    BY <1>1, <1>2
  <2> QED
    BY <1>1, <2>1, <2>2
<1>5. a * b \in Nat /\ a * b > 0
  BY <1>1
<1>6. (h * (a * b) + (l * a + r)) \div (a * b) = h
  <2> DEFINE n == a * b
             x == l * a + r
  <2> HIDE DEF n, x
  <2>1. n \in Nat /\ n > 0 /\ x \in 0 .. n - 1
    BY <1>4, <1>5 DEF n, x
  <2>2. (h * n + x) \div n = h
    BY <1>2, <2>1, Remainder
  <2> QED
    BY <2>2 DEF n, x
<1> QED
  BY <1>1, <1>3, <1>6 DEF a, b, h

\* Bits below s of a number are those of its remainder.
LEMMA CutLow ==
  ASSUME NEW s \in Nat, NEW k \in Nat, k < s, s <= Most, NEW q \in Nat,
         NEW r \in 0 .. Power[s] - 1
  PROVE  BitOf(q * Power[s] + r, k) = BitOf(r, k)
<1> DEFINE a == Power[k]
           b == Power[s - k - 1]
           h == r \div a
           l == r % a
<1>1. a \in Nat /\ a >= 1 /\ b \in Nat /\ b >= 1 /\ Power[s] = 2 * (b * a) /\ r \in Nat
  <2>1. s - k - 1 \in Nat /\ (s - k - 1) + k = s - 1 /\ s - 1 <= Most /\ s \in 1 .. Most
    BY Widths
  <2>2. Power[s - 1] = b * a /\ Power[s] = 2 * Power[s - 1]
    BY <2>1, PowerStep, PowerSum
  <2>3. b \in Nat /\ b >= 1 /\ a \in Nat /\ a >= 1 /\ Power[s] \in Nat
    BY <2>1, PowerNat, Widths
  <2> QED
    BY <2>2, <2>3
<1> HIDE DEF a, b
<1>2. h \in Int /\ l \in 0 .. a - 1 /\ r = h * a + l
  BY <1>1, Remainders
<1> HIDE DEF h, l
<1>3. q * Power[s] + r = (2 * (q * b) + h) * a + l
  <2>1. q * (2 * (b * a)) = (2 * (q * b)) * a
    BY <1>1
  <2>2. (2 * (q * b) + h) * a = (2 * (q * b)) * a + h * a
    <3>1. 2 * (q * b) \in Int
      BY <1>1
    <3> QED
      BY <1>1, <1>2, <3>1
  <2>3. (2 * (q * b)) * a \in Int /\ h * a \in Int
    BY <1>1, <1>2
  <2> QED
    BY <1>1, <1>2, <2>1, <2>2, <2>3
<1>4. ((2 * (q * b) + h) * a + l) \div a = 2 * (q * b) + h
  <2>1. 2 * (q * b) + h \in Int
    BY <1>1, <1>2
  <2> QED
    BY <1>1, <1>2, <2>1, Remainder
<1>5. (2 * (q * b) + h) % 2 = h % 2
  <2> DEFINE z == q * b
  <2>1. z \in Int
    BY <1>1
  <2> HIDE DEF z
  <2>2. (2 * z + h) % 2 = h % 2
    BY <1>2, <2>1
  <2> QED
    BY <2>2 DEF z
<1> QED
  BY <1>3, <1>4, <1>5 DEF BitOf, a, h

\* The bits of a number that is put together from two.
LEMMA BitsJoined ==
  ASSUME NEW s \in Nat, s <= Most, NEW q \in Nat, NEW r \in 0 .. Power[s] - 1,
         NEW k \in 0 .. Most
  PROVE  BitOf(q * Power[s] + r, k) = IF k < s THEN BitOf(r, k) ELSE BitOf(q, k - s)
<1>1. CASE k < s
  BY <1>1, CutLow, Widths
<1>2. CASE ~ (k < s)
  <2>1. k - s \in Nat /\ s + (k - s) = k /\ k <= Most
    BY <1>2, Widths
  <2>2. (q * Power[s] + r) \div Power[k] = q \div Power[k - s]
    BY <2>1, CutHigh
  <2> QED
    BY <1>2, <2>2 DEF BitOf
<1> QED
  BY <1>1, <1>2

\* A bit is 0 or 1, and 0 from the width of the number on.
LEMMA BitType ==
  ASSUME NEW x \in Nat, NEW k \in 0 .. Most
  PROVE  /\ BitOf(x, k) \in {0, 1}
         /\ \A w \in 0 .. k : x < Power[w] => BitOf(x, k) = 0
<1>1. Power[k] \in Nat /\ Power[k] >= 1
  BY PowerNat
<1>2. BitOf(x, k) \in {0, 1}
  <2>1. x \div Power[k] \in Int
    BY <1>1
  <2> HIDE DEF Power
  <2> QED
    BY <2>1 DEF BitOf
<1>3. ASSUME NEW w \in 0 .. k, x < Power[w] PROVE BitOf(x, k) = 0
  <2>1. w \in Nat /\ k - w \in Nat /\ w + (k - w) = k /\ k <= Most /\ w \in 0 .. Most
    BY Widths
  <2>2. x \in 0 .. Power[w] - 1 /\ Power[k - w] \in Nat /\ Power[k - w] >= 1
    BY <1>3, <2>1, PowerNat, Widths
  <2>3. (0 * Power[w] + x) \div Power[w + (k - w)] = 0 \div Power[k - w]
    BY <2>1, <2>2, CutHigh
  <2>4. 0 * Power[w] + x = x /\ 0 \div Power[k - w] = 0
    BY <2>1, <2>2, PowerNat
  <2> QED
    BY <2>1, <2>3, <2>4 DEF BitOf
<1> QED
  BY <1>2, <1>3

\* A number below power n joined to one below power m.
LEMMA JoinedBelow ==
  ASSUME NEW m \in Nat, NEW n \in Nat, m + n <= Most, NEW q \in 0 .. Power[m] - 1,
         NEW r \in 0 .. Power[n] - 1
  PROVE  q * Power[n] + r \in 0 .. Power[m + n] - 1
<1> DEFINE a == Power[m]
           b == Power[n]
<1>1. a \in Nat /\ b \in Nat /\ b >= 1 /\ Power[m + n] = a * b
  BY PowerNat, PowerSum, Widths
<1> HIDE DEF a, b
<1>2. q \in Nat /\ q < a /\ r \in Nat /\ r < b
  BY <1>1 DEF a, b
<1>3. (q + 1) * b <= a * b
  BY <1>1, <1>2
<1>4. (q + 1) * b = q * b + b /\ q * b \in Nat /\ a * b \in Nat
  BY <1>1, <1>2
<1>5. q * b + r \in 0 .. a * b - 1
  BY <1>1, <1>2, <1>3, <1>4
<1> QED
  BY <1>1, <1>5 DEF b

\* Every set of places is that of the ones of a number.
LEMMA BitsExist ==
  ASSUME NEW n \in 0 .. Width
  PROVE  \A S \in SUBSET (0 .. n - 1) :
           \E x \in 0 .. Power[n] - 1 : \A k \in 0 .. n - 1 : BitOf(x, k) = 1 <=> k \in S
<1> DEFINE Shown(m) == \A S \in SUBSET (0 .. m - 1) :
             \E x \in 0 .. Power[m] - 1 : \A k \in 0 .. m - 1 : BitOf(x, k) = 1 <=> k \in S
           T == {m \in Nat : m <= Width => Shown(m)}
<1>1. 0 \in T
  <2>1. Shown(0)
    <3> SUFFICES ASSUME NEW S \in SUBSET (0 .. 0 - 1)
                 PROVE  \E x \in 0 .. Power[0] - 1 :
                          \A k \in 0 .. 0 - 1 : BitOf(x, k) = 1 <=> k \in S
      OBVIOUS
    <3>1. 0 \in 0 .. Power[0] - 1 /\ 0 .. 0 - 1 = {}
      BY PowerStep
    <3> QED
      BY <3>1
  <2> HIDE DEF Shown
  <2> QED
    BY <2>1
<1>2. ASSUME NEW m \in Nat, m \in T PROVE m + 1 \in T
  <2> SUFFICES ASSUME m + 1 <= Width PROVE Shown(m + 1)
    <3> HIDE DEF Shown
    <3> QED
      OBVIOUS
  <2>1. Shown(m)
    <3> HIDE DEF Shown
    <3> QED
      BY <1>2, Widths
  <2>2. SUFFICES ASSUME NEW S \in SUBSET (0 .. m)
                 PROVE  \E x \in 0 .. Power[m + 1] - 1 :
                          \A k \in 0 .. m : BitOf(x, k) = 1 <=> k \in S
    <3>1. m + 1 - 1 = m
      OBVIOUS
    <3> QED
      BY <2>2, <3>1
  <2>3. S \ {m} \in SUBSET (0 .. m - 1)
    OBVIOUS
  <2>4. PICK y \in 0 .. Power[m] - 1 :
          \A k \in 0 .. m - 1 : BitOf(y, k) = 1 <=> k \in S \ {m}
    BY <2>1, <2>3
  <2> DEFINE b == IF m \in S THEN 1 ELSE 0
             x == b * Power[m] + y
  <2>5. m <= Most /\ 1 + m <= Most /\ m + 1 = 1 + m /\ m \in 0 .. Most
    BY Widths
  <2>6. b \in 0 .. Power[1] - 1 /\ b \in Nat /\ (b = 1 <=> m \in S) /\ b \in {0, 1}
    BY Widths, PowerStep
  <2> HIDE DEF b
  <2>7. x \in 0 .. Power[m + 1] - 1
    BY <2>5, <2>6, JoinedBelow
  <2>8. ASSUME NEW k \in 0 .. m PROVE BitOf(x, k) = 1 <=> k \in S
    <3>1. k \in 0 .. Most
      BY <2>5, Widths
    <3>2. BitOf(x, k) = IF k < m THEN BitOf(y, k) ELSE BitOf(b, k - m)
      BY <2>5, <2>6, <3>1, BitsJoined
    <3>3. CASE k < m
      BY <2>4, <3>2, <3>3
    <3>4. CASE k = m
      <4>1. BitOf(b, 0) = b
        BY <2>6, PowerStep DEF BitOf
      <4>2. k - m = 0 /\ ~ (k < m)
        BY <3>4
      <4> HIDE DEF x
      <4>3. BitOf(x, k) = b
        BY <3>2, <4>1, <4>2
      <4> QED
        BY <2>6, <3>4, <4>3
    <3> QED
      BY <3>3, <3>4
  <2> HIDE DEF x
  <2> QED
    BY <2>7, <2>8
<1>3. n \in T
  <2> HIDE DEF T
  <2>1. n \in Nat
    BY Widths
  <2> QED
    BY <1>1, <1>2, <2>1, SetInduction
<1>4. Shown(n)
  <2> HIDE DEF Shown
  <2> QED
    BY <1>3, Widths
<1> QED
  BY <1>4

\* The tables: the places of the ones of a word, and the word of a set of places.
LEMMA BitsTable ==
  ASSUME NEW x \in Word
  PROVE  /\ Bits[x] \in SUBSET (0 .. Width - 1)
         /\ \A i \in 0 .. Width - 1 : i \in Bits[x] <=> BitOf(x, i) = 1
         /\ \A i \in 0 .. Width - 1 : BitOf(x, i) \in {0, 1}
<1>1. \A i \in 0 .. Width - 1 : i \in 0 .. Most
  BY Widths
<1>2. x \in Nat
  BY Halves DEF Word
<1> QED
  BY <1>1, <1>2, BitType DEF Bits, BitOf

\* Num gives the word with the given bits.
LEMMA NumTable ==
  ASSUME NEW S \in SUBSET (0 .. Width - 1)
  PROVE  Num[S] \in Word /\ Bits[Num[S]] = S
<1>1. PICK x \in 0 .. Power[Width] - 1 :
        \A k \in 0 .. Width - 1 : BitOf(x, k) = 1 <=> k \in S
  BY BitsExist, Widths
<1>2. x \in Word
  BY DEF Word, Modulus
<1>3. Bits[x] = S
  BY <1>1, <1>2, BitsTable
<1>4. Num[S] = CHOOSE y \in Word : Bits[y] = S
  BY DEF Num
<1> QED
  BY <1>2, <1>3, <1>4

\* The logical instructions give words, and of the three that the rotates
\* are made of, these are the bits.
LEMMA LogicIs ==
  ASSUME NEW a \in Word, NEW b \in Word
  PROVE  /\ \A op \in LogicOps : Logic(op, a, b) \in Word
         /\ Bits[Logic("or", a, b)] = Bits[a] \cup Bits[b]
         /\ Bits[Logic("and", a, b)] = Bits[a] \cap Bits[b]
         /\ Bits[Logic("andc", a, b)] = Bits[a] \ Bits[b]
<1> DEFINE x == Bits[a]
           y == Bits[b]
           all == 0 .. Width - 1
<1>1. x \in SUBSET all /\ y \in SUBSET all
  BY BitsTable
<1>2. /\ Logic("xor", a, b) = Num[(x \cup y) \ (x \cap y)]
      /\ Logic("or", a, b) = Num[x \cup y]
      /\ Logic("orc", a, b) = Num[x \cup (all \ y)]
      /\ Logic("and", a, b) = Num[x \cap y]
      /\ Logic("andc", a, b) = Num[x \ y]
      /\ Logic("nand", a, b) = Num[all \ (x \cap y)]
      /\ Logic("nor", a, b) = Num[all \ (x \cup y)]
      /\ Logic("eqv", a, b) = Num[all \ ((x \cup y) \ (x \cap y))]
  BY DEF Logic
<1> HIDE DEF x, y, all
<1>3. /\ (x \cup y) \ (x \cap y) \in SUBSET all /\ x \cup y \in SUBSET all
      /\ x \cup (all \ y) \in SUBSET all /\ x \cap y \in SUBSET all
      /\ x \ y \in SUBSET all /\ all \ (x \cap y) \in SUBSET all
      /\ all \ (x \cup y) \in SUBSET all
      /\ all \ ((x \cup y) \ (x \cap y)) \in SUBSET all
  BY <1>1
<1>4. \A S \in SUBSET all : Num[S] \in Word /\ Bits[Num[S]] = S
  BY NumTable DEF all
<1>5. \A op \in LogicOps : Logic(op, a, b) \in Word
  BY <1>2, <1>3, <1>4 DEF LogicOps
<1>6. /\ Bits[Logic("or", a, b)] = x \cup y
      /\ Bits[Logic("and", a, b)] = x \cap y
      /\ Bits[Logic("andc", a, b)] = x \ y
  BY <1>2, <1>3, <1>4
<1> QED
  BY <1>5, <1>6 DEF x, y

-----------------------------------------------------------------------------
(* Shifts and rotates *)

\* A shift to the left moves the bits up and fills with zeros.
LEMMA LeftBits ==
  ASSUME NEW x \in Word, NEW n \in 0 .. Width - 1
  PROVE  /\ Left(x, n) \in Word
         /\ \A i \in 0 .. Width - 1 :
              BitOf(Left(x, n), i) = IF i < n THEN 0 ELSE BitOf(x, i - n)
<1> DEFINE p == Power[n]
           d == Power[Width - n]
           q == x \div d
           r == x % d
<1>1. n \in 0 .. Width /\ n \in Nat /\ n <= Most /\ Width - n \in Nat /\ Width - n <= Most
  BY Widths
<1>2. p \in Nat /\ p >= 1 /\ d \in Nat /\ d >= 1 /\ Modulus = d * p
  BY <1>1, PowerDivides
<1>3. x \in Int /\ x >= 0
  BY WordIs
<1> HIDE DEF p, d
<1>4. q \in Int /\ r \in 0 .. d - 1 /\ x = q * d + r
  BY <1>2, <1>3, Remainders
<1>5. q >= 0
  <2> HIDE DEF q, r
  <2> SUFFICES ASSUME q < 0 PROVE FALSE
    BY <1>4
  <2>1. (-q) * d >= 1 * d
    BY <1>2, <1>4
  <2>2. (-q) * d = -(q * d) /\ q * d \in Int
    BY <1>2, <1>4
  <2> QED
    BY <1>2, <1>3, <1>4, <2>1, <2>2
<1> HIDE DEF q, r
<1>6. Left(x, n) = r * p
  <2>1. x * p = q * Modulus + r * p
    <3>1. (q * d + r) * p = q * (d * p) + r * p
      BY <1>2, <1>4
    <3> QED
      BY <1>2, <1>4, <3>1
  <2>2. r * p \in 0 .. Modulus - 1
    <3>1. (r + 1) * p <= d * p
      BY <1>2, <1>4
    <3>2. (r + 1) * p = r * p + p /\ r * p \in Nat
      BY <1>2, <1>4
    <3> QED
      BY <1>2, <3>1, <3>2, Halves
  <2>3. (q * Modulus + r * p) % Modulus = r * p
    BY <1>4, <2>2, Remainder, Halves
  <2> QED
    BY <2>1, <2>3 DEF Left, Wrap, p
<1>7. Left(x, n) \in Word
  <2>1. x * p \in Int
    BY <1>2, <1>3
  <2> QED
    BY <2>1, SignedWrap DEF Left, p
<1>8. ASSUME NEW i \in 0 .. Width - 1
      PROVE  BitOf(r * p, i) = IF i < n THEN 0 ELSE BitOf(x, i - n)
  <2>1. i \in 0 .. Most /\ i \in Nat
    BY Widths
  <2>2. BitOf(r * p, i) = IF i < n THEN BitOf(0, i) ELSE BitOf(r, i - n)
    <3>1. 0 \in 0 .. p - 1 /\ r \in Nat /\ r * p + 0 = r * p
      BY <1>2, <1>4
    <3>2. BitOf(r * p + 0, i) = IF i < n THEN BitOf(0, i) ELSE BitOf(r, i - n)
      BY <1>1, <2>1, <3>1, BitsJoined DEF p
    <3> QED
      BY <3>1, <3>2
  <2>3. BitOf(0, i) = 0
    <3>1. Power[i] \in Nat /\ Power[i] >= 1
      BY <2>1, PowerNat
    <3>2. 0 \div Power[i] = 0
      BY <3>1
    <3> QED
      BY <3>2 DEF BitOf
  <2>4. ~ (i < n) => BitOf(x, i - n) = BitOf(r, i - n)
    <3> SUFFICES ASSUME ~ (i < n) PROVE BitOf(x, i - n) = BitOf(r, i - n)
      OBVIOUS
    <3>1. i - n \in 0 .. Most /\ i - n < Width - n
      BY <1>1, <2>1, Widths
    <3>2. q \in Nat
      BY <1>4, <1>5
    <3>3. BitOf(q * d + r, i - n) = BitOf(r, i - n)
      BY <1>1, <1>4, <3>1, <3>2, BitsJoined DEF d
    <3> QED
      BY <1>4, <3>3
  <2> QED
    BY <2>2, <2>3, <2>4
<1> QED
  BY <1>6, <1>7, <1>8

\* A shift to the right moves them down.
LEMMA RightBits ==
  ASSUME NEW x \in Word, NEW n \in 0 .. Width
  PROVE  /\ Right(x, n) \in Word
         /\ \A i \in 0 .. Width - 1 :
              BitOf(Right(x, n), i) = IF i + n < Width THEN BitOf(x, i + n) ELSE 0
<1> DEFINE p == Power[n]
           q == x \div p
           r == x % p
<1>1. n \in Nat /\ n <= Most /\ p \in Nat /\ p >= 1
  BY Widths, PowerDivides
<1>2. x \in Int /\ x >= 0 /\ x < Modulus
  BY WordIs
<1> HIDE DEF p
<1>3. q \in Int /\ r \in 0 .. p - 1 /\ x = q * p + r
  BY <1>1, <1>2, Remainders
<1>4. Right(x, n) = q
  BY DEF Right, q, p
<1> HIDE DEF q, r
<1>5. q >= 0 /\ q <= x
  <2>1. ~ (q < 0)
    <3> SUFFICES ASSUME q < 0 PROVE FALSE
      OBVIOUS
    <3>1. (-q) * p >= 1 * p
      BY <1>1, <1>3
    <3>2. (-q) * p = -(q * p) /\ q * p \in Int
      BY <1>1, <1>3
    <3> QED
      BY <1>1, <1>2, <1>3, <3>1, <3>2
  <2>2. q * p >= q * 1
    BY <1>1, <1>3, <2>1
  <2> QED
    BY <1>1, <1>2, <1>3, <2>1, <2>2
<1>6. q \in Word /\ q \in Nat
  BY <1>2, <1>3, <1>5, Halves DEF Word
<1>7. ASSUME NEW i \in 0 .. Width - 1
      PROVE  BitOf(q, i) = IF i + n < Width THEN BitOf(x, i + n) ELSE 0
  <2>1. i \in Nat /\ n + i <= Most /\ n + i = i + n /\ i + n \in 0 .. Most
    BY Widths
  <2>2. BitOf(x, i + n) = BitOf(q, i)
    <3>1. (q * p + r) \div Power[n + i] = q \div Power[i]
      BY <1>1, <1>3, <1>6, <2>1, CutHigh DEF p
    <3> QED
      BY <1>3, <2>1, <3>1 DEF BitOf
  <2>3. ~ (i + n < Width) => BitOf(x, i + n) = 0
    <3> SUFFICES ASSUME ~ (i + n < Width) PROVE BitOf(x, i + n) = 0
      OBVIOUS
    <3>1. Width \in 0 .. i + n /\ x \in Nat /\ x < Power[Width]
      BY <1>2, <2>1, Widths DEF Modulus
    <3> QED
      BY <2>1, <3>1, BitType
  <2> QED
    BY <2>2, <2>3
<1> QED
  BY <1>4, <1>6, <1>7

\* Bit j, counted from the most significant.
Seen(x, j) == BitOf(x, Width - 1 - j)

\* Places modulo the width.
LEMMA Cyclic ==
  ASSUME NEW i \in Int, i >= -Width, i < 2 * Width
  PROVE  i % Width = IF i < 0 THEN i + Width ELSE IF i < Width THEN i ELSE i - Width
BY WrapIs, Widths

\* A rotate takes bit j from the place as many bits further to the right.
LEMMA RotlBits ==
  ASSUME NEW x \in Word, NEW rot \in Nat
  PROVE  /\ rotl32(x, rot) \in Word
         /\ \A j \in 0 .. Width - 1 :
              Seen(rotl32(x, rot), j) = Seen(x, (j + (rot % Width)) % Width)
<1> DEFINE n == rot % Width
           z == rotl32(x, rot)
<1>1. n \in 0 .. Width - 1
  BY Remainders, Widths
<1>2. z = IF n = 0 THEN x ELSE Logic("or", Left(x, n), Right(x, Width - n))
  BY DEF rotl32
<1> HIDE DEF n, z
<1>3. CASE n = 0
  <2>1. z = x
    BY <1>2, <1>3
  <2>2. ASSUME NEW j \in 0 .. Width - 1 PROVE (j + n) % Width = j
    <3>1. j + n = j
      BY <1>3
    <3> QED
      BY <3>1, Cyclic, Widths
  <2> QED
    BY <2>1, <2>2 DEF n, z
<1>4. CASE n # 0
  <2> DEFINE a == Left(x, n)
             b == Right(x, Width - n)
  <2>0. Width - n \in 0 .. Width
    BY <1>1, Widths
  <2>1. a \in Word /\ \A i \in 0 .. Width - 1 :
          BitOf(a, i) = IF i < n THEN 0 ELSE BitOf(x, i - n)
    BY <1>1, LeftBits
  <2>2. b \in Word /\ \A i \in 0 .. Width - 1 :
          BitOf(b, i) = IF i + (Width - n) < Width THEN BitOf(x, i + (Width - n)) ELSE 0
    BY <2>0, RightBits
  <2>3. z = Logic("or", a, b)
    BY <1>2, <1>4
  <2> HIDE DEF a, b
  <2>4. z \in Word /\ Bits[z] = Bits[a] \cup Bits[b]
    <3>1. "or" \in LogicOps
      BY DEF LogicOps
    <3> QED
      BY <2>1, <2>2, <2>3, <3>1, LogicIs
  <2>5. ASSUME NEW j \in 0 .. Width - 1
        PROVE  Seen(z, j) = Seen(x, (j + n) % Width)
    <3> DEFINE i == Width - 1 - j
    <3>1. i \in 0 .. Width - 1 /\ j = Width - 1 - i
      BY Widths
    <3> HIDE DEF i
    <3>2. BitOf(z, i) = 1 <=> BitOf(a, i) = 1 \/ BitOf(b, i) = 1
      BY <2>1, <2>2, <2>4, <3>1, BitsTable
    <3>3. BitOf(z, i) \in {0, 1}
      BY <2>4, <3>1, BitsTable
    <3>4. CASE i < n
      <4>1. BitOf(a, i) = 0 /\ BitOf(b, i) = BitOf(x, i + (Width - n))
        BY <1>1, <2>1, <2>2, <3>1, <3>4, Widths
      <4>2. i + (Width - n) \in 0 .. Width - 1
        BY <1>1, <3>1, <3>4, Widths
      <4>3. BitOf(x, i + (Width - n)) \in {0, 1}
        BY <4>2, BitsTable
      <4>4. BitOf(z, i) = BitOf(x, i + (Width - n))
        BY <3>2, <3>3, <4>1, <4>3
      <4>5. (j + n) % Width = j + n - Width
        BY <1>1, <3>1, <3>4, Cyclic, Widths
      <4>6. Width - 1 - (j + n - Width) = i + (Width - n)
        BY <1>1, <3>1, Widths
      <4> QED
        BY <4>4, <4>5, <4>6 DEF Seen, i
    <3>5. CASE ~ (i < n)
      <4>1. BitOf(a, i) = BitOf(x, i - n) /\ BitOf(b, i) = 0
        BY <1>1, <2>1, <2>2, <3>1, <3>5, Widths
      <4>2. i - n \in 0 .. Width - 1
        BY <1>1, <3>1, <3>5, Widths
      <4>3. BitOf(x, i - n) \in {0, 1}
        BY <4>2, BitsTable
      <4>4. BitOf(z, i) = BitOf(x, i - n)
        BY <3>2, <3>3, <4>1, <4>3
      <4>5. (j + n) % Width = j + n
        BY <1>1, <3>1, <3>5, Cyclic, Widths
      <4>6. Width - 1 - (j + n) = i - n
        BY <1>1, <3>1, Widths
      <4> QED
        BY <4>4, <4>5, <4>6 DEF Seen, i
    <3> QED
      BY <3>4, <3>5
  <2> QED
    BY <2>4, <2>5 DEF n, z
<1> QED
  BY <1>3, <1>4

\* The places from MB cyclically to ME.
Inside(MB, ME) == {j \in 0 .. Width - 1 : (j - MB) % Width <= (ME - MB) % Width}

\* The mask has ones there and nowhere else.
LEMMA MaskBits ==
  ASSUME NEW MB \in 0 .. Width - 1, NEW ME \in 0 .. Width - 1
  PROVE  /\ mb_me_mask(MB, ME) \in Word
         /\ \A j \in 0 .. Width - 1 :
              Width - 1 - j \in Bits[mb_me_mask(MB, ME)] <=> j \in Inside(MB, ME)
<1> DEFINE counted == IF MB <= ME THEN MB .. ME ELSE (0 .. ME) \cup (MB .. Width - 1)
           S == {Width - 1 - b : b \in counted}
<1>1. mb_me_mask(MB, ME) = Num[S]
  BY DEF mb_me_mask
<1>2. counted \in SUBSET (0 .. Width - 1)
  BY Widths
<1>3. ASSUME NEW j \in 0 .. Width - 1
      PROVE  j \in counted <=> j \in Inside(MB, ME)
  <2>1. (j - MB) % Width = IF j - MB < 0 THEN j - MB + Width ELSE j - MB
    BY Cyclic, Widths
  <2>2. (ME - MB) % Width = IF ME - MB < 0 THEN ME - MB + Width ELSE ME - MB
    BY Cyclic, Widths
  <2>3. j \in Inside(MB, ME) <=> (j - MB) % Width <= (ME - MB) % Width
    BY DEF Inside
  <2>4. CASE MB <= ME
    BY <2>1, <2>2, <2>3, <2>4, Widths
  <2>5. CASE ~ (MB <= ME)
    BY <2>1, <2>2, <2>3, <2>5, Widths
  <2> QED
    BY <2>4, <2>5
<1> HIDE DEF counted
<1>4. S \in SUBSET (0 .. Width - 1)
  BY <1>2, Widths
<1>5. ASSUME NEW j \in 0 .. Width - 1
      PROVE  Width - 1 - j \in S <=> j \in counted
  <2>1. ASSUME NEW b \in counted, Width - 1 - j = Width - 1 - b PROVE j = b
    BY <1>2, <2>1, Widths
  <2> QED
    BY <2>1
<1> HIDE DEF S
<1>6. Num[S] \in Word /\ Bits[Num[S]] = S
  BY <1>4, NumTable
<1> QED
  BY <1>1, <1>3, <1>5, <1>6

\* rlwinm, rlwnm and rlwimi: what is in the word, bit by bit.
LEMMA RotatedBits ==
  ASSUME NEW op, NEW s \in Word, NEW old \in Word, NEW n \in Nat,
         NEW MB \in 0 .. Width - 1, NEW ME \in 0 .. Width - 1
  PROVE  /\ Rotated(op, s, old, n, MB, ME) \in Word
         /\ \A j \in 0 .. Width - 1 :
              Seen(Rotated(op, s, old, n, MB, ME), j)
                = IF j \in Inside(MB, ME) THEN Seen(s, (j + (n % Width)) % Width)
                  ELSE IF op = "rlwimi" THEN Seen(old, j) ELSE 0
<1> DEFINE r == rotl32(s, n)
           m == mb_me_mask(MB, ME)
           kept == IF op = "rlwimi" THEN Logic("andc", old, m) ELSE 0
           taken == Logic("and", r, m)
           z == Rotated(op, s, old, n, MB, ME)
<1>1. z = Logic("or", taken, kept)
  BY DEF Rotated
<1>2. r \in Word /\ \A j \in 0 .. Width - 1 : Seen(r, j) = Seen(s, (j + (n % Width)) % Width)
  BY RotlBits
<1>3. m \in Word /\ \A j \in 0 .. Width - 1 :
        Width - 1 - j \in Bits[m] <=> j \in Inside(MB, ME)
  BY MaskBits
<1>4. "or" \in LogicOps /\ "and" \in LogicOps /\ "andc" \in LogicOps
  BY DEF LogicOps
<1>5. 0 \in Word /\ Bits[0] = {}
  <2>1. 0 \in Word
    BY Halves DEF Word
  <2>2. ASSUME NEW i \in 0 .. Width - 1 PROVE BitOf(0, i) = 0
    <3>1. i \in 0 .. Most /\ 0 \in 0 .. i /\ 0 < Power[0]
      BY Widths, PowerStep
    <3> QED
      BY <3>1, BitType
  <2> QED
    BY <2>1, <2>2, BitsTable
<1> HIDE DEF r, m
<1>6. taken \in Word /\ Bits[taken] = Bits[r] \cap Bits[m]
  BY <1>2, <1>3, <1>4, LogicIs
<1>7. kept \in Word /\ Bits[kept] = IF op = "rlwimi" THEN Bits[old] \ Bits[m] ELSE {}
  <2>1. CASE op = "rlwimi"
    BY <1>3, <1>4, <2>1, LogicIs
  <2>2. CASE op # "rlwimi"
    BY <1>5, <2>2
  <2> QED
    BY <2>1, <2>2
<1> HIDE DEF taken, kept, z
<1>8. z \in Word /\ Bits[z] = Bits[taken] \cup Bits[kept]
  BY <1>1, <1>4, <1>6, <1>7, LogicIs
<1>9. ASSUME NEW j \in 0 .. Width - 1
      PROVE  Seen(z, j) = IF j \in Inside(MB, ME) THEN Seen(r, j)
                          ELSE IF op = "rlwimi" THEN Seen(old, j) ELSE 0
  <2> DEFINE i == Width - 1 - j
  <2>1. i \in 0 .. Width - 1
    BY Widths
  <2>2. i \in Bits[m] <=> j \in Inside(MB, ME)
    BY <1>3
  <2>3. /\ Seen(z, j) = BitOf(z, i) /\ Seen(r, j) = BitOf(r, i)
        /\ Seen(old, j) = BitOf(old, i)
    BY DEF Seen
  <2> HIDE DEF i
  <2>4. /\ i \in Bits[z] <=> BitOf(z, i) = 1
        /\ i \in Bits[r] <=> BitOf(r, i) = 1
        /\ i \in Bits[old] <=> BitOf(old, i) = 1
        /\ BitOf(z, i) \in {0, 1} /\ BitOf(r, i) \in {0, 1} /\ BitOf(old, i) \in {0, 1}
    BY <1>2, <1>8, <2>1, BitsTable
  <2>5. i \in Bits[z] <=> (i \in Bits[r] /\ i \in Bits[m])
                            \/ (op = "rlwimi" /\ i \in Bits[old] /\ i \notin Bits[m])
    BY <1>6, <1>7, <1>8
  <2> QED
    BY <2>2, <2>3, <2>4, <2>5
<1> QED
  BY <1>2, <1>8, <1>9 DEF z

\* Fields are taken, kept and put back by the rotates.
LEMMA RotatesCorrect ==
  ASSUME A \in Word, B \in Word
  PROVE  RotatesSelect
<1>1. SUFFICES ASSUME NEW rot \in Rotates
      PROVE  LET n == rot[1]
                 inserted == Rotated("rlwimi", A, B, n, rot[2], rot[3])
                 back == Rotated("rlwinm", inserted, 0, Width - n, 0, Width - 1)
                 inside == Inside(rot[2], rot[3])
             IN \A i \in 0 .. Width - 1 :
                  /\ Seen(inserted, i)
                       = IF i \in inside THEN Seen(A, (i + n) % Width) ELSE Seen(B, i)
                  /\ Seen(Rotated("rlwnm", A, B, n, rot[2], rot[3]), i)
                       = IF i \in inside THEN Seen(A, (i + n) % Width) ELSE 0
                  /\ i \in inside => Seen(back, (i + n) % Width) = Seen(A, (i + n) % Width)
  BY <1>1 DEF RotatesSelect, Seen, BitOf, Inside
<1> DEFINE n == rot[1]
           MB == rot[2]
           ME == rot[3]
           inserted == Rotated("rlwimi", A, B, n, MB, ME)
           out == Rotated("rlwnm", A, B, n, MB, ME)
           back == Rotated("rlwinm", inserted, 0, Width - n, 0, Width - 1)
           inside == Inside(MB, ME)
<1>2. n \in 0 .. Width - 1 /\ MB \in 0 .. Width - 1 /\ ME \in 0 .. Width - 1
  BY IntegerAssumption DEF IntegerAssumption
<1> HIDE DEF n, MB, ME
<1>3. n \in Nat /\ n % Width = n /\ Width - n \in Nat
      /\ (Width - n) % Width = IF n = 0 THEN 0 ELSE Width - n
  <2>1. n \in Nat /\ Width - n \in Nat /\ n < Width /\ n >= -Width /\ n < 2 * Width
        /\ Width - n >= -Width /\ Width - n < 2 * Width /\ n >= 0
    BY <1>2, Widths
  <2>2. n % Width = n
    BY <2>1, Cyclic
  <2>3. (Width - n) % Width = IF n = 0 THEN 0 ELSE Width - n
    BY <2>1, Cyclic, Widths
  <2> QED
    BY <2>1, <2>2, <2>3
<1>4. /\ inserted \in Word
      /\ \A j \in 0 .. Width - 1 :
           Seen(inserted, j)
             = IF j \in inside THEN Seen(A, (j + n) % Width) ELSE Seen(B, j)
  <2>1. /\ inserted \in Word
        /\ \A j \in 0 .. Width - 1 :
             Seen(inserted, j)
               = IF j \in inside THEN Seen(A, (j + (n % Width)) % Width)
                 ELSE IF "rlwimi" = "rlwimi" THEN Seen(B, j) ELSE 0
    BY <1>2, <1>3, RotatedBits
  <2> HIDE DEF inserted, inside
  <2> QED
    BY <1>3, <2>1
<1>5. \A j \in 0 .. Width - 1 :
        Seen(out, j) = IF j \in inside THEN Seen(A, (j + n) % Width) ELSE 0
  <2>1. \A j \in 0 .. Width - 1 :
          Seen(out, j) = IF j \in inside THEN Seen(A, (j + (n % Width)) % Width)
                         ELSE IF "rlwnm" = "rlwimi" THEN Seen(B, j) ELSE 0
    BY <1>2, <1>3, RotatedBits
  <2> HIDE DEF out, inside
  <2> QED
    BY <1>3, <2>1
<1> HIDE DEF inserted, inside, out
<1>6. ASSUME NEW k \in 0 .. Width - 1
      PROVE  Seen(back, k) = Seen(inserted, (k + ((Width - n) % Width)) % Width)
  <2>1. 0 \in Word /\ 0 \in 0 .. Width - 1 /\ Width - 1 \in 0 .. Width - 1
    BY Halves, Widths DEF Word
  <2>2. Seen(back, k) = IF k \in Inside(0, Width - 1)
                        THEN Seen(inserted, (k + ((Width - n) % Width)) % Width)
                        ELSE IF "rlwinm" = "rlwimi" THEN Seen(0, k) ELSE 0
    BY <1>3, <1>4, <2>1, RotatedBits
  <2>3. k \in Inside(0, Width - 1)
    <3>1. k - 0 = k /\ Width - 1 - 0 = Width - 1
      BY Widths
    <3>2. k % Width = k /\ (Width - 1) % Width = Width - 1
      BY Cyclic, Widths
    <3>3. (k - 0) % Width <= (Width - 1 - 0) % Width
      BY <3>1, <3>2, Widths
    <3> QED
      BY <3>3 DEF Inside
  <2> HIDE DEF back
  <2> QED
    BY <2>2, <2>3
<1> HIDE DEF back
<1>7. ASSUME NEW i \in 0 .. Width - 1, i \in inside
      PROVE  Seen(back, (i + n) % Width) = Seen(A, (i + n) % Width)
  <2> DEFINE k == (i + n) % Width
             d == (Width - n) % Width
  <2>1. k = IF i + n < Width THEN i + n ELSE i + n - Width
    BY <1>2, Cyclic, Widths
  <2>2. d = IF n = 0 THEN 0 ELSE Width - n
    BY <1>3
  <2> HIDE DEF k, d
  <2>3. k \in 0 .. Width - 1
    BY <1>2, <2>1, Widths
  <2>4. (k + d) % Width = i
    <3> DEFINE t == k + d
    <3>1. t \in Int /\ t >= -Width /\ t < 2 * Width
      BY <1>2, <2>2, <2>3, Widths
    <3>2. t = i \/ t = i + Width
      BY <1>2, <2>1, <2>2, Widths
    <3> HIDE DEF t
    <3>3. t % Width = IF t < 0 THEN t + Width ELSE IF t < Width THEN t ELSE t - Width
      BY <3>1, Cyclic
    <3>4. t % Width = i
      BY <3>1, <3>2, <3>3, Widths
    <3> QED
      BY <3>4 DEF t
  <2>5. Seen(back, k) = Seen(inserted, i)
    BY <1>6, <2>3, <2>4 DEF d
  <2> QED
    BY <1>4, <1>7, <2>5 DEF k
<1> QED
  BY <1>4, <1>5, <1>7 DEF n, MB, ME, inserted, out, back, inside

\* The leading zeros of a word say between which powers it is.
LEMMA LeadingIs ==
  ASSUME NEW x \in Word
  PROVE  LET z == Leading(x)
         IN z \in 0 .. Width /\ x < Power[Width - z] /\ (x = 0 \/ x >= Power[Width - z - 1])
<1> DEFINE S == {n \in 0 .. Width : n = Width \/ Width - 1 - n \in Bits[x]}
           z == Leading(x)
<1>1. \E n \in S : \A m \in S : n <= m
  <2>1. Width \in S /\ S \in SUBSET Nat
    BY Widths
  <2> HIDE DEF S
  <2> QED
    BY <2>1, LeastNatural
<1>2. z \in S /\ \A m \in S : z <= m
  <2>1. z = CHOOSE n \in S : \A m \in S : n <= m
    BY DEF Leading, Min
  <2> HIDE DEF S, z
  <2> QED
    BY <1>1, <2>1
<1>3. z \in 0 .. Width /\ (z = Width \/ Width - 1 - z \in Bits[x])
  BY <1>2
<1>4. \A n \in 0 .. Width : n < z => Width - 1 - n \notin Bits[x]
  BY <1>2, Widths
<1> HIDE DEF S, z
<1>5. x \in Nat /\ x < Power[Width]
  BY Halves DEF Word, Modulus
<1>6. x < Power[Width - z]
  <2> DEFINE T == {n \in Nat : n <= z => x < Power[Width - n]}
  <2>1. 0 \in T
    <3>1. Width - 0 = Width
      BY Widths
    <3> QED
      BY <1>5, <3>1
  <2>2. ASSUME NEW n \in Nat, n \in T PROVE n + 1 \in T
    <3> SUFFICES ASSUME n + 1 <= z PROVE x < Power[Width - (n + 1)]
      OBVIOUS
    <3> DEFINE i == Width - 1 - n
               p == Power[i]
    <3>1. i \in 0 .. Width - 1 /\ i \in 0 .. Most /\ Width - n = i + 1 /\ Width - (n + 1) = i
          /\ i + 1 \in 1 .. Most /\ i + 1 - 1 = i /\ n \in 0 .. Width /\ n < z
      BY <1>3, Widths
    <3>2. x < Power[Width - n]
      BY <1>3, <2>2, <3>1
    <3>3. Power[i + 1] = 2 * p /\ p \in Nat /\ p >= 1
      BY <3>1, PowerStep, PowerNat
    <3>4. (x \div p) % 2 # 1
      <4>1. BitOf(x, i) # 1
        BY <1>4, <3>1, BitsTable
      <4> QED
        BY <4>1 DEF BitOf
    <3> HIDE DEF i, p
    <3>5. x < 2 * p
      BY <3>1, <3>2, <3>3
    <3>6. x < p
      <4> SUFFICES ASSUME x >= p PROVE FALSE
        BY <1>5, <3>3
      <4>1. x - p \in 0 .. p - 1 /\ x = 1 * p + (x - p)
        BY <1>5, <3>3, <3>5
      <4>2. (1 * p + (x - p)) \div p = 1
        BY <3>3, <4>1, Remainder
      <4>3. x \div p = 1
        BY <4>1, <4>2
      <4> QED
        BY <3>4, <4>3
    <3> QED
      BY <3>1, <3>6 DEF p
  <2>3. z \in T
    <3> HIDE DEF T
    <3>1. z \in Nat
      BY <1>3, Widths
    <3> QED
      BY <2>1, <2>2, <3>1, SetInduction
  <2> QED
    BY <1>3, <2>3, Widths
<1>7. x = 0 \/ x >= Power[Width - z - 1]
  <2>1. CASE z = Width
    <3>1. x < Power[0]
      BY <1>3, <1>6, <2>1, Widths
    <3> QED
      BY <1>5, <3>1, PowerStep
  <2>2. CASE z # Width
    <3> DEFINE i == Width - 1 - z
               p == Power[i]
    <3>1. i \in 0 .. Width - 1 /\ i \in 0 .. Most /\ Width - z - 1 = i
      BY <1>3, <2>2, Widths
    <3>2. (x \div p) % 2 = 1 /\ p \in Nat /\ p >= 1
      <4>1. BitOf(x, i) = 1
        BY <1>3, <2>2, <3>1, BitsTable
      <4> QED
        BY <3>1, <4>1, PowerNat DEF BitOf
    <3> HIDE DEF i, p
    <3>3. x >= p
      <4> SUFFICES ASSUME x < p PROVE FALSE
        BY <1>5, <3>2
      <4>1. x \div p = 0
        BY <1>5, <3>2
      <4> QED
        BY <3>2, <4>1
    <3> QED
      BY <3>1, <3>3 DEF p
  <2> QED
    BY <2>1, <2>2
<1> QED
  BY <1>3, <1>6, <1>7 DEF z

\* A part of n bits extended to a word: the number that the part is when its
\* top bit is a sign.
LEMMA ExtendedIs ==
  ASSUME NEW n \in 1 .. Width - 1, NEW x \in 0 .. Power[n] - 1
  PROVE  LET v == IF x >= Power[n - 1] THEN x - Power[n] ELSE x
         IN /\ Extended(x, n) \in Word /\ Signed(Extended(x, n)) = v
            /\ v \in Int /\ -Power[n] <= 2 * v /\ 2 * v < Power[n]
            /\ Extended(x, n) = v \/ Extended(x, n) = v + Modulus
<1> DEFINE p == Power[n]
           h == Power[n - 1]
           e == Extended(x, n)
           v == IF x >= h THEN x - p ELSE x
<1>1. n \in 1 .. Most /\ n - 1 \in 0 .. Most /\ n \in Nat /\ n <= Width - 1
  BY Widths
<1>2. p = 2 * h /\ h \in Nat /\ h >= 1 /\ p \in Nat
  BY <1>1, PowerStep, PowerNat
<1>3. p <= Half
  BY <1>1, PowerGrows, Widths DEF Half
<1>4. e = IF x >= h THEN x + Modulus - p ELSE x
  BY DEF Extended
<1> HIDE DEF p, h, e
<1>5. x \in Nat /\ x < p
  BY <1>2 DEF p
<1>6. v \in Int /\ -p <= 2 * v /\ 2 * v < p /\ (e = v \/ e = v + Modulus) /\ e \in Word
  BY <1>2, <1>3, <1>4, <1>5, Halves DEF Word
<1>7. Signed(e) = v
  <2>1. Signed(e) = IF e >= Half THEN e - 2 * Half ELSE e
    BY <1>6, SignedIs
  <2> QED
    BY <1>2, <1>3, <1>4, <1>5, <1>6, <2>1, Halves
<1> QED
  BY <1>6, <1>7 DEF p, h, e, v

\* Shifts as divisions and multiplications, leading zeros, sign extension.
LEMMA DividesCorrect ==
  ASSUME A \in Word, B \in Word
  PROVE  ShiftsDivide
<1> DEFINE n == Amount(B)
           p == Power[n]
           o == Arithmetic(A, B)
           v == Signed(A)
           h == Width \div 2
           d == Power[h]
           w == A % d
           half == Unary("extsh", A)
<1>1. B \in Nat /\ A \in Int /\ A >= 0 /\ A < Modulus
  BY WordIs
<1>2. n \in Nat /\ n \in 0 .. Most /\ p \in Nat /\ p >= 1 /\ (n >= Width => p >= Modulus)
  BY <1>1, Amounts
<1>3. Shifted("slw", A, B) = Wrap(A * p)
  <2>1. CASE n >= Width
    <3> DEFINE k == Power[n - Width]
    <3>1. n - Width \in Nat /\ (n - Width) + Width = n /\ n - Width \in 0 .. Most
          /\ Width \in Nat
      BY <1>2, <2>1, Widths
    <3>2. p = k * Modulus /\ k \in Nat
      BY <1>2, <3>1, PowerSum, PowerNat DEF Modulus
    <3> HIDE DEF k, p
    <3>3. A * p = (A * k) * Modulus + 0 /\ A * k \in Int
      BY <1>1, <3>2, Halves
    <3>4. Wrap((A * k) * Modulus + 0) = Wrap(0)
      BY <3>3, WrapOff
    <3>5. Wrap(0) = 0
      BY Halves DEF Wrap
    <3>6. Shifted("slw", A, B) = 0
      BY <2>1 DEF Shifted
    <3> QED
      BY <3>3, <3>4, <3>5, <3>6
  <2>2. CASE ~ (n >= Width)
    BY <2>2 DEF Shifted, Left
  <2> QED
    BY <2>1, <2>2
<1>4. Shifted("srw", A, B) = A \div p
  <2>1. CASE n >= Width
    <3>1. Shifted("srw", A, B) = 0
      BY <2>1 DEF Shifted
    <3> HIDE DEF p
    <3>2. A < p
      BY <1>1, <1>2, <2>1, Halves
    <3>3. A \div p = 0
      BY <1>1, <1>2, <3>2
    <3> QED
      BY <3>1, <3>3
  <2>2. CASE ~ (n >= Width)
    BY <2>2 DEF Shifted, Right
  <2> QED
    BY <2>1, <2>2
<1>5. /\ Signed(o.r) = v \div p /\ (o.ca <=> (v < 0 /\ v % p # 0)) /\ o.ca \in BOOLEAN
      /\ v \in Int /\ Negative(A) = (v < 0)
  BY <1>1, ArithmeticIs, WordIs
<1>6. o.ca = (Negative(A) /\ Signed(o.r) * p # v)
  <2> DEFINE q == v \div p
             r == v % p
  <2> HIDE DEF p, v, o
  <2>1. q \in Int /\ r \in 0 .. p - 1 /\ v = q * p + r
    BY <1>2, <1>5, Remainders
  <2>2. r # 0 <=> q * p # v
    <3> HIDE DEF q, r
    <3>1. q * p \in Int
      BY <1>2, <2>1
    <3> QED
      BY <2>1, <3>1
  <2> QED
    BY <1>5, <2>2
<1>7. LET z == Unary("cntlzw", A)
      IN A < Power[Width - z] /\ (A = 0 \/ A >= Power[Width - z - 1])
  BY LeadingIs DEF Unary
<1>8. h \in 1 .. Width - 1 /\ h \in 0 .. Width
  BY Widths
<1>9. d \in Nat /\ d >= 1 /\ Modulus = Power[Width - h] * d /\ Power[Width - h] \in Int
  BY <1>8, PowerDivides
<1>10. w \in 0 .. d - 1 /\ A \div d \in Int /\ A = (A \div d) * d + w
  BY <1>1, <1>9, Remainders
<1>11. \E e \in Int : /\ Signed(half) = e /\ -d <= 2 * e /\ 2 * e < d
                      /\ half = e \/ half = e + Modulus
                      /\ e = w \/ e = w - d
  <2>1. half = Extended(w, h)
    BY DEF Unary
  <2> DEFINE e == IF w >= Power[h - 1] THEN w - d ELSE w
  <2>2. /\ Extended(w, h) \in Word /\ Signed(Extended(w, h)) = e
        /\ e \in Int /\ -d <= 2 * e /\ 2 * e < d
        /\ Extended(w, h) = e \/ Extended(w, h) = e + Modulus
    <3> HIDE DEF w
    <3> QED
      BY <1>8, <1>10, ExtendedIs
  <2>3. e = w \/ e = w - d
    OBVIOUS
  <2> HIDE DEF e, half, w, d
  <2> QED
    BY <2>1, <2>2, <2>3
<1>12. (half - A) % d = 0
  <2> DEFINE q == A \div d
             k == Power[Width - h]
  <2>1. q \in Int /\ k \in Int /\ A = q * d + w /\ Modulus = k * d
    BY <1>9, <1>10
  <2>2. PICK e \in Int : (half = e \/ half = e + Modulus) /\ (e = w \/ e = w - d)
    BY <1>11
  <2> HIDE DEF q, k, w, d, half
  <2>3. \E i \in Int : half - A = i * d + 0
    <3>1. q * d \in Int /\ k * d \in Int /\ w \in Int
      BY <1>9, <1>10, <2>1
    <3>2. /\ (-q) * d = -(q * d) /\ (-q - 1) * d = -(q * d) - d
          /\ (k - q) * d = k * d - q * d /\ (k - q - 1) * d = k * d - q * d - d
      BY <1>9, <2>1
    <3>3. CASE half = w
      <4>1. half - A = (-q) * d + 0 /\ -q \in Int
        BY <2>1, <3>1, <3>2, <3>3
      <4> QED
        BY <4>1
    <3>4. CASE half = w - d
      <4>1. half - A = (-q - 1) * d + 0 /\ -q - 1 \in Int
        BY <1>9, <2>1, <3>1, <3>2, <3>4
      <4> QED
        BY <4>1
    <3>5. CASE half = w + Modulus
      <4>1. half - A = (k - q) * d + 0 /\ k - q \in Int
        BY <2>1, <3>1, <3>2, <3>5
      <4> QED
        BY <4>1
    <3>6. CASE half = w - d + Modulus
      <4>1. half - A = (k - q - 1) * d + 0 /\ k - q - 1 \in Int
        BY <1>9, <2>1, <3>1, <3>2, <3>6
      <4> QED
        BY <4>1
    <3> QED
      BY <2>2, <3>3, <3>4, <3>5, <3>6
  <2>4. PICK i \in Int : half - A = i * d + 0
    BY <2>3
  <2>5. (i * d + 0) % d = 0
    BY <1>9, <2>4, Remainder
  <2> QED
    BY <2>4, <2>5
<1>13. -d <= 2 * Signed(half) /\ 2 * Signed(half) < d
  BY <1>11
<1>14. B % (2 * Width) = n
  BY DEF Amount
<1> QED
  BY <1>3, <1>4, <1>5, <1>6, <1>7, <1>12, <1>13, <1>14 DEF ShiftsDivide

-----------------------------------------------------------------------------
(* Types *)

\* TypeOK, for the states between which a step is.
State == [gpr : [Regs -> Word], xer : Flags, cr0 : SUBSET {"lt", "gt", "eq", "so"}]

\* Operands name registers, which hold words.
LEMMA OperandIs ==
  ASSUME NEW s \in State, NEW t \in Operands
  PROVE  /\ s.gpr[t[1]] \in Word /\ s.gpr[t[2]] \in Word /\ s.gpr[t[3]] \in Word
         /\ s.xer \in Flags /\ s.xer.ca \in BOOLEAN
<1>1. t[1] \in Regs /\ t[2] \in Regs /\ t[3] \in Regs
  BY DEF Regs
<1> QED
  BY <1>1 DEF State, Flags

\* The immediates are words, extended with their sign or moved up.
LEMMA ImmediateIs ==
  ASSUME NEW im \in Immediates
  PROVE  /\ im \in Word /\ Simm(im) \in Word
         /\ Left(im, Width \div 2) \in Word
<1> DEFINE h == Width \div 2
<1>1. h \in 1 .. Width - 1 /\ h \in Nat /\ h <= Width /\ Width <= Most
  BY Widths
<1>2. im \in 0 .. Power[h] - 1
  BY IntegerAssumption DEF IntegerAssumption
<1>3. Power[h] <= Modulus /\ Power[h] \in Nat
  BY <1>1, PowerGrows, PowerNat, Widths DEF Modulus
<1>4. im \in Word
  BY <1>2, <1>3, Halves DEF Word
<1>5. Simm(im) \in Word
  BY <1>1, <1>2, ExtendedIs DEF Simm
<1>6. Left(im, h) \in Word
  BY <1>1, <1>4, LeftBits
<1> QED
  BY <1>4, <1>5, <1>6

\* A word and flags make a state.
LEMMA ResultType ==
  ASSUME NEW s \in State, NEW d, NEW r \in Word, NEW x \in Flags, NEW rc \in BOOLEAN
  PROVE  Result(s, d, r, x, rc) \in State
<1>1. [s.gpr EXCEPT ![d] = r] \in [Regs -> Word]
  BY DEF State
<1> DEFINE c == IF rc THEN update_cr0(r, x.so) ELSE s.cr0
<1>2. c \in SUBSET {"lt", "gt", "eq", "so"}
  BY DEF update_cr0, Order, State
<1> HIDE DEF c
<1>3. Result(s, d, r, x, rc) = [gpr |-> [s.gpr EXCEPT ![d] = r], xer |-> x, cr0 |-> c]
  BY DEF Result, c
<1> QED
  BY <1>1, <1>2, <1>3 DEF State

\* The forms of instructions keep words in the registers: the sums.
LEMMA AddType ==
  ASSUME NEW s \in State, NEW op \in Additive, NEW t \in Operands, NEW im,
         op \in WithImmediate => im \in Immediates, NEW oe \in BOOLEAN, NEW rc \in BOOLEAN
  PROVE  AddForm(s, op, t, im, oe, rc) \in State
<1> DEFINE b == IF op \in WithImmediate THEN Simm(im) ELSE s.gpr[t[3]]
           o == Sum(op, s.gpr[t[2]], b, s.xer.ca)
           x == [s.xer EXCEPT !.ca = o.ca]
<1>1. b \in Word
  BY OperandIs, ImmediateIs
<1>2. s.gpr[t[2]] \in Word /\ s.xer \in Flags /\ s.xer.ca \in BOOLEAN
  BY OperandIs
<1> HIDE DEF b
<1>3. o.r \in Word /\ o.ca \in BOOLEAN /\ o.ov \in BOOLEAN
  BY <1>1, <1>2, SumIs, SumFlags
<1>4. AddForm(s, op, t, im, oe, rc) = Result(s, t[1], o.r, set_xer_ov(x, oe, o.ov), rc)
  BY DEF AddForm, b
<1> HIDE DEF o
<1>5. x \in Flags
  BY <1>2, <1>3 DEF Flags
<1> HIDE DEF x
<1>6. set_xer_ov(x, oe, o.ov) \in Flags
  BY <1>3, <1>5, OverflowKeepsSummary
<1> QED
  BY <1>3, <1>4, <1>6, ResultType

\* addi and addis.
LEMMA AddiType ==
  ASSUME NEW s \in State, NEW t \in Operands, NEW i \in Word
  PROVE  generic_addi(s, t, i) \in State
<1> DEFINE base == IF t[2] = 0 THEN 0 ELSE s.gpr[t[2]]
<1>1. base \in Int /\ i \in Int
  BY OperandIs, WordIs
<1> HIDE DEF base
<1>2. Wrap(i + base) \in Word
  BY <1>1, SignedWrap
<1>3. generic_addi(s, t, i) = Result(s, t[1], Wrap(i + base), s.xer, FALSE)
  BY DEF generic_addi, base
<1> QED
  BY <1>2, <1>3, ResultType, OperandIs

\* The quotients, those the code leaves undefined included.
LEMMA DivideType ==
  ASSUME NEW s \in State, NEW op \in {"divw", "divwu"}, NEW t \in Operands,
         NEW oe \in BOOLEAN, NEW rc \in BOOLEAN
  PROVE  DivideForm(s, op, t, oe, rc) \in State
<1> DEFINE a == s.gpr[t[2]]
           b == s.gpr[t[3]]
           old == s.gpr[t[1]]
           o == Quotient(op, a, b, old)
<1>1. a \in Word /\ b \in Word /\ old \in Word /\ s.xer \in Flags
  BY OperandIs
<1>2. DivideForm(s, op, t, oe, rc) = Result(s, t[1], o.r, set_xer_ov(s.xer, oe, o.ov), rc)
  BY DEF DivideForm
<1> HIDE DEF a, b, old
<1>3. o.ov \in BOOLEAN
  BY DEF Quotient
<1>4. o.r \in Word
  <2>1. CASE op = "divw"
    BY <1>1, <2>1, SignedQuotient
  <2>2. CASE op = "divwu"
    <3>1. o.r = IF b = 0 THEN old ELSE a \div b
      BY <2>2 DEF Quotient
    <3>2. b # 0 => a \div b \in Word
      <4> SUFFICES ASSUME b # 0 PROVE a \div b \in Word
        OBVIOUS
      <4>1. a \in Nat /\ a < Modulus /\ b \in Nat /\ b >= 1
        BY <1>1, Halves DEF Word
      <4>2. a \div b \in Int /\ (a < 0) = (a \div b < 0) /\ a \div b < Modulus
        <5>1. a >= -Modulus /\ Modulus \in Nat
          BY <4>1, Halves
        <5> QED
          BY <4>1, <5>1, QuotientBounds
      <4> DEFINE q == a \div b
      <4>3. q \in Int /\ ~ (q < 0) /\ q < Modulus
        BY <4>1, <4>2
      <4> HIDE DEF q
      <4>4. q \in Word
        BY <4>3, Halves DEF Word
      <4> QED
        BY <4>4 DEF q
    <3> QED
      BY <1>1, <3>1, <3>2
  <2> QED
    BY <2>1, <2>2
<1> HIDE DEF o
<1>5. set_xer_ov(s.xer, oe, o.ov) \in Flags
  BY <1>1, <1>3, OverflowKeepsSummary
<1> QED
  BY <1>2, <1>4, <1>5, ResultType

\* The products.
LEMMA MultiplyType ==
  ASSUME NEW s \in State, NEW op \in {"mullw", "mulhw", "mulhwu"}, NEW t \in Operands,
         NEW b \in Word, NEW oe \in BOOLEAN, NEW rc \in BOOLEAN
  PROVE  MultiplyForm(s, op, t, b, oe, rc) \in State
<1> DEFINE a == s.gpr[t[2]]
           o == Product(op, a, b)
           p == IF op = "mulhwu" THEN a * b ELSE Signed(a) * Signed(b)
<1>1. a \in Word /\ s.xer \in Flags
  BY OperandIs
<1>2. MultiplyForm(s, op, t, b, oe, rc) = Result(s, t[1], o.r, set_xer_ov(s.xer, oe, o.ov), rc)
  BY DEF MultiplyForm
<1> HIDE DEF a
<1>3. o.ov \in BOOLEAN
  BY DEF Product
<1>4. p \in Int
  <2>1. a \in Int /\ b \in Int /\ Signed(a) \in Int /\ Signed(b) \in Int
    BY <1>1, WordIs
  <2> QED
    BY <2>1
<1>5. o.r = IF op \in {"mulhw", "mulhwu"} THEN Wrap(p \div Modulus) ELSE Wrap(p)
  BY DEF Product
<1> HIDE DEF o, p
<1>6. o.r \in Word
  <2>1. p \div Modulus \in Int
    BY <1>4, Remainders, Halves
  <2>2. Wrap(p) \in Word /\ Wrap(p \div Modulus) \in Word
    BY <1>4, <2>1, SignedWrap
  <2> QED
    BY <1>5, <2>2
<1>7. set_xer_ov(s.xer, oe, o.ov) \in Flags
  BY <1>1, <1>3, OverflowKeepsSummary
<1> QED
  BY <1>2, <1>6, <1>7, ResultType

\* The arithmetic shifts.
LEMMA ShiftType ==
  ASSUME NEW s \in State, NEW t \in Operands, NEW n \in Nat, NEW rc \in BOOLEAN
  PROVE  ArithmeticForm(s, t, n, rc) \in State
<1> DEFINE o == Arithmetic(s.gpr[t[2]], n)
           x == [s.xer EXCEPT !.ca = o.ca]
<1>1. s.gpr[t[2]] \in Word /\ s.xer \in Flags
  BY OperandIs
<1>2. o.ca \in BOOLEAN /\ o.r \in Word
  BY <1>1, ArithmeticFlags, ArithmeticIs
<1>3. ArithmeticForm(s, t, n, rc) = Result(s, t[1], o.r, x, rc)
  BY DEF ArithmeticForm
<1> HIDE DEF o
<1>4. x \in Flags
  BY <1>1, <1>2 DEF Flags
<1> QED
  BY <1>2, <1>3, <1>4, ResultType

\* The instructions that leave XER alone.
LEMMA ShiftedType ==
  ASSUME NEW x \in Word, NEW b \in Word, NEW op
  PROVE  Shifted(op, x, b) \in Word
<1>1. b \in Nat
  BY Halves DEF Word
<1>2. Amount(b) \in Nat
  BY <1>1, Amounts
<1>3. 0 \in Word
  BY Halves DEF Word
<1>4. ~ (Amount(b) >= Width) => Amount(b) \in 0 .. Width - 1 /\ Amount(b) \in 0 .. Width
  BY <1>2, Widths
<1> QED
  BY <1>3, <1>4, LeftBits, RightBits DEF Shifted

\* cntlzw and the sign extensions.
LEMMA UnaryType ==
  ASSUME NEW x \in Word, NEW op \in {"cntlzw", "extsb", "extsh"}
  PROVE  Unary(op, x) \in Word
<1>1. CASE op = "cntlzw"
  <2>1. Leading(x) \in 0 .. Width
    BY LeadingIs
  <2>2. Width < Modulus
    BY PowerGrows, Widths DEF Modulus
  <2>3. Leading(x) \in Word
    <3> DEFINE z == Leading(x)
    <3> HIDE DEF z
    <3>1. z \in 0 .. Width
      BY <2>1 DEF z
    <3>2. z \in Word
      BY <2>2, <3>1, Halves, Widths DEF Word
    <3> QED
      BY <3>2 DEF z
  <2> QED
    BY <1>1, <2>3 DEF Unary
<1>2. ASSUME NEW n \in 1 .. Width - 1
      PROVE  Extended(x % Power[n], n) \in Word
  <2>1. n \in 0 .. Width
    BY Widths
  <2>2. Power[n] \in Nat /\ Power[n] > 0 /\ x \in Int
    BY <2>1, PowerDivides, WordIs
  <2>3. x % Power[n] \in 0 .. Power[n] - 1
    BY <2>2, Remainders
  <2> QED
    BY <2>3, ExtendedIs
<1>3. Width \div 4 \in 1 .. Width - 1 /\ Width \div 2 \in 1 .. Width - 1
  BY Widths
<1>4. CASE op = "extsb"
  BY <1>2, <1>3, <1>4 DEF Unary
<1>5. CASE op = "extsh"
  BY <1>2, <1>3, <1>5 DEF Unary
<1> QED
  BY <1>1, <1>4, <1>5

\* What leaves XER alone.
LEMMA PlainType ==
  ASSUME NEW s \in State, NEW d, NEW r \in Word, NEW rc \in BOOLEAN
  PROVE  Result(s, d, r, s.xer, rc) \in State
<1>1. s.xer \in Flags
  BY DEF State
<1> QED
  BY <1>1, ResultType

\* The compares.
LEMMA CompareType ==
  ASSUME NEW s \in State, NEW op, NEW a, NEW b
  PROVE  CompareForm(s, op, a, b) \in State
<1> DEFINE c == Compared(op, a, b, s.xer.so)
<1>1. c \in SUBSET {"lt", "gt", "eq", "so"}
  BY DEF Compared, Order
<1>2. CompareForm(s, op, a, b) = [s EXCEPT !.cr0 = c]
  BY DEF CompareForm
<1> HIDE DEF c
<1> QED
  BY <1>1, <1>2 DEF State

\* Every instruction leaves words in the registers.
LEMMA StepType ==
  ASSUME cpu \in State, Next
  PROVE  cpu' \in State
<1> DEFINE Good == cpu' \in State
<1>0. /\ \A t \in Operands : Gpr(t, 1) \in Word /\ Gpr(t, 2) \in Word /\ Gpr(t, 3) \in Word
      /\ Word \subseteq Nat
  BY OperandIs, Halves DEF Gpr, Word
<1>1. ASSUME NEW t \in Operands, NEW rc \in BOOLEAN, NEW oe \in BOOLEAN, Add(t, oe, rc)
      PROVE  Good
  <2>1. PICK op \in Additive \ WithImmediate : cpu' = AddForm(cpu, op, t, 0, oe, rc)
    BY <1>1 DEF Add
  <2> QED
    BY <2>1, AddType
<1>2. ASSUME NEW t \in Operands, NEW rc \in BOOLEAN, NEW oe \in BOOLEAN, Divide(t, oe, rc)
      PROVE  Good
  BY <1>2, DivideType DEF Divide
<1>3. ASSUME NEW t \in Operands, NEW rc \in BOOLEAN, NEW oe \in BOOLEAN, Multiply(t, oe, rc)
      PROVE  Good
  <2>1. CASE cpu' = MultiplyForm(cpu, "mullw", t, Gpr(t, 3), oe, rc)
    BY <1>0, <2>1, MultiplyType
  <2>2. ASSUME NEW op \in {"mulhw", "mulhwu"},
               cpu' = MultiplyForm(cpu, op, t, Gpr(t, 3), FALSE, rc)
        PROVE  Good
    BY <1>0, <2>2, MultiplyType
  <2> QED
    BY <1>3, <2>1, <2>2 DEF Multiply
<1>4. ASSUME NEW t \in Operands, NEW rc \in BOOLEAN, Logical(t, rc)
      PROVE  Good
  <2>1. PICK op \in LogicOps :
          cpu' = Result(cpu, t[1], Logic(op, Gpr(t, 2), Gpr(t, 3)), cpu.xer, rc)
    BY <1>4 DEF Logical, LogicForm, Gpr
  <2>2. Logic(op, Gpr(t, 2), Gpr(t, 3)) \in Word
    BY <1>0, LogicIs
  <2> QED
    BY <2>1, <2>2, PlainType
<1>5. ASSUME NEW t \in Operands, NEW rc \in BOOLEAN, Shift(t, rc)
      PROVE  Good
  <2>1. CASE \E op \in {"slw", "srw"} : cpu' = ShiftForm(cpu, op, t, rc)
    <3>1. PICK op \in {"slw", "srw"} :
            cpu' = Result(cpu, t[1], Shifted(op, Gpr(t, 2), Gpr(t, 3)), cpu.xer, rc)
      BY <2>1 DEF ShiftForm, Gpr
    <3>2. Shifted(op, Gpr(t, 2), Gpr(t, 3)) \in Word
      BY <1>0, ShiftedType
    <3> QED
      BY <3>1, <3>2, PlainType
  <2>2. CASE \E n \in {Gpr(t, 3)} \cup {rot[1] : rot \in Rotates} :
               cpu' = ArithmeticForm(cpu, t, n, rc)
    <3>1. PICK n \in {Gpr(t, 3)} \cup {rot[1] : rot \in Rotates} :
            cpu' = ArithmeticForm(cpu, t, n, rc)
      BY <2>2
    <3>2. \A rot \in Rotates : rot[1] \in Nat
      BY IntegerAssumption DEF IntegerAssumption
    <3>3. n \in Nat
      BY <1>0, <3>2
    <3> QED
      BY <3>1, <3>3, ShiftType
  <2> QED
    BY <1>5, <2>1, <2>2 DEF Shift
<1>6. ASSUME NEW t \in Operands, NEW rc \in BOOLEAN, Single(t, rc)
      PROVE  Good
  <2>1. PICK op \in {"cntlzw", "extsb", "extsh"} :
          cpu' = Result(cpu, t[1], Unary(op, Gpr(t, 2)), cpu.xer, rc)
    BY <1>6 DEF Single, UnaryForm, Gpr
  <2>2. Unary(op, Gpr(t, 2)) \in Word
    BY <1>0, UnaryType
  <2> QED
    BY <2>1, <2>2, PlainType
<1>7. ASSUME NEW t \in Operands, NEW rc \in BOOLEAN, NEW rot \in Rotates, Rotate(t, rot, rc)
      PROVE  Good
  <2>1. rot[1] \in Nat /\ rot[2] \in 0 .. Width - 1 /\ rot[3] \in 0 .. Width - 1
    BY IntegerAssumption DEF IntegerAssumption
  <2> DEFINE Turned(op, n) == Rotated(op, Gpr(t, 2), Gpr(t, 1), n, rot[2], rot[3])
  <2>2. ASSUME NEW op, NEW n \in Nat, cpu' = Result(cpu, t[1], Turned(op, n), cpu.xer, rc)
        PROVE  Good
    <3>1. Turned(op, n) \in Word
      BY <1>0, <2>1, RotatedBits
    <3> QED
      BY <2>2, <3>1, PlainType
  <2>3. (\E op \in {"rlwimi", "rlwinm"} :
           cpu' = Result(cpu, t[1], Turned(op, rot[1]), cpu.xer, rc))
        \/ cpu' = Result(cpu, t[1], Turned("rlwnm", Gpr(t, 3)), cpu.xer, rc)
    BY <1>7 DEF Rotate, RotateForm, Gpr
  <2>4. Gpr(t, 3) \in Nat
    BY <1>0, Halves DEF Word
  <2> QED
    BY <2>1, <2>2, <2>3, <2>4
<1>8. ASSUME NEW t \in Operands, NEW im \in Immediates, AddImmediate(t, im)
      PROVE  Good
  <2>1. "addic" \in Additive /\ "subfic" \in Additive
        /\ "addic" \in WithImmediate /\ "subfic" \in WithImmediate
    BY DEF Additive, WithImmediate
  <2> QED
    BY <1>8, <2>1, ImmediateIs, AddiType, AddType DEF AddImmediate
<1>9. ASSUME NEW t \in Operands, NEW im \in Immediates, MultiplyImmediate(t, im)
      PROVE  Good
  BY <1>9, ImmediateIs, MultiplyType DEF MultiplyImmediate
<1>10. ASSUME NEW t \in Operands, NEW im \in Immediates, LogicalImmediate(t, im)
      PROVE  Good
  <2>1. PICK op \in LogicImmediate, b \in {im, Left(im, Width \div 2)} :
          cpu' = Result(cpu, t[1], Logic(op, Gpr(t, 2), b), cpu.xer, op = "and")
    BY <1>10 DEF LogicalImmediate, LogicForm, Gpr
  <2>2. op \in LogicOps /\ b \in Word
    BY ImmediateIs DEF LogicImmediate, LogicOps
  <2>3. Logic(op, Gpr(t, 2), b) \in Word
    BY <1>0, <2>2, LogicIs
  <2>4. PICK rc \in BOOLEAN : rc = (op = "and")
    OBVIOUS
  <2> QED
    BY <2>1, <2>3, <2>4, PlainType
<1>11. ASSUME NEW t \in Operands, NEW im \in Immediates, CompareImmediate(t, im)
      PROVE  Good
  BY <1>11, CompareType DEF CompareImmediate
<1>12. ASSUME NEW t \in Operands, Compare(t)
      PROVE  Good
  BY <1>12, CompareType DEF Compare
<1>13. ASSUME NEW x \in Flags, Mtxer(x)
      PROVE  Good
  BY <1>13 DEF Mtxer, State
<1> QED
  BY <1>1, <1>2, <1>3, <1>4, <1>5, <1>6, <1>7, <1>8, <1>9, <1>10, <1>11, <1>12, <1>13
  DEF Next

(***************************************************************************)
(* The registers hold words after every instruction, whatever the         *)
(* operands, the immediates and the amounts of shifts.                     *)
(***************************************************************************)
THEOREM TypeCorrect == Spec => []TypeOK
<1>1. Init => TypeOK
  <2>1. 0 \in Word
    BY Halves DEF Word
  <2> QED
    BY <2>1 DEF Init, TypeOK, Flags
<1>2. TypeOK /\ [Next]_cpu => TypeOK'
  <2>1. cpu \in State <=> TypeOK
    BY DEF State, TypeOK
  <2>2. cpu' \in State <=> TypeOK'
    BY DEF State, TypeOK
  <2> QED
    BY <2>1, <2>2, StepType
<1> QED
  BY <1>1, <1>2, PTL DEF Spec

\* The two registers that the properties read hold words.
LEMMA OperandsAre ==
  ASSUME TypeOK
  PROVE  A \in Word /\ B \in Word /\ Ca \in BOOLEAN
<1>1. 0 \in Regs /\ 1 \in Regs
  BY IntegerAssumption DEF IntegerAssumption
<1> QED
  BY <1>1 DEF TypeOK, Flags, A, B, Ca

(***************************************************************************)
(* In every state of a program, every form of addition and subtraction on  *)
(* what the registers hold gives the exact sum wrapped, the overflow of    *)
(* the signed one and the carry of the unsigned one.                       *)
(***************************************************************************)
THEOREM SumsAlwaysExact == Spec => []SumsExact
<1>1. TypeOK => SumsExact
  BY OperandsAre, SumsAreExact
<1> QED
  BY <1>1, TypeCorrect, PTL

(***************************************************************************)
(* The high and the low word of a product make the exact one; divw and     *)
(* divwu give the quotient with the smallest rest of the dividend's sign,  *)
(* and overflow exactly when no word is that quotient.                     *)
(***************************************************************************)
THEOREM ProductsAlwaysExact == Spec => []ProductsExact
<1>1. TypeOK => ProductsExact
  BY OperandsAre, ProductsCorrect
<1> QED
  BY <1>1, TypeCorrect, PTL

(***************************************************************************)
(* Shifts of any amount multiply and divide by powers of two, srawi says   *)
(* when a negative number was not divided exactly, cntlzw and extsh are    *)
(* about the number, and rotates move every bit of the field that the mask *)
(* names, also round the end, and no other.                                *)
(***************************************************************************)
THEOREM ShiftsAlwaysExact == Spec => []ShiftsExact
<1>1. TypeOK => ShiftsExact
  BY OperandsAre, DividesCorrect, RotatesCorrect DEF ShiftsExact
<1> QED
  BY <1>1, TypeCorrect, PTL

(***************************************************************************)
(* Compares agree with subtractions, and the sequences of instructions     *)
(* that hand a carry over, on two words, in a division by a power of two   *)
(* and in a mask, are exact.                                               *)
(***************************************************************************)
THEOREM IdiomsAlwaysExact == Spec => []IdiomsExact
<1>1. TypeOK => IdiomsExact
  BY OperandsAre, ComparesCorrect, CarriesCorrect DEF IdiomsExact
<1> QED
  BY <1>1, TypeCorrect, PTL
=============================================================================
