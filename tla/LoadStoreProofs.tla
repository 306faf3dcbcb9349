-------------------------- MODULE LoadStoreProofs ---------------------------
(***************************************************************************)
(* Proofs about LoadStore, for every width of a byte, a word and a page,   *)
(* every register file and every set of programs.  An interrupted          *)
(* instruction is on its way to one goal; each fault is paid for by what   *)
(* its handler grants.                                                     *)
(*                                                                         *)
(* The last section is about lwarx and stwcx., module Reservation.         *)
(***************************************************************************)
EXTENDS LoadStore, Reservation, FiniteSets, FiniteSetTheorems, WellFoundedInduction, TLAPS

-----------------------------------------------------------------------------
(* Induction *)

\* A set of natural numbers has a least element: they are well founded.
LEMMA LeastNatural ==
  ASSUME NEW S \in SUBSET Nat, S # {}
  PROVE  \E x \in S : \A y \in S : x <= y
<1> DEFINE R == {p \in Nat \X Nat : p[1] < p[2]}
<1>1. IsWellFoundedOn(R, Nat)
  BY NatLessThanWellFounded DEF OpToRel
<1>2. PICK x \in S : \A y \in S : ~ (<<y, x>> \in R)
  <2> HIDE DEF R
  <2> QED
    BY <1>1, WFMin
<1>3. \A y \in S : y \in Nat
  OBVIOUS
<1>4. \A y \in S : ~ (y < x)
  BY <1>2, <1>3
<1> QED
  BY <1>3, <1>4

\* Induction, over the set of the numbers that have the property.
LEMMA SetInduction ==
  ASSUME NEW S, 0 \in S, \A n \in Nat : n \in S => n + 1 \in S
  PROVE  \A n \in Nat : n \in S
<1> SUFFICES ASSUME Nat \ S # {} PROVE FALSE
  OBVIOUS
<1>1. PICK x \in Nat \ S : \A y \in Nat \ S : x <= y
  BY LeastNatural
<1>2. x # 0 /\ x - 1 \in Nat
  BY <1>1
<1>3. x - 1 \notin S
  BY <1>2
<1> QED
  BY <1>1, <1>2, <1>3

\* A step from one value to the next gives a sequence of values.
Iterates(n, T, base, G) ==
  \E f \in [0 .. n -> T] : f[0] = base /\ \A k \in 1 .. n : f[k] = G[f[k - 1]][k]

\* There is such a sequence, so a recursive function of a number has its values.
LEMMA Iterated ==
  ASSUME NEW n \in Nat, NEW T, NEW base \in T, NEW G \in [T -> [1 .. n -> T]]
  PROVE  Iterates(n, T, base, G)
<1> DEFINE Good(m, f) == /\ f \in [0 .. m -> T] /\ f[0] = base
                         /\ \A k \in 1 .. m : f[k] = G[f[k - 1]][k]
           S == {m \in Nat : m <= n => \E f : Good(m, f)}
<1>0. \A m \in Nat : m \in S <=> (m <= n => \E f : Good(m, f))
  <2> HIDE DEF Good
  <2> QED
    OBVIOUS
<1> HIDE DEF S
<1>1. 0 \in S
  <2>1. Good(0, [k \in 0 .. 0 |-> base])
    OBVIOUS
  <2> QED
    BY <1>0, <2>1
<1>2. ASSUME NEW m \in Nat, m \in S
      PROVE  m + 1 \in S
  <2> SUFFICES ASSUME m + 1 <= n PROVE \E f : Good(m + 1, f)
    <3> HIDE DEF Good
    <3> QED
      BY <1>0
  <2>1. PICK f : Good(m, f)
    <3> HIDE DEF Good
    <3> QED
      BY <1>0, <1>2
  <2> DEFINE g == [k \in 0 .. m + 1 |-> IF k = m + 1 THEN G[f[m]][m + 1] ELSE f[k]]
  <2>2. g \in [0 .. m + 1 -> T]
    <3>1. f[m] \in T /\ m + 1 \in 1 .. n
      BY <2>1
    <3>2. G[f[m]][m + 1] \in T
      BY <3>1
    <3>3. \A k \in 0 .. m + 1 : k # m + 1 => f[k] \in T
      BY <2>1
    <3> QED
      BY <3>2, <3>3
  <2>3. g[0] = base
    BY <2>1
  <2>4. ASSUME NEW k \in 1 .. m + 1 PROVE g[k] = G[g[k - 1]][k]
    <3>1. g[k - 1] = f[k - 1]
      OBVIOUS
    <3>2. CASE k = m + 1
      <4>1. g[k] = G[f[m]][m + 1] /\ k - 1 = m
        BY <3>2
      <4> QED
        BY <3>1, <3>2, <4>1
    <3>3. CASE k # m + 1
      <4>1. k \in 1 .. m /\ g[k] = f[k]
        BY <3>3
      <4> QED
        BY <3>1, <4>1, <2>1
    <3> QED
      BY <3>2, <3>3
  <2>5. Good(m + 1, g)
    BY <2>2, <2>3, <2>4
  <2> HIDE DEF Good
  <2> QED
    BY <2>5
<1>3. n \in S
  BY <1>1, <1>2, SetInduction
<1>4. \E f : Good(n, f)
  <2> HIDE DEF Good
  <2> QED
    BY <1>0, <1>3
<1> QED
  BY <1>4 DEF Iterates

-----------------------------------------------------------------------------
(* Words and addresses *)

\* The constants, in the form the steps below use.
LEMMA Sizes ==
  /\ ByteValues \in Nat /\ ByteValues >= 2 /\ WordBytes \in Nat /\ WordBytes >= 1
  /\ NRegs \in Nat /\ NRegs >= 1 /\ PageSize \in Nat /\ PageSize >= WordBytes
  /\ Space \in Nat /\ Space > 1 /\ Space % PageSize = 0
  /\ MaxString \in Nat /\ MaxString >= 1 /\ MaxString <= NRegs * WordBytes
  /\ 0 \in Address /\ 1 \in Address
BY LoadStoreAssumption DEF LoadStoreAssumption, Address

\* A word has a number: each byte takes the one before it to a natural number.
LEMMA NumNat ==
  ASSUME NEW w \in Word
  PROVE  Num[w] \in Nat
<1> DEFINE n == WordBytes
           Right0(f) == f = [b \in 0 .. n |->
                          IF b = 0 THEN 0 ELSE f[b - 1] * ByteValues + w[b - 1]]
           u == CHOOSE f : Right0(f)
           G == [a \in Nat |-> [k \in 1 .. n |-> a * ByteValues + w[k - 1]]]
           S == {k \in Nat : k <= n => u[k] \in Nat}
<1>1. n \in Nat /\ ByteValues \in Nat /\ \A b \in 0 .. n - 1 : w[b] \in Nat
  BY Sizes DEF Word, Byte
<1>2. \E f : Right0(f)
  <2>1. G \in [Nat -> [1 .. n -> Nat]]
    <3> SUFFICES ASSUME NEW a \in Nat, NEW k \in 1 .. n
                 PROVE  a * ByteValues + w[k - 1] \in Nat
      OBVIOUS
    <3>1. a * ByteValues \in Nat /\ w[k - 1] \in Nat
      BY <1>1
    <3> QED
      BY <3>1
  <2>2. PICK f \in [0 .. n -> Nat] : f[0] = 0 /\ \A k \in 1 .. n : f[k] = G[f[k - 1]][k]
    <3> HIDE DEF G
    <3>1. Iterates(n, Nat, 0, G)
      BY <1>1, <2>1, Iterated
    <3> QED
      BY <3>1 DEF Iterates
  <2>3. \A k \in 1 .. n : f[k] = f[k - 1] * ByteValues + w[k - 1]
    <3> SUFFICES ASSUME NEW k \in 1 .. n PROVE f[k] = f[k - 1] * ByteValues + w[k - 1]
      OBVIOUS
    <3>1. f[k - 1] \in Nat
      BY <1>1
    <3> QED
      BY <2>2, <3>1
  <2>4. Right0(f)
    BY <2>2, <2>3
  <2> QED
    BY <2>4
<1>3. Right0(u)
  <2> HIDE DEF Right0
  <2> QED
    BY <1>2
<1>4. Num[w] = u[n]
  BY DEF Num
<1> HIDE DEF u
<1>5. 0 \in S
  BY <1>1, <1>3
<1>6. ASSUME NEW k \in Nat, k \in S
      PROVE  k + 1 \in S
  <2> SUFFICES ASSUME k + 1 <= n PROVE u[k + 1] \in Nat
    OBVIOUS
  <2>1. u[k] \in Nat /\ w[k] \in Nat
    BY <1>1, <1>6
  <2>2. u[k + 1] = u[k] * ByteValues + w[k]
    BY <1>1, <1>3
  <2>3. u[k] * ByteValues \in Nat
    BY <1>1, <2>1
  <2> QED
    BY <2>1, <2>2, <2>3
<1>7. n \in S
  <2> HIDE DEF S
  <2> QED
    BY <1>1, <1>5, <1>6, SetInduction
<1> QED
  BY <1>1, <1>4, <1>7

\* An address has a word: each byte is a remainder of what is left of it.
LEMMA AsWordWord ==
  ASSUME NEW n \in Address
  PROVE  AsWord[n] \in Word
<1> DEFINE Right0(f) == f = [b \in 0 .. WordBytes |->
                          IF b = 0 THEN n ELSE f[b - 1] \div ByteValues]
           u == CHOOSE f : Right0(f)
           G == [a \in Int |-> [k \in 1 .. WordBytes |-> a \div ByteValues]]
           S == {k \in Nat : k <= WordBytes => u[k] \in Int}
<1>1. n \in Int /\ WordBytes \in Nat /\ ByteValues \in Nat /\ ByteValues > 0
  BY Sizes DEF Address
<1>2. \E f : Right0(f)
  <2>1. G \in [Int -> [1 .. WordBytes -> Int]]
    BY <1>1
  <2>2. PICK f \in [0 .. WordBytes -> Int] :
          f[0] = n /\ \A k \in 1 .. WordBytes : f[k] = G[f[k - 1]][k]
    <3> HIDE DEF G
    <3>1. Iterates(WordBytes, Int, n, G)
      BY <1>1, <2>1, Iterated
    <3> QED
      BY <3>1 DEF Iterates
  <2>3. ASSUME NEW k \in 1 .. WordBytes PROVE f[k] = f[k - 1] \div ByteValues
    <3>1. f[k - 1] \in Int
      BY <1>1
    <3> QED
      BY <2>2, <3>1
  <2>4. Right0(f)
    BY <2>2, <2>3
  <2> QED
    BY <2>4
<1>3. Right0(u)
  <2> HIDE DEF Right0
  <2> QED
    BY <1>2
<1>4. AsWord[n] = [b \in 0 .. WordBytes - 1 |-> u[WordBytes - 1 - b] % ByteValues]
  BY DEF AsWord
<1> HIDE DEF u
<1>5. 0 \in S
  BY <1>1, <1>3
<1>6. ASSUME NEW k \in Nat, k \in S
      PROVE  k + 1 \in S
  <2> SUFFICES ASSUME k + 1 <= WordBytes PROVE u[k + 1] \in Int
    OBVIOUS
  <2>1. u[k] \in Int
    BY <1>1, <1>6
  <2>2. u[k + 1] = u[k] \div ByteValues
    BY <1>1, <1>3
  <2> QED
    BY <1>1, <2>1, <2>2
<1>7. \A k \in Nat : k \in S
  <2> HIDE DEF S
  <2> QED
    BY <1>5, <1>6, SetInduction
<1>8. ASSUME NEW b \in 0 .. WordBytes - 1 PROVE u[WordBytes - 1 - b] % ByteValues \in Byte
  <2>1. u[WordBytes - 1 - b] \in Int
    BY <1>1, <1>7
  <2> QED
    BY <1>1, <2>1 DEF Byte
<1> QED
  BY <1>4, <1>8 DEF Word

\* An effective address lies in the address space.
LEMMA EffectiveAddressType ==
  ASSUME NEW i \in Instructions, NEW c \in Cpu
  PROVE  EffectiveAddress(i, c) \in Address
<1>1. i \in Instruction /\ (i.indexed => i.x \in Reg)
  BY LoadStoreAssumption DEF LoadStoreAssumption, Instructions
<1>2. i.a \in Reg /\ i.x \in Nat
  BY <1>1, Sizes DEF Instruction, Address
<1>3. Num[c.gpr[i.a]] \in Nat
  BY <1>2, NumNat DEF Cpu
<1>4. i.indexed => Num[c.gpr[i.x]] \in Nat
  BY <1>1, NumNat DEF Cpu
<1>5. \A n \in Nat : n % Space \in Address
  BY Sizes DEF Address
<1> QED
  BY <1>2, <1>3, <1>4, <1>5 DEF EffectiveAddress

\* What the assumption says of one instruction.
LEMMA InstructionFacts ==
  ASSUME NEW i \in Instructions
  PROVE  /\ i \in Instruction /\ i.r \in Reg /\ i.a \in Reg /\ i.len \in Nat
         /\ i.form \in IntegerForms \cup FloatForms
         /\ i.form \in {"load", "store"} => i.len \in 1 .. WordBytes
         /\ i.form \in Strings => i.len < MaxString
         /\ i.form \in Multiples \cup Strings => ~ i.indexed /\ ~ i.update
         /\ i.form \in FloatForms => i.len \in {WordBytes, 2 * WordBytes} /\ i.r \in FRegs
<1>1. i \in Instruction
  BY LoadStoreAssumption DEF LoadStoreAssumption, Instructions
<1>2. i.len \in Nat
  BY <1>1, Sizes DEF Instruction
<1> QED
  BY <1>1, <1>2, LoadStoreAssumption DEF LoadStoreAssumption, Instruction

\* An instruction makes at least one access, of at most a word each; the
\* floating-point forms make at most two.
LEMMA CountUnit ==
  ASSUME NEW i \in Instructions
  PROVE  /\ Count(i) \in Nat /\ Count(i) >= 1
         /\ Unit(i) \in Nat /\ Unit(i) >= 1 /\ Unit(i) <= WordBytes
         /\ i.form \in FloatForms => Count(i) <= 2
<1>1. CASE i.form \in {"load", "store"}
  <2>1. Count(i) = 1 /\ Unit(i) = i.len
    BY <1>1 DEF Count, Unit, Multiples, Strings, FloatForms, Singles
  <2> QED
    BY <1>1, <2>1, InstructionFacts, Sizes DEF FloatForms, Singles
<1>2. CASE i.form \in Multiples
  <2>1. Count(i) = NRegs - i.r /\ Unit(i) = WordBytes
    BY <1>2 DEF Count, Unit, Multiples, Strings, FloatForms, Singles
  <2> QED
    BY <1>2, <2>1, InstructionFacts, Sizes DEF Reg, FloatForms, Singles, Multiples
<1>3. CASE i.form \in Strings
  <2>1. Count(i) = (IF i.len = 0 THEN MaxString ELSE i.len) /\ Unit(i) = 1
    BY <1>3 DEF Count, Unit, Multiples, Strings, FloatForms, Singles
  <2> QED
    BY <1>3, <2>1, InstructionFacts, Sizes DEF FloatForms, Singles, Strings
<1>4. CASE i.form \in FloatForms
  <2>1. Count(i) = i.len \div WordBytes /\ Unit(i) = WordBytes
    BY <1>4 DEF Count, Unit, Multiples, Strings, FloatForms, Singles
  <2>2. WordBytes \div WordBytes = 1 /\ (2 * WordBytes) \div WordBytes = 2
    BY Sizes
  <2> QED
    BY <1>4, <2>1, <2>2, InstructionFacts, Sizes
<1> QED
  BY <1>1, <1>2, <1>3, <1>4, InstructionFacts DEF IntegerForms, Multiples, Strings

\* Accesses, and the bytes they touch, lie in the address space.
LEMMA AtType ==
  ASSUME NEW i \in Instructions, NEW c \in Cpu, NEW j \in Nat
  PROVE  /\ At(i, c, j) \in Address
         /\ Covered(i, c, j) \subseteq Address
<1>1. EffectiveAddress(i, c) \in Nat /\ Unit(i) \in Nat
  BY EffectiveAddressType, CountUnit, Sizes DEF Address
<1>2. j * Unit(i) \in Nat
  BY <1>1
<1>3. At(i, c, j) \in Address
  BY <1>1, <1>2, Sizes DEF At, Address
<1>4. ASSUME NEW b \in 0 .. Unit(i) - 1 PROVE (At(i, c, j) + b) % Space \in Address
  BY <1>1, <1>3, Sizes DEF Address
<1> QED
  BY <1>3, <1>4 DEF Covered

\* Every address lies in a page.
LEMMA PageOf ==
  ASSUME NEW x \in Address
  PROVE  x \div PageSize \in Page
<1> DEFINE n == Space \div PageSize
<1>1. x \in Nat /\ x < Space /\ PageSize \in Nat /\ PageSize > 0
  BY Sizes DEF Address
<1>2. Space = PageSize * n /\ n \in Nat
  BY <1>1, Sizes
<1>3. x \div PageSize \in Nat /\ PageSize * (x \div PageSize) <= x
  BY <1>1
<1>4. x \div PageSize < n
  <2> DEFINE q == x \div PageSize
  <2> HIDE DEF q, n
  <2>1. q \in Nat /\ PageSize * q < PageSize * n
    BY <1>1, <1>2, <1>3 DEF q
  <2>2. SUFFICES ASSUME q >= n PROVE FALSE
    BY <1>2, <2>1 DEF q
  <2>3. PageSize * q >= PageSize * n
    BY <1>1, <1>2, <2>1, <2>2
  <2> QED
    BY <1>1, <1>2, <2>1, <2>3
<1> QED
  BY <1>2, <1>3, <1>4 DEF Page

-----------------------------------------------------------------------------
(* Least and greatest *)

\* What Min finds in a set of natural numbers.
LEMMA MinIn ==
  ASSUME NEW S \in SUBSET Nat, S # {}
  PROVE  Min(S) \in S /\ \A y \in S : Min(S) <= y
BY LeastNatural DEF Min

\* What Max finds in a set of natural numbers that has a bound.
LEMMA MaxIn ==
  ASSUME NEW n \in Nat, NEW S \in SUBSET (0 .. n), S # {}
  PROVE  Max(S) \in S /\ \A y \in S : Max(S) >= y
<1> DEFINE T == {n - y : y \in S}
<1>1. T \in SUBSET Nat /\ T # {}
  <2>1. \A y \in S : n - y \in Nat
    OBVIOUS
  <2>2. PICK y \in S : TRUE
    OBVIOUS
  <2>3. n - y \in T
    OBVIOUS
  <2> QED
    BY <2>1, <2>3
<1>2. PICK t \in T : \A u \in T : t <= u
  <2> HIDE DEF T
  <2> QED
    BY <1>1, LeastNatural
<1>3. PICK x \in S : t = n - x
  OBVIOUS
<1>4. \A y \in S : x >= y
  BY <1>2, <1>3
<1> QED
  BY <1>4 DEF Max

-----------------------------------------------------------------------------
(* Where an access faults *)

\* The rights that translation looks at
Rights == [Page -> Right]

\* The address that a denied access reports is in a page that is not granted
\* (set_dsi_info).
LEMMA DeniedShape ==
  ASSUME NEW at \in Address, NEW len \in Nat, NEW write \in BOOLEAN, NEW r \in Rights,
         Denied(at, len, write, r) # {}
  PROVE  /\ Min(Denied(at, len, write, r)) \in Address
         /\ ~ Grants(r[Min(Denied(at, len, write, r)) \div PageSize], write)
<1> DEFINE first == PageSize - (at % PageSize)
           next == (at + first) % Space
<1>1. next \in Address /\ at \in Nat
  BY Sizes DEF Address
<1>2. PICK d \in Address : Denied(at, len, write, r) = {d} /\ ~ Grants(r[d \div PageSize], write)
  BY <1>1 DEF Denied
<1>3. Min({d}) = d
  <2>1. d \in Nat
    BY DEF Address
  <2> QED
    BY <2>1, MinIn
<1> QED
  BY <1>2, <1>3

\* An access that is not denied touches granted pages only.
LEMMA GrantedAll ==
  ASSUME NEW at \in Address, NEW len \in Nat, len <= PageSize, NEW write \in BOOLEAN,
         NEW r \in Rights, Denied(at, len, write, r) = {}, NEW b \in 0 .. len - 1
  PROVE  Grants(r[((at + b) % Space) \div PageSize], write)
<1> DEFINE P == PageSize
           o == at % P
           q == at \div P
           n == Space \div P
           first == P - o
           next == (at + first) % Space
<1>1. /\ P \in Nat /\ P > 0 /\ Space \in Nat /\ Space > 1 /\ Space = n * P /\ n \in Nat
      /\ at \in Nat /\ at < Space
  BY Sizes DEF Address
<1>2. at = q * P + o /\ o \in Nat /\ o < P /\ q \in Nat
  BY <1>1
<1>3. q < n
  <2> HIDE DEF q, n, o
  <2>1. SUFFICES ASSUME q >= n PROVE FALSE
    BY <1>1, <1>2
  <2>2. q * P >= n * P
    BY <1>1, <1>2, <2>1
  <2> QED
    BY <1>1, <1>2, <2>2
<1>4. q * P + P <= Space
  <2> HIDE DEF q, n, o
  <2>1. (q + 1) * P <= n * P
    BY <1>1, <1>2, <1>3
  <2> QED
    BY <1>1, <1>2, <2>1
<1>5. Grants(r[q], write) /\ (len > first => Grants(r[next \div P], write))
  BY DEF Denied
<1>6. CASE b < first
  <2>1. at + b = q * P + (o + b) /\ o + b < P /\ o + b >= 0 /\ at + b < Space
    <3> HIDE DEF q, o
    <3> QED
      BY <1>1, <1>2, <1>4, <1>6
  <2>2. (at + b) % Space = at + b
    BY <1>1, <2>1
  <2>3. (at + b) \div P = q
    <3> HIDE DEF q, o
    <3> QED
      BY <1>1, <1>2, <2>1
  <2> QED
    BY <1>5, <2>2, <2>3
<1>7. CASE b >= first
  <2> DEFINE e == b - first
  <2>1. e \in Nat /\ e < P /\ len > first
    <3> HIDE DEF q, o
    <3> QED
      BY <1>1, <1>2, <1>7
  <2>2. CASE q + 1 = n
    <3>1. at + first = Space /\ at + b = Space + e
      <4> HIDE DEF q, o, n
      <4>1. (q + 1) * P = n * P
        BY <2>2
      <4> QED
        BY <1>1, <1>2, <4>1
    <3>2. next = 0
      BY <1>1, <3>1
    <3>3. e < Space
      <4> HIDE DEF q, o, n
      <4> QED
        BY <1>1, <1>2, <1>4, <2>1
    <3>4. (at + b) % Space = e
      <4> HIDE DEF e
      <4> QED
        BY <1>1, <2>1, <3>1, <3>3
    <3>5. e \div P = 0 /\ 0 \div P = 0
      <4> HIDE DEF e
      <4> QED
        BY <1>1, <2>1
    <3> QED
      BY <1>5, <2>1, <3>2, <3>4, <3>5
  <2>3. CASE q + 1 # n
    <3>1. at + first = (q + 1) * P /\ at + b = (q + 1) * P + e
      <4> HIDE DEF q, o, n
      <4> QED
        BY <1>1, <1>2
    <3>2. (q + 1) * P + P <= Space
      <4> HIDE DEF q, o, n
      <4>1. (q + 2) * P <= n * P
        BY <1>1, <1>2, <1>3, <2>3
      <4> QED
        BY <1>1, <1>2, <4>1
    <3> DEFINE s == (q + 1) * P
    <3>3. s \in Nat /\ s + P <= Space
      <4> HIDE DEF q, o, n
      <4> QED
        BY <1>1, <1>2, <3>2
    <3> HIDE DEF s
    <3>4. next = s /\ (at + b) % Space = s + e
      <4> HIDE DEF e
      <4>1. at + first = s /\ at + b = s + e
        BY <3>1 DEF s, e
      <4> QED
        BY <1>1, <2>1, <3>3, <4>1
    <3>5. s \div P = q + 1 /\ (s + e) \div P = q + 1
      <4> HIDE DEF q, o, n, e
      <4> QED
        BY <1>1, <1>2, <2>1 DEF s
    <3> QED
      BY <1>5, <2>1, <3>4, <3>5
  <2> QED
    BY <2>2, <2>3
<1>8. b < first \/ b >= first
  <2> HIDE DEF o
  <2> QED
    BY <1>1, <1>2
<1> QED
  BY <1>6, <1>7, <1>8

\* Stop is the first access that is denied, or the end of the instruction.
LEMMA StopFacts ==
  ASSUME NEW i \in Instructions, NEW c \in Cpu, NEW r \in Rights
  PROVE  /\ Stop(i, c, r) \in 0 .. Count(i)
         /\ \A j \in 0 .. Stop(i, c, r) - 1 : DeniedTo(i, c, j, r) = {}
         /\ Stop(i, c, r) # Count(i) => DeniedTo(i, c, Stop(i, c, r), r) # {}
<1> DEFINE S == {Count(i)} \cup {j \in 0 .. Count(i) - 1 : DeniedTo(i, c, j, r) # {}}
<1>1. Count(i) \in Nat
  BY CountUnit
<1>2. S \in SUBSET Nat /\ S # {} /\ \A y \in S : y <= Count(i)
  BY <1>1
<1>3. Stop(i, c, r) = Min(S)
  BY DEF Stop
<1>4. Min(S) \in S /\ \A y \in S : Min(S) <= y
  <2> HIDE DEF S
  <2> QED
    BY <1>2, MinIn
<1> HIDE DEF S
<1>0. Min(S) \in Nat /\ Min(S) <= Count(i)
  BY <1>2, <1>4
<1>5. Stop(i, c, r) \in 0 .. Count(i)
  BY <1>0, <1>1, <1>3
<1>6. ASSUME NEW j \in 0 .. Stop(i, c, r) - 1 PROVE DeniedTo(i, c, j, r) = {}
  <2>1. j \notin S /\ j \in 0 .. Count(i) - 1
    BY <1>1, <1>3, <1>4, <1>5
  <2> QED
    BY <2>1 DEF S
<1> QED
  BY <1>3, <1>4, <1>5, <1>6 DEF S

\* Bytes that the first k accesses touch, if none of them is denied
LEMMA CoveredGranted ==
  ASSUME NEW i \in Instructions, NEW c \in Cpu, NEW r \in Rights,
         NEW j \in 0 .. Stop(i, c, r) - 1, NEW x \in Covered(i, c, j)
  PROVE  Grants(r[x \div PageSize], i.form \notin Loading)
<1>1. j \in Nat /\ DeniedTo(i, c, j, r) = {}
  BY StopFacts, CountUnit
<1>2. PICK b \in 0 .. Unit(i) - 1 : x = (At(i, c, j) + b) % Space
  BY DEF Covered
<1>3. At(i, c, j) \in Address /\ Unit(i) \in Nat /\ Unit(i) <= PageSize
  BY <1>1, AtType, CountUnit, Sizes
<1>4. (i.form \notin Loading) \in BOOLEAN
  OBVIOUS
<1> QED
  BY <1>1, <1>2, <1>3, <1>4, GrantedAll DEF DeniedTo

-----------------------------------------------------------------------------
(* What the accesses leave *)

\* The registers and the memory, part by part.
LEMMA CpuParts ==
  ASSUME NEW c \in Cpu
  PROVE  /\ \A q \in Reg : c.gpr[q] \in Word
         /\ \A f \in FRegs : /\ c.fpr[f] \in [ps : BOOLEAN, w : Words]
                             /\ c.fpr[f].ps \in BOOLEAN
                             /\ c.fpr[f].w \in Words
                             /\ c.fpr[f].w[0] \in Word /\ c.fpr[f].w[1] \in Word
         /\ \A x \in Address : c.mem[x] \in Byte
<1>1. ASSUME NEW f \in FRegs PROVE c.fpr[f] \in [ps : BOOLEAN, w : Words]
  BY DEF Cpu
<1>2. ASSUME NEW f \in FRegs
      PROVE  c.fpr[f].w \in Words /\ c.fpr[f].w[0] \in Word /\ c.fpr[f].w[1] \in Word
  <2>1. c.fpr[f].w \in Words
    BY <1>1
  <2> QED
    BY <2>1 DEF Words
<1> QED
  BY <1>1, <1>2 DEF Cpu

\* What a store moves is as many bytes as an access has.
LEMMA SourceType ==
  ASSUME NEW i \in Instructions, NEW c \in Cpu, i.form \notin Loading,
         NEW j \in 0 .. Count(i) - 1
  PROVE  Source(i, c, j) \in [0 .. Unit(i) - 1 -> Byte]
<1>1. /\ j \in Nat /\ WordBytes \in Nat /\ WordBytes >= 1 /\ NRegs \in Nat /\ NRegs >= 1
      /\ i.r \in Nat /\ i.r < NRegs
  BY CountUnit, Sizes, InstructionFacts DEF Reg
<1>2. CASE i.form = "store"
  <2>1. Source(i, c, j) = Narrowed(c.gpr[i.r], i.len, i.order) /\ Unit(i) = i.len
    BY <1>2 DEF Source, Unit
  <2>2. c.gpr[i.r] \in Word /\ i.len \in 1 .. WordBytes
    BY <1>2, InstructionFacts, CpuParts
  <2> DEFINE w == c.gpr[i.r]
  <2>3. \A b \in 0 .. WordBytes - 1 : w[b] \in Byte
    BY <2>2 DEF Word
  <2> HIDE DEF w
  <2>4. ASSUME NEW b \in 0 .. i.len - 1
        PROVE  (IF i.order = "brev" THEN w[WordBytes - 1 - b]
                ELSE w[WordBytes - i.len + b]) \in Byte
    BY <1>1, <2>2, <2>3
  <2>5. Source(i, c, j) = Narrowed(w, i.len, i.order)
    BY <2>1 DEF w
  <2> QED
    BY <2>1, <2>4, <2>5 DEF Narrowed
<1>3. CASE i.form = "stmw"
  <2>1. Source(i, c, j) = c.gpr[i.r + j] /\ Unit(i) = WordBytes /\ Count(i) = NRegs - i.r
    BY <1>3 DEF Source, Unit, Count, Multiples, Strings, FloatForms, Singles
  <2>2. i.r + j \in Reg
    BY <1>1, <2>1 DEF Reg
  <2> QED
    BY <2>1, <2>2, CpuParts DEF Word
<1>4. CASE i.form = "stswi"
  <2>1. /\ Source(i, c, j) = [b \in {0} |-> c.gpr[(i.r + j \div WordBytes) % NRegs][j % WordBytes]]
        /\ Unit(i) = 1
    BY <1>4 DEF Source, Unit, Strings
  <2>2. (i.r + j \div WordBytes) % NRegs \in Reg /\ j % WordBytes \in 0 .. WordBytes - 1
    BY <1>1 DEF Reg
  <2>3. ASSUME NEW q \in Reg, NEW b \in 0 .. WordBytes - 1 PROVE c.gpr[q][b] \in Byte
    <3>1. c.gpr[q] \in Word
      BY CpuParts
    <3> QED
      BY <3>1 DEF Word
  <2>5. c.gpr[(i.r + j \div WordBytes) % NRegs][j % WordBytes] \in Byte
    BY <2>2, <2>3
  <2>4. 0 .. Unit(i) - 1 = {0}
    BY <2>1
  <2> QED
    BY <2>1, <2>4, <2>5
<1>5. CASE i.form \in {"stfiwx", "psq_st", "stf"}
  <2>1. i.form \in FloatForms /\ i.r \in FRegs /\ Unit(i) = WordBytes
    BY <1>5, InstructionFacts DEF FloatForms, Singles, Unit, Strings
  <2>2. j \in 0 .. 1
    BY <1>1, <2>1, CountUnit
  <2>3. ToDouble \in [Word -> Words] /\ ToSingle \in [Words -> Word]
    BY LoadStoreAssumption DEF LoadStoreAssumption
  <2>4. /\ get_ps0(c.fpr[i.r]) \in Word /\ get_double(c.fpr[i.r])[j] \in Word
        /\ c.fpr[i.r].w[j] \in Word /\ c.fpr[i.r].w[1] \in Word
    <3>1. get_double(c.fpr[i.r]) \in Words
      BY <2>1, <2>3, CpuParts DEF get_double
    <3>2. get_ps0(c.fpr[i.r]) \in Word
      BY <2>1, <2>3, CpuParts DEF get_ps0
    <3>3. c.fpr[i.r].w \in Words
      BY <2>1, CpuParts
    <3> QED
      BY <2>2, <3>1, <3>2, <3>3 DEF Words
  <2>5. Source(i, c, j) \in Word
    BY <1>5, <2>4 DEF Source
  <2> QED
    BY <2>1, <2>5 DEF Word
<1> QED
  BY <1>2, <1>3, <1>4, <1>5, InstructionFacts DEF IntegerForms, FloatForms, Singles, Loading

\* The place of a byte in its access is what it is past the address of the access.
LEMMA Offset ==
  ASSUME NEW at \in Address, NEW b \in Nat, b < WordBytes
  PROVE  (((at + b) % Space) - at) % Space = b
<1>1. /\ at \in Nat /\ at < Space /\ Space \in Nat /\ Space > 1 /\ b < Space
  <2>1. PageSize <= Space
    BY Sizes
  <2> QED
    BY <2>1, Sizes DEF Address
<1>2. CASE at + b < Space
  <2>1. (at + b) % Space = at + b
    BY <1>1, <1>2
  <2> QED
    BY <1>1, <2>1
<1>3. CASE at + b >= Space
  <2>1. (at + b) % Space = at + b - Space
    BY <1>1, <1>3
  <2>2. (at + b - Space) - at = b - Space
    BY <1>1
  <2>3. (b - Space) % Space = b
    BY <1>1
  <2> QED
    BY <2>1, <2>2, <2>3
<1> QED
  BY <1>1, <1>2, <1>3

\* A store changes memory only, and only where its accesses reach.
LEMMA StoredType ==
  ASSUME NEW i \in Instructions, NEW c \in Cpu, i.form \notin Loading,
         NEW k \in 0 .. Count(i)
  PROVE  /\ Stored(i, c, k) \in Cpu
         /\ Stored(i, c, k).gpr = c.gpr /\ Stored(i, c, k).fpr = c.fpr
         /\ \A x \in Address : Stored(i, c, k).mem[x] # c.mem[x] =>
              \E j \in 0 .. k - 1 : x \in Covered(i, c, j)
<1> DEFINE last(x) == {j \in 0 .. k - 1 : x \in Covered(i, c, j)}
           byte(x) == IF last(x) = {} THEN c.mem[x]
                      ELSE Source(i, c, Max(last(x)))[(x - At(i, c, Max(last(x)))) % Space]
<1>1. Stored(i, c, k) = [c EXCEPT !.mem = [x \in Address |-> byte(x)]]
  BY DEF Stored
<1>2. ASSUME NEW x \in Address PROVE byte(x) \in Byte
  <2>1. CASE last(x) = {}
    BY <2>1, CpuParts
  <2>2. CASE last(x) # {}
    <3> DEFINE j == Max(last(x))
    <3>1. k \in Nat /\ k >= 1 /\ k - 1 \in Nat /\ last(x) \in SUBSET (0 .. k - 1)
      BY <2>2, CountUnit
    <3>2. j \in last(x)
      <4> HIDE DEF last
      <4> QED
        BY <2>2, <3>1, MaxIn
    <3> HIDE DEF j
    <3>3. j \in 0 .. Count(i) - 1 /\ j \in Nat /\ x \in Covered(i, c, j)
      BY <3>1, <3>2, CountUnit
    <3>4. PICK b \in 0 .. Unit(i) - 1 : x = (At(i, c, j) + b) % Space
      BY <3>3 DEF Covered
    <3>5. b \in Nat /\ b < WordBytes
      BY <3>4, CountUnit, Sizes
    <3>6. (x - At(i, c, j)) % Space = b
      BY <3>3, <3>4, <3>5, AtType, Offset
    <3>7. Source(i, c, j)[b] \in Byte
      BY <3>3, SourceType
    <3> QED
      BY <2>2, <3>6, <3>7 DEF j
  <2> QED
    BY <2>1, <2>2
<1>3. [x \in Address |-> byte(x)] \in [Address -> Byte]
  <2> HIDE DEF byte
  <2> QED
    BY <1>2
<1>4. ASSUME NEW x \in Address, byte(x) # c.mem[x]
      PROVE  \E j \in 0 .. k - 1 : x \in Covered(i, c, j)
  BY <1>4
<1> HIDE DEF byte
<1> QED
  BY <1>1, <1>3, <1>4 DEF Cpu

\* What a load brings is as many bytes as an access has.
LEMMA FetchedType ==
  ASSUME NEW i \in Instructions, NEW c \in Cpu, NEW j \in Nat
  PROVE  Fetched(i, c, j) \in [0 .. Unit(i) - 1 -> Byte]
<1>1. ASSUME NEW b \in 0 .. Unit(i) - 1 PROVE c.mem[(At(i, c, j) + b) % Space] \in Byte
  <2>1. (At(i, c, j) + b) % Space \in Address
    BY AtType DEF Covered
  <2> QED
    BY <2>1, CpuParts
<1> QED
  BY <1>1 DEF Fetched

\* What a load makes of its bytes is a word.
LEMMA WidenedType ==
  ASSUME NEW len \in 1 .. WordBytes, NEW s \in [0 .. len - 1 -> Byte], NEW order
  PROVE  Widened(s, len, order) \in Word
<1> DEFINE fill == IF order = "sign" /\ s[0] >= ByteValues \div 2 THEN ByteValues - 1 ELSE 0
<1>1. WordBytes \in Nat /\ len \in Nat /\ fill \in Byte
  BY Sizes DEF Byte
<1>2. ASSUME NEW b \in 0 .. WordBytes - 1
      PROVE  LET p == b - (WordBytes - len)
             IN (IF p < 0 THEN fill ELSE IF order = "brev" THEN s[len - 1 - p] ELSE s[p]) \in Byte
  <2> HIDE DEF fill
  <2> QED
    BY <1>1
<1> QED
  BY <1>2 DEF Widened, Word

\* lswi leaves words in all registers, wherever it stops.
LEMMA StringLoadedType ==
  ASSUME NEW i \in Instructions, NEW c \in Cpu, i.form \in Strings, NEW k \in 0 .. Count(i)
  PROVE  StringLoaded(i, c, k) \in [Reg -> Word]
<1>1. /\ Unit(i) = 1 /\ i.r \in Nat /\ NRegs \in Nat /\ NRegs >= 1 /\ WordBytes \in Nat
      /\ ByteValues \in Nat /\ ByteValues > 0
  BY Sizes, InstructionFacts DEF Unit, Reg, Strings
<1>2. ASSUME NEW q \in Reg
      PROVE  LET at == ((q - i.r) % NRegs) * WordBytes
             IN [b \in 0 .. WordBytes - 1 |->
                   IF at + b < k THEN Fetched(i, c, at + b)[0] ELSE 0] \in Word
  <2> DEFINE at == ((q - i.r) % NRegs) * WordBytes
  <2>1. (q - i.r) % NRegs \in Nat
    BY <1>1 DEF Reg
  <2>2. at \in Nat
    BY <1>1, <2>1
  <2> HIDE DEF at
  <2>3. ASSUME NEW b \in 0 .. WordBytes - 1
        PROVE  (IF at + b < k THEN Fetched(i, c, at + b)[0] ELSE 0) \in Byte
    <3>1. at + b \in Nat
      BY <1>1, <2>2
    <3>2. Fetched(i, c, at + b)[0] \in Byte
      BY <1>1, <3>1, FetchedType
    <3>3. 0 \in Byte
      BY <1>1 DEF Byte
    <3> QED
      BY <3>2, <3>3
  <2>4. [b \in 0 .. WordBytes - 1 |->
           IF at + b < k THEN Fetched(i, c, at + b)[0] ELSE 0] \in Word
    BY <2>3 DEF Word
  <2> QED
    BY <2>4 DEF at
<1>3. ASSUME NEW q \in Reg PROVE c.gpr[q] \in Word
  BY CpuParts
<1> QED
  BY <1>2, <1>3 DEF StringLoaded

\* The word of 1.0 is a word.
LEMMA OneWord == One \in Word
BY Sizes, AsWordWord DEF One

\* A floating-point load leaves registers, wherever it stops.
LEMMA FloatLoadedType ==
  ASSUME NEW i \in Instructions, NEW c \in Cpu, i.form \in FloatForms, NEW k, NEW m
  PROVE  FloatLoaded(i, c, k, m) \in [FRegs -> [ps : BOOLEAN, w : Words]]
<1> DEFINE word == Fetched(i, c, 0)
           paired == i.form = "psq_l" \/ (i.len = WordBytes /\ "PSE" \in m)
           new == [ps |-> paired,
                   w |-> IF i.len = 2 * WordBytes THEN [lane \in 0 .. 1 |-> Fetched(i, c, lane)]
                         ELSE IF ~paired THEN ToDouble[word]
                         ELSE [lane \in 0 .. 1 |->
                                 IF lane = 1 /\ i.form = "psq_l" THEN One ELSE word]]
<1>1. Unit(i) = WordBytes
  BY DEF Unit, FloatForms, Singles, Strings
<1>2. \A j \in 0 .. 1 : Fetched(i, c, j) \in Word
  BY <1>1, FetchedType DEF Word
<1>3. ToDouble[word] \in Words
  BY <1>2, LoadStoreAssumption DEF LoadStoreAssumption
<1>4. [lane \in 0 .. 1 |-> Fetched(i, c, lane)] \in Words
  BY <1>2 DEF Words
<1>5. [lane \in 0 .. 1 |-> IF lane = 1 /\ i.form = "psq_l" THEN One ELSE word] \in Words
  BY <1>2, OneWord DEF Words
<1>6. new \in [ps : BOOLEAN, w : Words]
  <2> HIDE DEF word
  <2> QED
    BY <1>3, <1>4, <1>5
<1>7. FloatLoaded(i, c, k, m) = IF k < Count(i) THEN c.fpr ELSE [c.fpr EXCEPT ![i.r] = new]
  BY DEF FloatLoaded
<1> HIDE DEF new
<1> QED
  BY <1>6, <1>7 DEF Cpu

\* A load changes registers only, a floating-point load no general one, and no
\* floating-point register before its last word is there.
LEMMA LoadedType ==
  ASSUME NEW i \in Instructions, NEW c \in Cpu, i.form \in Loading,
         NEW k \in 0 .. Count(i), NEW m
  PROVE  /\ Loaded(i, c, k, m) \in Cpu
         /\ Loaded(i, c, k, m).mem = c.mem
         /\ i.form \in {"lf", "psq_l"} => Loaded(i, c, k, m).gpr = c.gpr
         /\ k < Count(i) => Loaded(i, c, k, m).fpr = c.fpr
<1>1. CASE i.form = "load"
  <2>1. Unit(i) = i.len /\ i.len \in 1 .. WordBytes /\ i.r \in Reg
    BY <1>1, InstructionFacts DEF Unit
  <2>2. Widened(Fetched(i, c, 0), i.len, i.order) \in Word
    BY <2>1, FetchedType, WidenedType
  <2>3. Loaded(i, c, k, m) = IF k = 0 THEN c
          ELSE [c EXCEPT !.gpr[i.r] = Widened(Fetched(i, c, 0), i.len, i.order)]
    BY <1>1 DEF Loaded
  <2> QED
    BY <1>1, <2>1, <2>2, <2>3 DEF Cpu
<1>2. CASE i.form = "lmw"
  <2> DEFINE g == [q \in Reg |-> IF q \in i.r .. i.r + k - 1
                                 THEN Fetched(i, c, q - i.r) ELSE c.gpr[q]]
  <2>1. Loaded(i, c, k, m) = [c EXCEPT !.gpr = g]
    BY <1>2 DEF Loaded
  <2>2. Unit(i) = WordBytes /\ i.r \in Nat /\ Reg \subseteq Nat
    BY <1>2, InstructionFacts, Sizes DEF Unit, Strings, Reg
  <2>3. ASSUME NEW q \in Reg, q \in i.r .. i.r + k - 1 PROVE Fetched(i, c, q - i.r) \in Word
    <3>1. q - i.r \in Nat
      BY <2>2, <2>3
    <3> QED
      BY <2>2, <3>1, FetchedType DEF Word
  <2>4. g \in [Reg -> Word]
    BY <2>3, CpuParts
  <2> QED
    BY <1>2, <2>1, <2>4 DEF Cpu
<1>3. CASE i.form = "lswi"
  <2>1. Loaded(i, c, k, m) = [c EXCEPT !.gpr = StringLoaded(i, c, k)]
    BY <1>3 DEF Loaded
  <2>2. StringLoaded(i, c, k) \in [Reg -> Word]
    BY <1>3, StringLoadedType DEF Strings
  <2> QED
    BY <1>3, <2>1, <2>2 DEF Cpu
<1>4. CASE i.form \in {"lf", "psq_l"}
  <2>1. Loaded(i, c, k, m) = [c EXCEPT !.fpr = FloatLoaded(i, c, k, m)]
    BY <1>4 DEF Loaded
  <2>2. FloatLoaded(i, c, k, m) \in [FRegs -> [ps : BOOLEAN, w : Words]]
    BY <1>4, FloatLoadedType DEF FloatForms, Singles
  <2>3. k < Count(i) => FloatLoaded(i, c, k, m) = c.fpr
    BY DEF FloatLoaded
  <2> QED
    BY <2>1, <2>2, <2>3 DEF Cpu
<1> QED
  BY <1>1, <1>2, <1>3, <1>4 DEF Loading

\* What the first k accesses change and what they leave alone.
LEMMA MovedType ==
  ASSUME NEW i \in Instructions, NEW c \in Cpu, NEW k \in 0 .. Count(i), NEW m
  PROVE  /\ Moved(i, c, k, m) \in Cpu
         /\ i.form \in Loading => Moved(i, c, k, m).mem = c.mem
         /\ i.form \notin Loading => Moved(i, c, k, m).gpr = c.gpr
         /\ i.form \in FloatForms => Moved(i, c, k, m).gpr = c.gpr
         /\ i.form \notin Loading \/ k < Count(i) => Moved(i, c, k, m).fpr = c.fpr
         /\ \A x \in Address : Moved(i, c, k, m).mem[x] # c.mem[x] =>
              \E j \in 0 .. k - 1 : x \in Covered(i, c, j)
<1>1. CASE i.form \in Loading
  <2>1. Moved(i, c, k, m) = Loaded(i, c, k, m)
    BY <1>1 DEF Moved
  <2>2. i.form \in FloatForms => i.form \in {"lf", "psq_l"}
    BY <1>1 DEF Loading, FloatForms, Singles
  <2> QED
    BY <1>1, <2>1, <2>2, LoadedType
<1>2. CASE i.form \notin Loading
  <2>1. Moved(i, c, k, m) = Stored(i, c, k)
    BY <1>2 DEF Moved
  <2> QED
    BY <1>2, <2>1, StoredType
<1> QED
  BY <1>1, <1>2

\* The update of the base register changes general registers only.
LEMMA BasedType ==
  ASSUME NEW i \in Instructions, NEW c \in Cpu, NEW new \in Cpu, NEW done
  PROVE  /\ Based(i, c, new, done) \in Cpu
         /\ Based(i, c, new, done).mem = new.mem
         /\ Based(i, c, new, done).fpr = new.fpr
         /\ ~ i.update => Based(i, c, new, done) = new
<1>1. i.a \in Reg /\ EffectiveAddress(i, c) \in Address /\ 0 \in Address
  BY InstructionFacts, EffectiveAddressType, Sizes
<1>2. AsWord[EffectiveAddress(i, c)] \in Word /\ AsWord[0] \in Word
  BY <1>1, AsWordWord
<1> QED
  BY <1>1, <1>2 DEF Based, Cpu

\* The base register apart, the write back keeps what the instruction did.
LEMMA BasedKeeps ==
  ASSUME NEW i \in Instructions, NEW c \in Cpu, NEW new \in Cpu
  PROVE  Based(i, c, new, FALSE).mem = new.mem /\ Based(i, c, new, FALSE).fpr = new.fpr
BY DEF Based, Cpu

\* An instruction that completes leaves registers and a memory.
LEMMA CompletedType ==
  ASSUME NEW i \in Instructions, NEW c \in Cpu, NEW m
  PROVE  Completed(i, c, m) \in Cpu
<1>1. Count(i) \in 0 .. Count(i)
  BY CountUnit
<1>2. Moved(i, c, Count(i), m) \in Cpu
  BY <1>1, MovedType
<1> QED
  BY <1>2, BasedType DEF Completed

-----------------------------------------------------------------------------
(* One attempt *)

\* The exceptions that come before the first access.
LEMMA RefusalKinds ==
  ASSUME NEW i, NEW c, NEW m
  PROVE  Refusal(i, c, m) \in {"program", "fp", "align", "none"}
BY DEF Refusal

\* An attempt completes, or is refused before it has moved anything, or stops at
\* the first access that is denied and reports a page that is not granted.
LEMMA AttemptFacts ==
  ASSUME NEW i \in Instructions, NEW c \in Cpu, NEW r \in Rights, NEW m
  PROVE  /\ Attempt(i, c, r, m).cpu \in Cpu
         /\ Attempt(i, c, r, m).fault \in Fault
         /\ Attempt(i, c, r, m).fault = NoFault =>
              Attempt(i, c, r, m).cpu = Completed(i, c, m)
         /\ Attempt(i, c, r, m).fault # NoFault =>
              \/ /\ Refusal(i, c, m) # "none"
                 /\ Attempt(i, c, r, m).fault.vector = Refusal(i, c, m)
                 /\ Attempt(i, c, r, m).cpu = Based(i, c, c, FALSE)
              \/ /\ Refusal(i, c, m) = "none"
                 /\ Stop(i, c, r) < Count(i)
                 /\ Attempt(i, c, r, m).cpu =
                      Based(i, c, Moved(i, c, Stop(i, c, r), m), FALSE)
                 /\ Attempt(i, c, r, m).fault =
                      set_dsi_info(Min(DeniedTo(i, c, Stop(i, c, r), r)), i.form \notin Loading, r)
                 /\ Min(DeniedTo(i, c, Stop(i, c, r), r)) \in Address
                 /\ ~ Grants(r[Min(DeniedTo(i, c, Stop(i, c, r), r)) \div PageSize],
                             i.form \notin Loading)
<1> DEFINE why == Refusal(i, c, m)
           s == Stop(i, c, r)
           d == Min(DeniedTo(i, c, s, r))
           t == Attempt(i, c, r, m)
<1>1. why \in {"program", "fp", "align", "none"}
  BY RefusalKinds
<1>2. s \in 0 .. Count(i) /\ Count(i) \in Nat
  BY StopFacts, CountUnit
<1>3. NoFault \in Fault /\ NoFault.vector = "none"
  BY Sizes DEF NoFault, Fault
<1>4. CASE why # "none"
  <2> DEFINE f == [vector |-> why,
                   dar |-> IF why = "align" THEN EffectiveAddress(i, c) ELSE 0, dsisr |-> {}]
  <2>1. t.cpu = Based(i, c, c, FALSE) /\ t.fault = f
    BY <1>4 DEF Attempt
  <2>2. f \in Fault
    <3> HIDE DEF why
    <3> QED
      BY <1>1, <1>4, EffectiveAddressType, Sizes DEF Fault
  <2>3. Based(i, c, c, FALSE) \in Cpu
    BY BasedType
  <2>4. f.vector = why
    OBVIOUS
  <2> HIDE DEF f, why, t
  <2>5. t.fault # NoFault
    BY <1>3, <1>4, <2>1, <2>4
  <2> QED
    BY <1>4, <2>1, <2>2, <2>3, <2>4, <2>5 DEF t, why
<1>5. CASE why = "none" /\ s = Count(i)
  <2>1. t.cpu = Based(i, c, Moved(i, c, Count(i), m), TRUE) /\ t.fault = NoFault
    BY <1>5 DEF Attempt
  <2>2. Moved(i, c, Count(i), m) \in Cpu
    BY <1>2, MovedType
  <2>3. Based(i, c, Moved(i, c, Count(i), m), TRUE) \in Cpu
    BY <2>2, BasedType
  <2> QED
    BY <1>3, <2>1, <2>3 DEF Completed
<1>6. CASE why = "none" /\ s # Count(i)
  <2> DEFINE f == set_dsi_info(d, i.form \notin Loading, r)
  <2>1. t.cpu = Based(i, c, Moved(i, c, s, m), FALSE) /\ t.fault = f
    BY <1>6 DEF Attempt
  <2>2. Based(i, c, Moved(i, c, s, m), FALSE) \in Cpu
    <3>1. Moved(i, c, s, m) \in Cpu
      BY <1>2, MovedType
    <3> QED
      BY <3>1, BasedType
  <2>3. d \in Address /\ ~ Grants(r[d \div PageSize], i.form \notin Loading)
    <3>1. DeniedTo(i, c, s, r) # {} /\ s \in Nat
      BY <1>2, <1>6, StopFacts
    <3>2. At(i, c, s) \in Address /\ Unit(i) \in Nat /\ (i.form \notin Loading) \in BOOLEAN
      BY <3>1, AtType, CountUnit
    <3> HIDE DEF s
    <3> QED
      BY <3>1, <3>2, DeniedShape DEF DeniedTo
  <2>4. f.vector = "dsi" /\ f \in Fault
    <3> HIDE DEF d
    <3> QED
      BY <2>3 DEF set_dsi_info, Fault
  <2> HIDE DEF f, t, d
  <2>5. t.fault # NoFault
    BY <1>3, <2>1, <2>4
  <2>6. s < Count(i)
    BY <1>2, <1>6
  <2> QED
    BY <1>6, <2>1, <2>2, <2>3, <2>4, <2>5, <2>6 DEF t, f, d
<1> QED
  BY <1>4, <1>5, <1>6

-----------------------------------------------------------------------------
(* Types *)

\* The instructions, the registers and the modes of a program.
LEMMA ProgramFacts ==
  ASSUME NEW p \in Programs
  PROVE  p.code \subseteq Instructions /\ p.scratch \subseteq Reg /\ p.modes \subseteq SUBSET Mode
BY LoadStoreAssumption DEF LoadStoreAssumption, Instructions

\* Types hold at the start.
LEMMA TypeInit == Init => TypeOK
<1> SUFFICES ASSUME Init PROVE TypeOK
  OBVIOUS
<1>1. AsWord[0] \in Word /\ 0 \in Byte
  BY Sizes, AsWordWord DEF Byte
<1>2. [lane \in 0 .. 1 |-> AsWord[0]] \in Words
  BY <1>1 DEF Words
<1>3. cpu \in Cpu
  BY <1>1, <1>2 DEF Init, Cpu
<1>4. NoFault \in Fault
  BY Sizes DEF NoFault, Fault
<1> QED
  BY <1>3, <1>4 DEF Init, TypeOK, Right

\* Every step keeps the types.
LEMMA TypeStep == TypeOK /\ [Next]_vars => TypeOK'
<1> SUFFICES ASSUME TypeOK, [Next]_vars PROVE TypeOK'
  OBVIOUS
<1> USE DEF TypeOK
<1>1. rights \in Rights
  BY DEF Rights
<1>2. ASSUME UNCHANGED program, NEW i \in program.code, Execute(i) PROVE TypeOK'
  <2> DEFINE t == Attempt(i, cpu, rights, modes)
  <2>1. i \in Instructions
    BY ProgramFacts
  <2>2. t.cpu \in Cpu /\ t.fault \in Fault
    BY <1>1, <2>1, AttemptFacts
  <2>3. Completed(i, cpu, modes) \in Cpu
    BY <2>1, CompletedType
  <2> HIDE DEF t
  <2>4. /\ cpu' = t.cpu /\ fault' = t.fault /\ phase = "running" /\ UNCHANGED <<rights, modes>>
        /\ IF t.fault = NoFault
           THEN goal' = t.cpu /\ UNCHANGED <<phase, inst, faults>>
           ELSE /\ phase' = "handler" /\ inst' = i /\ faults' = 1
                /\ goal' \in {Completed(i, cpu, modes), t.cpu}
    BY <1>2 DEF Execute, t
  <2> QED
    BY <1>2, <2>1, <2>2, <2>3, <2>4
<1>3. ASSUME UNCHANGED program, Retry PROVE TypeOK'
  <2> DEFINE t == Attempt(inst, cpu, rights, modes)
  <2>1. inst \in Instructions
    BY <1>3 DEF Retry
  <2>2. t.cpu \in Cpu /\ t.fault \in Fault
    BY <1>1, <2>1, AttemptFacts
  <2> HIDE DEF t
  <2>4. /\ cpu' = t.cpu /\ fault' = t.fault /\ phase = "returning" /\ UNCHANGED <<rights, modes>>
        /\ IF t.fault = NoFault
           THEN phase' = "running" /\ inst' = NoInst /\ goal' = t.cpu /\ faults' = 0
           ELSE /\ phase' = "handler" /\ inst' = inst /\ faults' = faults + 1
                /\ goal' \in {goal, t.cpu}
    BY <1>3 DEF Retry, t
  <2> QED
    BY <1>3, <2>1, <2>2, <2>4
<1>4. ASSUME UNCHANGED program, MapPage PROVE TypeOK'
  <2>1. fault.dar \div PageSize \in Page
    BY PageOf DEF Fault
  <2>2. PICK right \in {"ro", "rw"} : rights' = [rights EXCEPT ![fault.dar \div PageSize] = right]
    BY <1>4 DEF MapPage
  <2>3. rights' \in [Page -> Right]
    BY <2>1, <2>2 DEF Right
  <2> QED
    BY <1>4, <2>3 DEF MapPage
<1>5. ASSUME UNCHANGED program, EnableFloat PROVE TypeOK'
  BY <1>5 DEF EnableFloat, Mode
<1>6. ASSUME UNCHANGED program, GiveUp PROVE TypeOK'
  <2>1. NoFault \in Fault
    BY Sizes DEF NoFault, Fault
  <2> QED
    BY <1>6, <2>1 DEF GiveUp
<1>7. ASSUME UNCHANGED program, NEW p \in Page, NEW right \in Right, TakePage(p, right)
      PROVE  TypeOK'
  BY <1>7 DEF TakePage
<1>8. ASSUME UNCHANGED program, TakeFloat PROVE TypeOK'
  BY <1>8 DEF TakeFloat
<1>9. ASSUME UNCHANGED program, NEW q \in program.scratch, NEW w \in Word, Compute(q, w)
      PROVE  TypeOK'
  <2>1. q \in Reg
    BY ProgramFacts
  <2>2. cpu' \in Cpu
    BY <1>9, <2>1 DEF Compute, Cpu
  <2> QED
    BY <1>9, <2>2 DEF Compute
<1>10. ASSUME UNCHANGED program, NEW m \in program.modes, SetModes(m) PROVE TypeOK'
  <2>1. m \subseteq Mode
    BY ProgramFacts
  <2> QED
    BY <1>10, <2>1 DEF SetModes
<1>11. CASE UNCHANGED vars
  BY <1>11 DEF vars
<1> QED
  BY <1>2, <1>3, <1>4, <1>5, <1>6, <1>7, <1>8, <1>9, <1>10, <1>11 DEF Next, Step

\* The registers, the memory, the rights and the exception have their types, and
\* the phase says whether there is an exception, for every program.
THEOREM TypeCorrect == Spec => []TypeOK
BY TypeInit, TypeStep, PTL DEF Spec
-----------------------------------------------------------------------------
(* What a store may write *)

\* An attempt writes only where translation lets the guest write.
LEMMA AttemptWrites ==
  ASSUME NEW i \in Instructions, NEW c \in Cpu, NEW r \in Rights, NEW m,
         NEW x \in Address, Attempt(i, c, r, m).cpu.mem[x] # c.mem[x]
  PROVE  Grants(r[x \div PageSize], TRUE)
<1> DEFINE s == Stop(i, c, r)
<1>1. s \in 0 .. Count(i)
  BY StopFacts
<1>2. Moved(i, c, s, m) \in Cpu
  BY <1>1, MovedType
<1>3. CASE Refusal(i, c, m) # "none"
  <2>1. Attempt(i, c, r, m).cpu = Based(i, c, c, FALSE)
    BY <1>3 DEF Attempt
  <2>2. Based(i, c, c, FALSE).mem = c.mem /\ Based(i, c, c, FALSE).fpr = c.fpr
    BY BasedKeeps
  <2> QED
    BY <2>1, <2>2
<1>4. CASE Refusal(i, c, m) = "none"
  <2>1. PICK done \in BOOLEAN : Attempt(i, c, r, m).cpu = Based(i, c, Moved(i, c, s, m), done)
    BY <1>4 DEF Attempt
  <2>2. Moved(i, c, s, m).mem[x] # c.mem[x]
    <3>1. Based(i, c, Moved(i, c, s, m), done).mem = Moved(i, c, s, m).mem
      BY <1>2, BasedType
    <3> QED
      BY <2>1, <3>1
  <2>3. i.form \notin Loading /\ \E j \in 0 .. s - 1 : x \in Covered(i, c, j)
    <3> HIDE DEF s
    <3> QED
      BY <1>1, <2>2, MovedType
  <2>4. PICK j \in 0 .. s - 1 : x \in Covered(i, c, j)
    BY <2>3
  <2>5. Grants(r[x \div PageSize], i.form \notin Loading)
    BY <2>4, CoveredGranted
  <2>6. (i.form \notin Loading) = TRUE
    BY <2>3
  <2> QED
    BY <2>5, <2>6
<1> QED
  BY <1>3, <1>4

\* Only an attempt at an instruction changes the memory.
LEMMA MemoryStep ==
  ASSUME TypeOK, [Next]_vars
  PROVE  \/ cpu'.mem = cpu.mem
         \/ \E i \in Instructions : cpu' = Attempt(i, cpu, rights, modes).cpu
<1> USE DEF TypeOK
<1>1. ASSUME NEW i \in program.code, Execute(i)
      PROVE  \E a \in Instructions : cpu' = Attempt(a, cpu, rights, modes).cpu
  BY <1>1, ProgramFacts DEF Execute
<1>2. ASSUME Retry
      PROVE  \E a \in Instructions : cpu' = Attempt(a, cpu, rights, modes).cpu
  BY <1>2 DEF Retry
<1>3. ASSUME NEW q \in program.scratch, NEW w \in Word, Compute(q, w) PROVE cpu'.mem = cpu.mem
  BY <1>3 DEF Compute, Cpu
<1>4. ASSUME \/ MapPage \/ EnableFloat \/ GiveUp \/ TakeFloat \/ UNCHANGED vars
             \/ \E p \in Page, right \in Right : TakePage(p, right)
             \/ \E m \in program.modes : SetModes(m)
      PROVE  cpu' = cpu
  BY <1>4 DEF MapPage, EnableFloat, GiveUp, TakeFloat, TakePage, SetModes, vars
<1> QED
  BY <1>1, <1>2, <1>3, <1>4 DEF Next, Step

\* A store writes no byte of a page that the guest may not write, whether it
\* completes, faults, or starts in a page that it may (access_page_tail), for
\* every page size and every program.
THEOREM WritesAreEntitled == Spec => WritesEntitled
<1>1. ASSUME TypeOK, [Next]_vars
      PROVE  \A x \in Address : cpu'.mem[x] # cpu.mem[x] => Grants(rights[x \div PageSize], TRUE)
  <2> SUFFICES ASSUME NEW x \in Address, cpu'.mem[x] # cpu.mem[x]
               PROVE  Grants(rights[x \div PageSize], TRUE)
    OBVIOUS
  <2>1. PICK i \in Instructions : cpu' = Attempt(i, cpu, rights, modes).cpu
    BY <1>1, MemoryStep
  <2>2. rights \in Rights /\ cpu \in Cpu
    BY <1>1 DEF TypeOK, Rights
  <2> QED
    BY <2>1, <2>2, AttemptWrites
<1> QED
  BY <1>1, TypeCorrect, PTL DEF Spec, WritesEntitled

-----------------------------------------------------------------------------
(* What an access that faults leaves *)

\* Registers and memories are the same when their parts are.
LEMMA CpuEqual ==
  ASSUME NEW c \in Cpu, NEW d \in Cpu, c.gpr = d.gpr, c.fpr = d.fpr, c.mem = d.mem
  PROVE  c = d
BY DEF Cpu

\* No access, no change; only lswi clears a register before its first access.
LEMMA NothingMoved ==
  ASSUME NEW i \in Instructions, NEW c \in Cpu, NEW m
  PROVE  /\ Moved(i, c, 0, m).mem = c.mem
         /\ i.form # "lswi" => Moved(i, c, 0, m).gpr = c.gpr
         /\ Moved(i, c, 0, m).fpr = c.fpr
<1>1. 0 \in 0 .. Count(i) /\ 0 < Count(i)
  BY CountUnit
<1>2. Moved(i, c, 0, m).mem = c.mem
  <2>1. Moved(i, c, 0, m) \in Cpu
    BY <1>1, MovedType
  <2>2. \A x \in Address : Moved(i, c, 0, m).mem[x] = c.mem[x]
    BY <1>1, MovedType
  <2> QED
    BY <2>1, <2>2 DEF Cpu
<1>3. CASE i.form = "load"
  BY <1>1, <1>2, <1>3, MovedType DEF Moved, Loaded
<1>4. CASE i.form = "lmw"
  <2> DEFINE g == [q \in Reg |-> IF q \in i.r .. i.r + 0 - 1
                                 THEN Fetched(i, c, q - i.r) ELSE c.gpr[q]]
  <2>1. Moved(i, c, 0, m) = [c EXCEPT !.gpr = g]
    BY <1>4 DEF Moved, Loaded, Loading
  <2>2. \A q \in Reg : q \notin i.r .. i.r + 0 - 1
    BY InstructionFacts, Sizes DEF Reg
  <2>3. g = c.gpr
    BY <2>2 DEF Cpu
  <2> QED
    BY <1>1, <1>2, <2>1, <2>3, MovedType DEF Cpu
<1> QED
  BY <1>1, <1>2, <1>3, <1>4, MovedType, InstructionFacts
  DEF IntegerForms, FloatForms, Singles, Loading

\* What an attempt that faults leaves alone.
LEMMA FaultLeaves ==
  ASSUME NEW i \in Instructions, NEW c \in Cpu, NEW r \in Rights, NEW m,
         Attempt(i, c, r, m).fault # NoFault
  PROVE  /\ Count(i) = 1 => Attempt(i, c, r, m).cpu.mem = c.mem
         /\ Count(i) = 1 /\ i.form # "lswi" /\ Restarts(i) =>
              Attempt(i, c, r, m).cpu.gpr = c.gpr
         /\ Attempt(i, c, r, m).cpu.fpr = c.fpr
<1> DEFINE s == Stop(i, c, r)
<1>1. s \in 0 .. Count(i) /\ Count(i) \in Nat
  BY StopFacts, CountUnit
<1>2. ASSUME NEW new \in Cpu, Restarts(i) PROVE Based(i, c, new, FALSE).gpr = new.gpr
  BY <1>2 DEF Based, Restarts
<1>3. CASE Attempt(i, c, r, m).cpu = Based(i, c, c, FALSE)
  <2>1. Based(i, c, c, FALSE).mem = c.mem /\ Based(i, c, c, FALSE).fpr = c.fpr
    BY BasedKeeps
  <2> QED
    BY <1>2, <1>3, <2>1
<1>4. CASE s < Count(i) /\ Attempt(i, c, r, m).cpu = Based(i, c, Moved(i, c, s, m), FALSE)
  <2>1. Moved(i, c, s, m) \in Cpu /\ Moved(i, c, s, m).fpr = c.fpr
    BY <1>1, <1>4, MovedType
  <2>2. Count(i) = 1 => s = 0
    BY <1>1, <1>4
  <2> DEFINE new == Moved(i, c, s, m)
  <2>3. Based(i, c, new, FALSE).mem = new.mem /\ Based(i, c, new, FALSE).fpr = new.fpr
    <3>1. new \in Cpu
      BY <2>1
    <3> HIDE DEF new
    <3> QED
      BY <3>1, BasedKeeps
  <2>4. Count(i) = 1 => new.mem = c.mem /\ (i.form # "lswi" => new.gpr = c.gpr)
    BY <2>2, NothingMoved
  <2>5. Restarts(i) => Based(i, c, new, FALSE).gpr = new.gpr
    BY <1>2, <2>1
  <2>6. new.fpr = c.fpr
    BY <2>1
  <2> HIDE DEF new
  <2> QED
    BY <1>4, <2>3, <2>4, <2>5, <2>6 DEF new
<1> QED
  BY <1>3, <1>4, AttemptFacts

\* A single access that faults, also in its second page, has changed nothing, and
\* a floating-point register is never half loaded (do_lf_common, do_psq_l).
THEOREM AllOrNothingHolds == Spec => AllOrNothing
<1>1. ASSUME TypeOK, [Next]_vars, phase # "handler", phase' = "handler"
      PROVE  /\ Count(inst') = 1 => cpu'.mem = cpu.mem
             /\ Count(inst') = 1 /\ inst'.form # "lswi" /\ Restarts(inst') => cpu'.gpr = cpu.gpr
             /\ cpu'.fpr = cpu.fpr
  <2>1. PICK i \in Instructions :
          /\ cpu' = Attempt(i, cpu, rights, modes).cpu
          /\ Attempt(i, cpu, rights, modes).fault # NoFault
          /\ inst' = i
    <3>1. ASSUME NEW i \in program.code, Execute(i)
          PROVE  \E a \in Instructions : /\ cpu' = Attempt(a, cpu, rights, modes).cpu
                                         /\ Attempt(a, cpu, rights, modes).fault # NoFault
                                         /\ inst' = a
      BY <1>1, <3>1, ProgramFacts DEF Execute, TypeOK
    <3>2. ASSUME Retry
          PROVE  \E a \in Instructions : /\ cpu' = Attempt(a, cpu, rights, modes).cpu
                                         /\ Attempt(a, cpu, rights, modes).fault # NoFault
                                         /\ inst' = a
      BY <1>1, <3>2 DEF Retry, TypeOK
    <3>3. ~ (\/ MapPage \/ EnableFloat \/ GiveUp \/ TakeFloat \/ UNCHANGED vars
             \/ \E p \in Page, right \in Right : TakePage(p, right)
             \/ \E q \in program.scratch, w \in Word : Compute(q, w)
             \/ \E m \in program.modes : SetModes(m))
      BY <1>1 DEF MapPage, EnableFloat, GiveUp, TakeFloat, TakePage, SetModes, Compute, vars
    <3> QED
      BY <1>1, <3>1, <3>2, <3>3 DEF Next, Step
  <2>2. rights \in Rights /\ cpu \in Cpu
    BY <1>1 DEF TypeOK, Rights
  <2> QED
    BY <2>1, <2>2, FaultLeaves
<1> QED
  BY <1>1, TypeCorrect, PTL DEF Spec, AllOrNothing
-----------------------------------------------------------------------------
(* Going back to an instruction *)

\* What has moved when the access after the first k faults does not change what
\* the whole instruction leaves.
LEMMA SamePlaces ==
  ASSUME NEW i, NEW c, NEW d, EffectiveAddress(i, c) = EffectiveAddress(i, d)
  PROVE  \A j : At(i, c, j) = At(i, d, j) /\ Covered(i, c, j) = Covered(i, d, j)
<1>1. \A j : At(i, c, j) = At(i, d, j)
  BY DEF At
<1> QED
  BY <1>1 DEF Covered

\* Loads from the same place in the same memory bring the same bytes.
LEMMA SameFetched ==
  ASSUME NEW i, NEW c, NEW d, EffectiveAddress(i, c) = EffectiveAddress(i, d), c.mem = d.mem
  PROVE  \A j : Fetched(i, c, j) = Fetched(i, d, j)
BY SamePlaces DEF Fetched

\* A store that stopped after k accesses stores the same when it starts again.
LEMMA ResumedStore ==
  ASSUME NEW i \in Instructions, NEW c \in Cpu, i.form \notin Loading,
         NEW k \in 0 .. Count(i)
  PROVE  LET d == Stored(i, c, k)
         IN /\ Stored(i, d, Count(i)) = Stored(i, c, Count(i))
            /\ EffectiveAddress(i, d) = EffectiveAddress(i, c)
<1> DEFINE d == Stored(i, c, k)
           n == Count(i)
           last(e, h, x) == {j \in 0 .. h - 1 : x \in Covered(i, e, j)}
           from(e, x, z) == Source(i, e, z)[(x - At(i, e, z)) % Space]
           moved(e, h) == [x \in Address |->
             IF last(e, h, x) = {} THEN e.mem[x] ELSE from(e, x, Max(last(e, h, x)))]
<1>1. d \in Cpu /\ d.gpr = c.gpr /\ d.fpr = c.fpr /\ k \in 0 .. n /\ n \in Nat
  BY StoredType, CountUnit
<1>2. \A e, h : Stored(i, e, h) = [e EXCEPT !.mem = moved(e, h)]
  BY DEF Stored
<1>3. d = [c EXCEPT !.mem = moved(c, k)]
  BY <1>2
<1> HIDE DEF d
<1>4. EffectiveAddress(i, d) = EffectiveAddress(i, c)
  BY <1>1 DEF EffectiveAddress
<1>5. \A j : At(i, d, j) = At(i, c, j) /\ Covered(i, d, j) = Covered(i, c, j)
  BY <1>4, SamePlaces
<1>6. \A j : Source(i, d, j) = Source(i, c, j)
  BY <1>1 DEF Source
<1>7. \A x, z : from(d, x, z) = from(c, x, z)
  BY <1>5, <1>6
<1>8. \A x : last(d, n, x) = last(c, n, x)
  BY <1>5
<1>9. \A x : last(c, k, x) \subseteq last(c, n, x)
  BY <1>1
<1>10. \A x \in Address : d.mem[x] = moved(c, k)[x]
  <2> HIDE DEF last, from
  <2> QED
    BY <1>3 DEF Cpu
<1>11. moved(d, n) = moved(c, n)
  <2> SUFFICES ASSUME NEW x \in Address
               PROVE  (IF last(d, n, x) = {} THEN d.mem[x] ELSE from(d, x, Max(last(d, n, x))))
                        = (IF last(c, n, x) = {} THEN c.mem[x] ELSE from(c, x, Max(last(c, n, x))))
    OBVIOUS
  <2> HIDE DEF from
  <2>1. CASE last(c, n, x) = {}
    <3>1. last(c, k, x) = {} /\ last(d, n, x) = {}
      BY <1>8, <1>9, <2>1
    <3> HIDE DEF last
    <3>2. d.mem[x] = c.mem[x]
      BY <1>10, <3>1
    <3> QED
      BY <2>1, <3>1, <3>2
  <2>2. CASE last(c, n, x) # {}
    <3> HIDE DEF last
    <3> QED
      BY <1>7, <1>8, <2>2
  <2> QED
    BY <2>1, <2>2
<1>12. Stored(i, d, n) = Stored(i, c, n)
  <2> HIDE DEF moved
  <2> QED
    BY <1>1, <1>2, <1>11 DEF Cpu
<1> QED
  BY <1>4, <1>12 DEF d

\* So does lmw, when its base register is not one of those it loads.
LEMMA ResumedMultiple ==
  ASSUME NEW i \in Instructions, NEW c \in Cpu, NEW m, i.form = "lmw", Restarts(i),
         NEW k \in 0 .. Count(i)
  PROVE  LET d == Loaded(i, c, k, m)
         IN /\ Loaded(i, d, Count(i), m) = Loaded(i, c, Count(i), m)
            /\ EffectiveAddress(i, d) = EffectiveAddress(i, c)
<1> DEFINE d == Loaded(i, c, k, m)
           n == Count(i)
           g(e, h) == [q \in Reg |-> IF q \in i.r .. i.r + h - 1
                                     THEN Fetched(i, e, q - i.r) ELSE e.gpr[q]]
<1>1. /\ d \in Cpu /\ d.mem = c.mem /\ n \in Nat /\ k <= n /\ k \in Nat /\ n = NRegs - i.r
      /\ i.r \in Nat /\ i.a \in Reg /\ ~ i.indexed /\ NRegs \in Nat
  BY LoadedType, CountUnit, InstructionFacts, Sizes
  DEF Loading, Count, Multiples, Strings, FloatForms, Singles, Reg
<1>2. \A e, h : Loaded(i, e, h, m) = [e EXCEPT !.gpr = g(e, h)]
  BY DEF Loaded
<1>3. d = [c EXCEPT !.gpr = g(c, k)]
  BY <1>2
<1> HIDE DEF d
<1>4. \A q \in Reg : d.gpr[q] = g(c, k)[q]
  BY <1>3 DEF Cpu
<1>5. \A q \in Reg : q < i.r => d.gpr[q] = c.gpr[q]
  BY <1>1, <1>4 DEF Reg
<1>6. i.a = 0 \/ d.gpr[i.a] = c.gpr[i.a]
  BY <1>1, <1>5 DEF Restarts, Reg
<1>7. EffectiveAddress(i, d) = EffectiveAddress(i, c)
  BY <1>1, <1>6 DEF EffectiveAddress
<1>8. \A j : Fetched(i, d, j) = Fetched(i, c, j)
  BY <1>1, <1>7, SameFetched
<1>9. g(d, n) = g(c, n)
  <2> SUFFICES ASSUME NEW q \in Reg
               PROVE  (IF q \in i.r .. i.r + n - 1 THEN Fetched(i, d, q - i.r) ELSE d.gpr[q])
                        = (IF q \in i.r .. i.r + n - 1 THEN Fetched(i, c, q - i.r) ELSE c.gpr[q])
    OBVIOUS
  <2>1. q \notin i.r .. i.r + n - 1 => d.gpr[q] = c.gpr[q]
    BY <1>1, <1>5 DEF Reg
  <2> QED
    BY <1>8, <2>1
<1>10. Loaded(i, d, n, m) = Loaded(i, c, n, m)
  <2> HIDE DEF g
  <2> QED
    BY <1>1, <1>2, <1>3, <1>9 DEF Cpu
<1> QED
  BY <1>7, <1>10 DEF d

\* So does lswi, which refuses to load its base register.
LEMMA ResumedString ==
  ASSUME NEW i \in Instructions, NEW c \in Cpu, NEW m, i.form = "lswi", ~ Invalid(i),
         NEW k \in 0 .. Count(i)
  PROVE  LET d == Loaded(i, c, k, m)
         IN /\ Loaded(i, d, Count(i), m) = Loaded(i, c, Count(i), m)
            /\ EffectiveAddress(i, d) = EffectiveAddress(i, c)
<1> DEFINE d == Loaded(i, c, k, m)
           n == Count(i)
           at(q) == ((q - i.r) % NRegs) * WordBytes
<1>1. /\ d \in Cpu /\ d.mem = c.mem /\ n \in Nat /\ k <= n /\ k \in Nat
      /\ i.r \in Nat /\ i.a \in Reg /\ ~ i.indexed /\ NRegs \in Nat /\ NRegs >= 1
      /\ WordBytes \in Nat /\ WordBytes >= 1
  BY LoadedType, CountUnit, InstructionFacts, Sizes DEF Loading, Strings, Reg
<1>2. \A e, h : Loaded(i, e, h, m) = [e EXCEPT !.gpr = StringLoaded(i, e, h)]
  BY DEF Loaded
<1>3. d = [c EXCEPT !.gpr = StringLoaded(i, c, k)]
  BY <1>2
<1> HIDE DEF d
<1>4. \A q \in Reg : d.gpr[q] = StringLoaded(i, c, k)[q]
  BY <1>3 DEF Cpu
<1>5. ASSUME NEW q \in Reg, ~ (at(q) < n) PROVE d.gpr[q] = c.gpr[q]
  <2>1. StringLoaded(i, c, k)[q] = c.gpr[q]
    BY <1>5 DEF StringLoaded
  <2> QED
    BY <1>4, <2>1
<1>6. ~ (at(i.a) < n)
  <2> DEFINE f == (i.a - i.r) % NRegs
             z == (n + WordBytes - 1) \div WordBytes
  <2>1. f >= z
    <3>1. f \in Nat /\ z \in Nat
      BY <1>1 DEF Reg
    <3>2. ~ (f < z)
      BY DEF Invalid
    <3> HIDE DEF f, z
    <3> QED
      BY <3>1, <3>2
  <2>2. z * WordBytes >= n /\ z \in Nat /\ f \in Nat
    BY <1>1 DEF Reg
  <2>3. f * WordBytes >= n
    <3> HIDE DEF f, z
    <3>1. f * WordBytes >= z * WordBytes
      BY <1>1, <2>1, <2>2
    <3>2. f * WordBytes \in Nat /\ z * WordBytes \in Nat
      BY <1>1, <2>2
    <3> QED
      BY <1>1, <2>2, <3>1, <3>2
  <2>4. at(i.a) = f * WordBytes
    OBVIOUS
  <2>5. f * WordBytes \in Nat
    <3> HIDE DEF f
    <3> QED
      BY <1>1, <2>2
  <2> HIDE DEF at, f
  <2> QED
    BY <1>1, <2>3, <2>4, <2>5
<1>7. EffectiveAddress(i, d) = EffectiveAddress(i, c)
  <2>1. d.gpr[i.a] = c.gpr[i.a]
    BY <1>1, <1>5, <1>6
  <2> QED
    BY <1>1, <2>1 DEF EffectiveAddress
<1>8. \A j : Fetched(i, d, j) = Fetched(i, c, j)
  BY <1>1, <1>7, SameFetched
<1>9. StringLoaded(i, d, n) = StringLoaded(i, c, n)
  <2> DEFINE word(e, q) == [b \in 0 .. WordBytes - 1 |->
                              IF at(q) + b < n THEN Fetched(i, e, at(q) + b)[0] ELSE 0]
  <2>1. \A e : StringLoaded(i, e, n)
                 = [q \in Reg |-> IF at(q) < n /\ at(q) <= n THEN word(e, q) ELSE e.gpr[q]]
    BY DEF StringLoaded
  <2>2. \A q : word(d, q) = word(c, q)
    <3> HIDE DEF at
    <3> QED
      BY <1>8
  <2>3. \A q \in Reg : at(q) \in Nat
    <3> SUFFICES ASSUME NEW q \in Reg PROVE at(q) \in Nat
      OBVIOUS
    <3>1. (q - i.r) % NRegs \in Nat
      BY <1>1 DEF Reg
    <3> QED
      BY <1>1, <3>1
  <2> HIDE DEF word, at
  <2>4. \A q \in Reg : ~ (at(q) < n /\ at(q) <= n) => d.gpr[q] = c.gpr[q]
    BY <1>1, <1>5, <2>3
  <2> DEFINE reg(e, q) == IF at(q) < n /\ at(q) <= n THEN word(e, q) ELSE e.gpr[q]
  <2>5. \A q \in Reg : reg(d, q) = reg(c, q)
    BY <2>2, <2>4
  <2>6. /\ StringLoaded(i, d, n) = [q \in Reg |-> reg(d, q)]
        /\ StringLoaded(i, c, n) = [q \in Reg |-> reg(c, q)]
    BY <2>1
  <2> HIDE DEF reg
  <2> QED
    BY <2>5, <2>6
<1>10. Loaded(i, d, n, m) = Loaded(i, c, n, m)
  BY <1>1, <1>2, <1>3, <1>9 DEF Cpu
<1> QED
  BY <1>7, <1>10 DEF d

\* So does every form that restarts, from wherever it stopped.
LEMMA Resumed ==
  ASSUME NEW i \in Instructions, NEW c \in Cpu, NEW m, Restarts(i), ~ Invalid(i),
         NEW k \in 0 .. Count(i), k < Count(i)
  PROVE  /\ Moved(i, Moved(i, c, k, m), Count(i), m) = Moved(i, c, Count(i), m)
         /\ EffectiveAddress(i, Moved(i, c, k, m)) = EffectiveAddress(i, c)
<1>1. CASE i.form \notin Loading
  <2>1. \A e, h : Moved(i, e, h, m) = Stored(i, e, h)
    BY <1>1 DEF Moved
  <2> QED
    BY <1>1, <2>1, ResumedStore
<1>2. CASE i.form \in Loading
  <2>1. \A e, h : Moved(i, e, h, m) = Loaded(i, e, h, m)
    BY <1>2 DEF Moved
  <2>2. CASE i.form = "lmw"
    BY <2>1, <2>2, ResumedMultiple
  <2>3. CASE i.form = "lswi"
    BY <2>1, <2>3, ResumedString
  <2>4. CASE i.form = "load"
    <3>1. Count(i) = 1
      BY <2>4 DEF Count, Multiples, Strings, FloatForms, Singles
    <3>2. k = 0
      BY <3>1
    <3>3. Loaded(i, c, k, m) = c
      BY <2>4, <3>2 DEF Loaded
    <3> QED
      BY <2>1, <3>3
  <2>5. CASE i.form \in {"lf", "psq_l"}
    <3>1. Loaded(i, c, k, m) \in Cpu /\ Loaded(i, c, k, m).fpr = c.fpr
          /\ Loaded(i, c, k, m).gpr = c.gpr /\ Loaded(i, c, k, m).mem = c.mem
      BY <1>2, <2>5, LoadedType
    <3>2. Loaded(i, c, k, m) = c
      BY <3>1, CpuEqual
    <3> QED
      BY <2>1, <3>2
  <2> QED
    BY <1>2, <2>2, <2>3, <2>4, <2>5 DEF Loading
<1> QED
  BY <1>1, <1>2

\* What an interrupted attempt leaves is on the way to what the instruction leaves
\* without the interruption.
LEMMA ResumeSame ==
  ASSUME NEW i \in Instructions, NEW c \in Cpu, NEW r \in Rights, NEW m, Restarts(i),
         Attempt(i, c, r, m).fault.vector \in Restarted
  PROVE  Completed(i, Attempt(i, c, r, m).cpu, m) = Completed(i, c, m)
<1> DEFINE t == Attempt(i, c, r, m)
           s == Stop(i, c, r)
           new == Moved(i, c, s, m)
<1>1. t.fault # NoFault
  BY DEF NoFault, Restarted
<1>2. \A e : Based(i, c, e, FALSE) = e
  BY DEF Based, Restarts
<1>3. CASE Refusal(i, c, m) # "none" /\ t.cpu = Based(i, c, c, FALSE)
  BY <1>2, <1>3
<1>4. CASE Refusal(i, c, m) = "none" /\ s < Count(i) /\ t.cpu = Based(i, c, new, FALSE)
  <2>1. t.cpu = new
    BY <1>2, <1>4
  <2>2. ~ Invalid(i)
    BY <1>4 DEF Refusal
  <2>3. s \in 0 .. Count(i)
    BY StopFacts
  <2>4. Moved(i, new, Count(i), m) = Moved(i, c, Count(i), m)
        /\ EffectiveAddress(i, new) = EffectiveAddress(i, c)
    <3> HIDE DEF s
    <3> QED
      BY <1>4, <2>2, <2>3, Resumed
  <2> HIDE DEF new, t
  <2>5. Completed(i, new, m) = Completed(i, c, m)
    BY <2>4 DEF Completed, Based
  <2> QED
    BY <2>1, <2>5 DEF t
<1> QED
  BY <1>1, <1>3, <1>4, AttemptFacts

\* The floating-point unit being available or not is no part of what moves.
LEMMA ModesSame ==
  ASSUME NEW i, NEW c, NEW m, NEW n, "PSE" \in m <=> "PSE" \in n
  PROVE  Completed(i, c, m) = Completed(i, c, n)
<1>1. \A k : FloatLoaded(i, c, k, m) = FloatLoaded(i, c, k, n)
  BY DEF FloatLoaded
<1>2. \A k : Loaded(i, c, k, m) = Loaded(i, c, k, n)
  BY <1>1 DEF Loaded
<1> QED
  BY <1>2 DEF Completed, Moved

\* What the handler goes back to leaves what was to be left.
GoalKept ==
  /\ phase = "returning" => fault.vector \in Restarted
  /\ phase # "running" /\ fault.vector \in Restarted /\ Restarts(inst) =>
       goal = Completed(inst, cpu, modes)

\* The handlers, and what the system takes away, leave the goal as it is; an
\* attempt that stops again comes no nearer to another one.
LEMMA GoalStep == TypeOK /\ GoalKept /\ [Next]_vars => GoalKept'
<1> SUFFICES ASSUME TypeOK, GoalKept, [Next]_vars PROVE GoalKept'
  OBVIOUS
<1>1. rights \in Rights /\ cpu \in Cpu
  BY DEF Rights, TypeOK
<1>2. ASSUME NEW i \in program.code, Execute(i) PROVE GoalKept'
  <2> DEFINE t == Attempt(i, cpu, rights, modes)
  <2>1. i \in Instructions
    BY ProgramFacts DEF TypeOK
  <2>2. CASE t.fault = NoFault
    BY <1>2, <2>2 DEF Execute, GoalKept
  <2>3. CASE t.fault # NoFault
    <3>1. /\ phase' = "handler" /\ inst' = i /\ cpu' = t.cpu /\ fault' = t.fault /\ modes' = modes
          /\ goal' = IF t.fault.vector \in Restarted /\ Restarts(i)
                     THEN Completed(i, cpu, modes) ELSE t.cpu
      BY <1>2, <2>3 DEF Execute
    <3>2. t.fault.vector \in Restarted /\ Restarts(i) =>
            Completed(i, t.cpu, modes) = Completed(i, cpu, modes)
      BY <1>1, <2>1, ResumeSame
    <3> HIDE DEF t
    <3> QED
      BY <3>1, <3>2 DEF GoalKept
  <2> QED
    BY <2>2, <2>3
<1>3. ASSUME Retry PROVE GoalKept'
  <2> DEFINE t == Attempt(inst, cpu, rights, modes)
  <2>1. inst \in Instructions /\ phase = "returning"
    BY <1>3 DEF TypeOK, Retry
  <2>2. CASE t.fault = NoFault
    BY <1>3, <2>2 DEF Retry, GoalKept
  <2>3. CASE t.fault # NoFault
    <3>1. /\ phase' = "handler" /\ inst' = inst /\ cpu' = t.cpu /\ fault' = t.fault
          /\ modes' = modes /\ (Restarts(inst) => goal' = goal)
      BY <1>3, <2>3 DEF Retry
    <3>2. t.fault.vector \in Restarted /\ Restarts(inst) =>
            Completed(inst, t.cpu, modes) = Completed(inst, cpu, modes)
      BY <1>1, <2>1, ResumeSame
    <3>3. Restarts(inst) => goal = Completed(inst, cpu, modes)
      BY <2>1 DEF GoalKept
    <3> HIDE DEF t
    <3> QED
      BY <3>1, <3>2, <3>3 DEF GoalKept
  <2> QED
    BY <2>2, <2>3
<1>4. ASSUME MapPage PROVE GoalKept'
  BY <1>4 DEF MapPage, GoalKept, Restarted
<1>5. ASSUME "PSE" \in modes' <=> "PSE" \in modes, EnableFloat \/ TakeFloat PROVE GoalKept'
  <2>1. Completed(inst, cpu, modes') = Completed(inst, cpu, modes)
    BY <1>5, ModesSame
  <2> QED
    BY <1>5, <2>1 DEF EnableFloat, TakeFloat, GoalKept, Restarted
<1>6. ASSUME EnableFloat \/ TakeFloat PROVE "PSE" \in modes' <=> "PSE" \in modes
  BY <1>6 DEF EnableFloat, TakeFloat
<1>7. ASSUME GiveUp PROVE GoalKept'
  BY <1>7 DEF GiveUp, GoalKept
<1>8. ASSUME NEW p \in Page, NEW right \in Right, TakePage(p, right) PROVE GoalKept'
  BY <1>8 DEF TakePage, GoalKept
<1>9. ASSUME NEW q \in program.scratch, NEW w \in Word, Compute(q, w) PROVE GoalKept'
  BY <1>9 DEF Compute, GoalKept
<1>10. ASSUME NEW m \in program.modes, SetModes(m) PROVE GoalKept'
  BY <1>10 DEF SetModes, GoalKept
<1>11. CASE UNCHANGED vars
  BY <1>11 DEF vars, GoalKept
<1> QED
  BY <1>2, <1>3, <1>4, <1>5, <1>6, <1>7, <1>8, <1>9, <1>10, <1>11 DEF Next, Step

\* An instruction that was interrupted by any number of page faults and
\* floating-point exceptions leaves exactly what it leaves without them (the
\* loops of loadstore.c, the updates of instr.h), for every word and page size.
THEOREM RestartsLeaveTheSame == Spec => Restartable
<1>1. Init => GoalKept
  BY DEF Init, GoalKept
<1>2. ASSUME TypeOK, GoalKept, [Next]_vars,
             phase = "returning", phase' = "running", Restarts(inst)
      PROVE  cpu' = goal
  <2> DEFINE t == Attempt(inst, cpu, rights, modes)
  <2>1. inst \in Instructions /\ rights \in Rights /\ cpu \in Cpu
    BY <1>2 DEF TypeOK, Rights
  <2>2. Retry
    BY <1>2 DEF Next, Step, Execute, MapPage, EnableFloat, GiveUp, TakePage, TakeFloat,
                Compute, SetModes, vars
  <2>3. cpu' = t.cpu /\ t.fault = NoFault
    BY <1>2, <2>2 DEF Retry
  <2>4. t.cpu = Completed(inst, cpu, modes)
    BY <2>1, <2>3, AttemptFacts
  <2> QED
    BY <1>2, <2>3, <2>4 DEF GoalKept
<1> QED
  BY <1>1, <1>2, GoalStep, TypeCorrect, PTL DEF Spec, Restartable
-----------------------------------------------------------------------------
(* How often an instruction faults *)

\* What translation grants, counted: a page that is there, and one more if the
\* guest may write it.
Present(r) == {p \in Page : r[p] # "none"}
Writable(r) == {p \in Page : r[p] = "rw"}
Granted(r) == Cardinality(Present(r)) + Cardinality(Writable(r))

FloatOn(m) == IF "FP" \in m THEN 1 ELSE 0
Budget(i, r, m) == Granted(r) + (IF i.form \in FloatForms THEN FloatOn(m) ELSE 0)

\* The handler of this fault has something to grant.
Missing(f, r) ==
  IF "protection" \in f.dsisr THEN r[f.dar \div PageSize] # "rw"
  ELSE r[f.dar \div PageSize] = "none"

\* A paired-single form that is refused once the floating-point unit is there
Lacking(i, m) == i.form \in Singles /\ ~ ({"PSE", "LSQE"} \subseteq m)

\* A fault is paid for by what its handler grants before the instruction comes
\* again.  A refusal that no handler mends ends the retries, so it can add one.
Counted ==
  /\ phase = "returning" =>
       /\ ~ Invalid(inst)
       /\ faults <= Budget(inst, rights, modes)
       /\ Lacking(inst, modes) => faults <= FloatOn(modes)
  /\ phase = "handler" /\ fault.vector = "dsi" =>
       /\ ~ Invalid(inst) /\ ~ Lacking(inst, modes)
       /\ Missing(fault, rights)
       /\ faults <= Budget(inst, rights, modes) + 1
  /\ phase = "handler" /\ fault.vector = "fp" =>
       /\ ~ Invalid(inst) /\ inst.form \in FloatForms /\ "FP" \notin modes
       /\ faults <= Budget(inst, rights, modes) + 1
       /\ Lacking(inst, modes) => faults <= 1
  /\ phase = "handler" /\ fault.vector = "align" =>
       /\ inst.form \notin FloatForms
       /\ faults <= Budget(inst, rights, modes) + 1
  /\ phase = "handler" /\ fault.vector = "program" => faults <= 2
  /\ phase = "handler" => fault.vector # "none"

\* There are finitely many pages, and at least one.
LEMMA PageFacts ==
  /\ IsFiniteSet(Page) /\ Cardinality(Page) \in Nat /\ Cardinality(Page) >= 1
<1>1. Space \div PageSize \in Nat /\ Space \div PageSize >= 1
  <2>1. PageSize <= Space /\ PageSize > 0 /\ Space \in Nat /\ PageSize \in Nat
    BY Sizes
  <2> QED
    BY <2>1
<1> DEFINE n == Space \div PageSize
<1>2. IsFiniteSet(0 .. n - 1) /\ Cardinality(0 .. n - 1) = n
  <2> HIDE DEF n
  <2>1. IsFiniteSet(0 .. n - 1)
        /\ Cardinality(0 .. n - 1) = IF 0 > n - 1 THEN 0 ELSE (n - 1) - 0 + 1
    BY <1>1, FS_Interval DEF n
  <2> QED
    BY <1>1, <2>1 DEF n
<1> QED
  BY <1>1, <1>2 DEF Page

\* There is a bound on what can be granted.
LEMMA GrantedFacts ==
  ASSUME NEW r \in Rights
  PROVE  /\ IsFiniteSet(Present(r)) /\ IsFiniteSet(Writable(r))
         /\ Cardinality(Present(r)) \in Nat /\ Cardinality(Writable(r)) \in Nat
         /\ Granted(r) \in Nat /\ Granted(r) <= 2 * Cardinality(Page)
<1>1. Present(r) \subseteq Page /\ Writable(r) \subseteq Page
  BY DEF Present, Writable
<1>2. /\ IsFiniteSet(Present(r)) /\ Cardinality(Present(r)) <= Cardinality(Page)
      /\ IsFiniteSet(Writable(r)) /\ Cardinality(Writable(r)) <= Cardinality(Page)
  BY <1>1, PageFacts, FS_Subset
<1>3. Cardinality(Present(r)) \in Nat /\ Cardinality(Writable(r)) \in Nat
  BY <1>2, FS_CardinalityType
<1> QED
  BY <1>2, <1>3, PageFacts DEF Granted

\* A handler that grants something grants more.
LEMMA MoreGranted ==
  ASSUME NEW r \in Rights, NEW p \in Page, NEW right \in {"ro", "rw"},
         r[p] = "none" \/ (r[p] # "rw" /\ right = "rw")
  PROVE  Granted([r EXCEPT ![p] = right]) >= Granted(r) + 1
<1> DEFINE z == [r EXCEPT ![p] = right]
<1>1. z \in Rights /\ z[p] = right /\ \A q \in Page : q # p => z[q] = r[q]
  BY DEF Rights, Right
<1> HIDE DEF z
<1>2. Present(r) \subseteq Present(z) /\ Writable(r) \subseteq Writable(z)
  BY <1>1 DEF Present, Writable
<1>3. /\ Cardinality(Present(r)) <= Cardinality(Present(z))
      /\ Cardinality(Writable(r)) <= Cardinality(Writable(z))
  BY <1>1, <1>2, GrantedFacts, FS_Subset
<1>4. CASE r[p] = "none"
  <2>1. Present(z) = Present(r) \cup {p} /\ p \notin Present(r)
    BY <1>1, <1>4 DEF Present
  <2>2. Cardinality(Present(z)) = Cardinality(Present(r)) + 1
    BY <2>1, GrantedFacts, FS_AddElement
  <2> QED
    BY <1>1, <1>3, <2>2, GrantedFacts DEF Granted, z
<1>5. CASE r[p] # "rw" /\ right = "rw"
  <2>1. Writable(z) = Writable(r) \cup {p} /\ p \notin Writable(r)
    BY <1>1, <1>5 DEF Writable
  <2>2. Cardinality(Writable(z)) = Cardinality(Writable(r)) + 1
    BY <2>1, GrantedFacts, FS_AddElement
  <2> QED
    BY <1>1, <1>3, <2>2, GrantedFacts DEF Granted, z
<1> QED
  BY <1>4, <1>5

\* Where something is missing, not everything is granted.
LEMMA NotAllGranted ==
  ASSUME NEW r \in Rights, NEW p \in Page, r[p] # "rw"
  PROVE  Granted(r) + 1 <= 2 * Cardinality(Page)
<1>1. Granted([r EXCEPT ![p] = "rw"]) >= Granted(r) + 1
  BY MoreGranted
<1>2. [r EXCEPT ![p] = "rw"] \in Rights
  BY DEF Rights, Right
<1> QED
  BY <1>1, <1>2, GrantedFacts, PageFacts

\* The budget in numbers.
LEMMA BudgetFacts ==
  ASSUME NEW i, NEW r \in Rights, NEW m
  PROVE  /\ Budget(i, r, m) \in Nat /\ FloatOn(m) \in 0 .. 1
         /\ Budget(i, r, m) >= Granted(r) /\ Budget(i, r, m) <= Granted(r) + 1
         /\ i.form \notin FloatForms => Budget(i, r, m) = Granted(r)
         /\ i.form \in FloatForms => Budget(i, r, m) = Granted(r) + FloatOn(m)
BY GrantedFacts DEF Budget, FloatOn

\* What an attempt that faults says of the instruction, the modes and the rights.
LEMMA FaultSays ==
  ASSUME NEW i \in Instructions, NEW c \in Cpu, NEW r \in Rights, NEW m,
         Attempt(i, c, r, m).fault # NoFault
  PROVE  LET f == Attempt(i, c, r, m).fault
         IN /\ f.vector \in {"dsi", "align", "fp", "program"}
            /\ f.vector = "dsi" => ~ Invalid(i) /\ ~ Lacking(i, m) /\ Missing(f, r)
            /\ f.vector = "fp" => ~ Invalid(i) /\ i.form \in FloatForms /\ "FP" \notin m
            /\ f.vector = "align" => i.form \notin FloatForms
            /\ f.vector = "program" => Invalid(i) \/ (Lacking(i, m) /\ "FP" \in m)
<1> DEFINE t == Attempt(i, c, r, m)
           s == Stop(i, c, r)
           d == Min(DeniedTo(i, c, s, r))
           write == i.form \notin Loading
<1>1. CASE Refusal(i, c, m) # "none" /\ t.fault.vector = Refusal(i, c, m)
  <2>1. t.fault.vector \in {"align", "fp", "program"}
    BY <1>1, RefusalKinds
  <2>2. Refusal(i, c, m) = "fp" => ~ Invalid(i) /\ i.form \in FloatForms /\ "FP" \notin m
    BY DEF Refusal
  <2>3. Refusal(i, c, m) = "align" => i.form \notin FloatForms
    BY DEF Refusal, Unaligned, Multiples, Strings, FloatForms, Singles
  <2>4. Refusal(i, c, m) = "program" => Invalid(i) \/ (Lacking(i, m) /\ "FP" \in m)
    BY DEF Refusal, Lacking, FloatForms
  <2> HIDE DEF t
  <2> QED
    BY <1>1, <2>1, <2>2, <2>3, <2>4 DEF t
<1>2. CASE /\ Refusal(i, c, m) = "none" /\ t.fault = set_dsi_info(d, write, r)
           /\ d \in Address /\ ~ Grants(r[d \div PageSize], write)
  <2>1. ~ Invalid(i) /\ ~ Lacking(i, m)
    BY <1>2 DEF Refusal, Lacking
  <2> HIDE DEF d, t
  <2>2. r[d \div PageSize] \in Right
    BY <1>2, PageOf DEF Rights
  <2> DEFINE right == r[d \div PageSize]
  <2>3. t.fault.vector = "dsi" /\ t.fault.dar = d
    BY <1>2 DEF set_dsi_info
  <2>4. "protection" \in t.fault.dsisr <=> right # "none"
    BY <1>2 DEF set_dsi_info
  <2>5. right # "rw"
    BY <1>2 DEF Grants
  <2>6. Missing(t.fault, r)
    BY <2>3, <2>4, <2>5 DEF Missing
  <2> QED
    BY <2>1, <2>3, <2>6 DEF t
<1> QED
  BY <1>1, <1>2, AttemptFacts

\* Every step keeps the account of faults and grants.
LEMMA CountStep == TypeOK /\ GoalKept /\ Counted /\ [Next]_vars => Counted'
<1> SUFFICES ASSUME TypeOK, GoalKept, Counted, [Next]_vars PROVE Counted'
  OBVIOUS
<1>1. rights \in Rights /\ cpu \in Cpu /\ faults \in Nat
  BY DEF Rights, TypeOK
<1> DEFINE b(i) == Budget(i, rights, modes)
<1>2. \A i : b(i) \in Nat /\ FloatOn(modes) \in 0 .. 1
  BY <1>1, BudgetFacts
<1>3. ASSUME NEW i \in Instructions, Attempt(i, cpu, rights, modes).fault # NoFault,
             fault' = Attempt(i, cpu, rights, modes).fault, phase' = "handler", inst' = i,
             UNCHANGED <<rights, modes>>, faults' \in Nat, faults' <= b(i) + 1,
             Lacking(i, modes) => faults' <= FloatOn(modes) + 1,
             Invalid(i) => faults' <= 2
      PROVE  Counted'
  <2> DEFINE f == Attempt(i, cpu, rights, modes).fault
  <2>1. /\ f.vector \in {"dsi", "align", "fp", "program"}
        /\ f.vector = "dsi" => ~ Invalid(i) /\ ~ Lacking(i, modes) /\ Missing(f, rights)
        /\ f.vector = "fp" => ~ Invalid(i) /\ i.form \in FloatForms /\ "FP" \notin modes
        /\ f.vector = "align" => i.form \notin FloatForms
        /\ f.vector = "program" => Invalid(i) \/ (Lacking(i, modes) /\ "FP" \in modes)
    BY <1>1, <1>3, FaultSays
  <2>2. fault' = f
    BY <1>3
  <2> HIDE DEF f
  <2>3. "FP" \notin modes => FloatOn(modes) = 0
    BY DEF FloatOn
  <2>4. f.vector = "program" => faults' <= 2
    BY <1>2, <1>3, <2>1
  <2>5. f.vector = "fp" /\ Lacking(i, modes) => faults' <= 1
    BY <1>3, <2>1, <2>3
  <2> QED
    BY <1>3, <2>1, <2>2, <2>4, <2>5 DEF Counted
<1>4. ASSUME NEW i \in program.code, Execute(i) PROVE Counted'
  <2>1. i \in Instructions
    BY ProgramFacts DEF TypeOK
  <2>2. CASE Attempt(i, cpu, rights, modes).fault = NoFault
    BY <1>4, <2>2 DEF Execute, Counted
  <2>3. CASE Attempt(i, cpu, rights, modes).fault # NoFault
    BY <1>2, <1>3, <1>4, <2>1, <2>3 DEF Execute
  <2> QED
    BY <2>2, <2>3
<1>5. ASSUME Retry PROVE Counted'
  <2>1. inst \in Instructions /\ phase = "returning"
    BY <1>5 DEF TypeOK, Retry
  <2>2. CASE Attempt(inst, cpu, rights, modes).fault = NoFault
    BY <1>5, <2>2 DEF Retry, Counted
  <2>3. CASE Attempt(inst, cpu, rights, modes).fault # NoFault
    <3>1. /\ ~ Invalid(inst) /\ faults <= b(inst)
          /\ Lacking(inst, modes) => faults <= FloatOn(modes)
      BY <2>1 DEF Counted
    <3>2. /\ faults' = faults + 1 /\ fault' = Attempt(inst, cpu, rights, modes).fault
          /\ phase' = "handler" /\ inst' = inst /\ UNCHANGED <<rights, modes>>
      BY <1>5, <2>3 DEF Retry
    <3>3. faults' \in Nat /\ faults' <= b(inst) + 1
      BY <1>1, <1>2, <3>1, <3>2
    <3>4. Lacking(inst, modes) => faults' <= FloatOn(modes) + 1
      BY <1>1, <1>2, <3>1, <3>2
    <3> HIDE DEF b
    <3> QED
      BY <1>3, <2>1, <2>3, <3>1, <3>2, <3>3, <3>4
  <2> QED
    BY <2>2, <2>3
<1>6. ASSUME MapPage PROVE Counted'
  <2>1. /\ phase = "handler" /\ fault.vector = "dsi" /\ phase' = "returning"
        /\ UNCHANGED <<cpu, modes, inst, fault, goal, faults>>
    BY <1>6 DEF MapPage
  <2>2. PICK right \in IF "protection" \in fault.dsisr THEN {"rw"} ELSE {"ro", "rw"} :
          rights' = [rights EXCEPT ![fault.dar \div PageSize] = right]
    BY <1>6 DEF MapPage
  <2>3. /\ ~ Invalid(inst) /\ ~ Lacking(inst, modes) /\ Missing(fault, rights)
        /\ faults <= b(inst) + 1
    BY <2>1 DEF Counted
  <2>4. fault.dar \div PageSize \in Page
    BY PageOf DEF TypeOK, Fault
  <2>5. right \in {"ro", "rw"} /\ (rights[fault.dar \div PageSize] = "none"
          \/ (rights[fault.dar \div PageSize] # "rw" /\ right = "rw"))
    BY <2>2, <2>3 DEF Missing
  <2>6. Granted(rights') >= Granted(rights) + 1
    BY <1>1, <2>2, <2>4, <2>5, MoreGranted
  <2>7. rights' \in Rights
    BY <1>1, <2>2, <2>4, <2>5 DEF Rights, Right
  <2>8. Budget(inst, rights', modes) >= b(inst) + 1
    BY <1>1, <2>6, <2>7, GrantedFacts DEF Budget, FloatOn
  <2>9. faults <= Budget(inst, rights', modes)
    <3>1. Budget(inst, rights', modes) \in Nat
      BY <2>7, BudgetFacts
    <3> QED
      BY <1>1, <1>2, <2>3, <2>8, <3>1
  <2> QED
    BY <2>1, <2>3, <2>9 DEF Counted
<1>7. ASSUME EnableFloat PROVE Counted'
  <2>1. /\ phase = "handler" /\ fault.vector = "fp" /\ phase' = "returning"
        /\ modes' = modes \cup {"FP"} /\ UNCHANGED <<cpu, rights, inst, fault, goal, faults>>
    BY <1>7 DEF EnableFloat
  <2>2. /\ ~ Invalid(inst) /\ inst.form \in FloatForms /\ "FP" \notin modes
        /\ faults <= b(inst) + 1 /\ (Lacking(inst, modes) => faults <= 1)
    BY <2>1 DEF Counted
  <2>3. FloatOn(modes) = 0 /\ FloatOn(modes') = 1
    BY <2>1, <2>2 DEF FloatOn
  <2>4. Lacking(inst, modes') <=> Lacking(inst, modes)
    BY <2>1 DEF Lacking
  <2>5. Budget(inst, rights, modes') = b(inst) + 1
    BY <1>1, <2>2, <2>3, GrantedFacts DEF Budget
  <2> QED
    BY <2>1, <2>2, <2>3, <2>4, <2>5 DEF Counted
<1>8. ASSUME GiveUp PROVE Counted'
  BY <1>8 DEF GiveUp, Counted
<1>9. ASSUME NEW p \in Page, NEW right \in Right, TakePage(p, right) PROVE Counted'
  <2>1. /\ rights[p] # "none" /\ right # "rw" /\ (rights[p] = "ro" => right = "none")
        /\ rights' = [rights EXCEPT ![p] = right] /\ faults' = 0
        /\ UNCHANGED <<cpu, modes, phase, inst, fault, goal>>
    BY <1>9 DEF TakePage
  <2>2. rights' \in Rights
    BY <1>1, <2>1 DEF Rights
  <2>3. Missing(fault, rights) => Missing(fault, rights')
    BY <1>1, <2>1 DEF Missing, Rights
  <2>4. \A i : Budget(i, rights', modes) \in Nat
    BY <2>2, BudgetFacts
  <2>5. /\ 0 <= FloatOn(modes) /\ 0 <= Budget(inst, rights', modes)
        /\ 0 <= Budget(inst, rights', modes) + 1
    BY <1>2, <2>4
  <2> HIDE DEF b
  <2> QED
    BY <2>1, <2>3, <2>5 DEF Counted
<1>10. ASSUME TakeFloat PROVE Counted'
  <2>1. /\ phase = "returning" /\ modes' = modes \ {"FP"} /\ faults' = 0
        /\ UNCHANGED <<cpu, rights, phase, inst, fault, goal>>
    BY <1>10 DEF TakeFloat
  <2>2. Budget(inst, rights, modes') \in Nat /\ FloatOn(modes') \in 0 .. 1
    BY <1>1, BudgetFacts
  <2> QED
    BY <2>1, <2>2 DEF Counted
<1>11. ASSUME NEW q \in program.scratch, NEW w \in Word, Compute(q, w) PROVE Counted'
  BY <1>11 DEF Compute, Counted
<1>12. ASSUME NEW m \in program.modes, SetModes(m) PROVE Counted'
  BY <1>12 DEF SetModes, Counted
<1>13. CASE UNCHANGED vars
  BY <1>13 DEF vars, Counted
<1> QED
  BY <1>4, <1>5, <1>6, <1>7, <1>8, <1>9, <1>10, <1>11, <1>12, <1>13 DEF Next, Step

\* The account implies the bound.
LEMMA CountedBounds == TypeOK /\ GoalKept /\ Counted => FaultsBounded
<1> SUFFICES ASSUME TypeOK, GoalKept, Counted PROVE FaultsBounded
  OBVIOUS
<1>1. rights \in Rights /\ faults \in Nat
  BY DEF Rights, TypeOK
<1> DEFINE b == Budget(inst, rights, modes)
           g == Granted(rights)
           n == Cardinality(Page)
<1>2. /\ b \in Nat /\ g \in Nat /\ n \in Nat /\ n >= 1 /\ g <= 2 * n
      /\ b <= g + 1 /\ (inst.form \notin FloatForms => b = g)
      /\ inst.form \in FloatForms => b = g + FloatOn(modes)
  BY <1>1, BudgetFacts, GrantedFacts, PageFacts
<1>3. CASE phase = "running"
  BY <1>2, <1>3 DEF TypeOK, FaultsBounded
<1>4. CASE phase = "returning"
  <2>1. faults <= b
    BY <1>4 DEF Counted
  <2> HIDE DEF b, g, n
  <2>2. faults <= 2 * n + 1
    BY <1>1, <1>2, <2>1
  <2> QED
    BY <2>2 DEF FaultsBounded, n
<1>5. CASE phase = "handler" /\ fault.vector = "dsi"
  <2>1. faults <= b + 1 /\ Missing(fault, rights)
    BY <1>5 DEF Counted
  <2>2. fault.dar \div PageSize \in Page
    BY PageOf DEF TypeOK, Fault
  <2>3. rights[fault.dar \div PageSize] # "rw"
    BY <2>1 DEF Missing
  <2>4. g + 1 <= 2 * n
    BY <1>1, <2>2, <2>3, NotAllGranted
  <2> HIDE DEF b, g, n
  <2>5. faults <= 2 * n + 1
    BY <1>1, <1>2, <2>1, <2>4
  <2> QED
    BY <2>5 DEF FaultsBounded, n
<1>6. CASE phase = "handler" /\ fault.vector \in {"fp", "align"}
  <2>1. faults <= b + 1
    BY <1>6 DEF Counted
  <2>2. b = g
    <3>1. CASE fault.vector = "fp"
      <4>1. FloatOn(modes) = 0
        BY <1>6, <3>1 DEF Counted, FloatOn
      <4> HIDE DEF b, g, n
      <4> QED
        BY <1>2, <4>1
    <3>2. CASE fault.vector = "align"
      BY <1>2, <1>6, <3>2 DEF Counted
    <3> QED
      BY <1>6, <3>1, <3>2
  <2> HIDE DEF b, g, n
  <2>3. faults <= 2 * n + 1
    BY <1>1, <1>2, <2>1, <2>2
  <2> QED
    BY <2>3 DEF FaultsBounded, n
<1>7. CASE phase = "handler" /\ fault.vector = "program"
  <2>1. faults <= 2
    BY <1>7 DEF Counted
  <2> QED
    BY <1>1, <1>2, <2>1 DEF FaultsBounded
<1>8. phase = "handler" => fault.vector \in {"dsi", "fp", "align", "program"}
  BY DEF TypeOK, Fault, Counted
<1> QED
  BY <1>3, <1>4, <1>5, <1>6, <1>7, <1>8 DEF TypeOK

\* A handler that grants what DAR and DSISR ask for meets at most two faults per
\* page and one for the floating-point unit: DAR is in the page that is missing
\* and DSISR says what is missing (set_dsi_info, access_page_tail).
THEOREM FaultsAreBounded == Spec => []FaultsBounded
<1>1. Init => GoalKept /\ Counted
  BY DEF Init, GoalKept, Counted
<1> QED
  BY <1>1, GoalStep, CountStep, CountedBounds, TypeCorrect, PTL DEF Spec
-----------------------------------------------------------------------------
(* Quotients and remainders *)

\* Quotient and remainder are unique.
LEMMA Quotients ==
  ASSUME NEW n \in Nat, n > 0, NEW p \in Int, NEW q \in Int, NEW r \in 0 .. n - 1,
         NEW s \in 0 .. n - 1, p * n + r = q * n + s
  PROVE  p = q /\ r = s
<1>1. (p - q) * n = s - r
  OBVIOUS
<1> DEFINE d == p - q
<1>2. d \in Int /\ d * n = s - r
  BY <1>1
<1> HIDE DEF d
<1>3. CASE d >= 1
  <2>1. d * n >= 1 * n
    BY <1>2, <1>3
  <2> QED
    BY <1>2, <2>1
<1>4. CASE d <= -1
  <2>1. d * n <= (-1) * n
    BY <1>2, <1>4
  <2> QED
    BY <1>2, <2>1
<1>5. CASE d = 0
  <2>1. s - r = 0
    BY <1>2, <1>5
  <2> QED
    BY <1>5, <2>1 DEF d
<1> QED
  BY <1>2, <1>3, <1>4, <1>5

\* Every number has a quotient and a remainder.
LEMMA Remainders ==
  ASSUME NEW n \in Nat, n > 0, NEW x \in Int
  PROVE  /\ x \div n \in Int /\ x % n \in 0 .. n - 1
         /\ x = ((x \div n) * n) + (x % n)
OBVIOUS

\* A number written as quotient and remainder has that quotient and remainder.
LEMMA Remainder ==
  ASSUME NEW n \in Nat, n > 0, NEW q \in Int, NEW r \in 0 .. n - 1
  PROVE  (q * n + r) % n = r /\ (q * n + r) \div n = q
<1> DEFINE x == q * n + r
<1>1. x \in Int
  OBVIOUS
<1> HIDE DEF x
<1>2. x \div n \in Int /\ x % n \in 0 .. n - 1 /\ x = ((x \div n) * n) + (x % n)
  BY <1>1, Remainders
<1>3. ((x \div n) * n) + (x % n) = q * n + r
  BY <1>2 DEF x
<1>4. x \div n = q /\ x % n = r
  <2> DEFINE p == x \div n
             s == x % n
  <2>1. p \in Int /\ s \in 0 .. n - 1 /\ p * n + s = q * n + r
    BY <1>2, <1>3
  <2> HIDE DEF p, s
  <2>2. p = q /\ s = r
    BY <2>1, Quotients
  <2> QED
    BY <2>2 DEF p, s
<1> QED
  BY <1>4 DEF x

\* A remainder may be taken before an addition.
LEMMA RemainderSum ==
  ASSUME NEW n \in Nat, n > 0, NEW a \in Int, NEW b \in Int
  PROVE  ((a % n) + b) % n = (a + b) % n
<1> DEFINE q == a \div n
           r == a % n
           y == r + b
           z == y \div n
           t == y % n
<1>1. q \in Int /\ r \in 0 .. n - 1 /\ a = q * n + r
  BY Remainders
<1>2. y \in Int
  BY <1>1
<1>3. z \in Int /\ t \in 0 .. n - 1 /\ y = z * n + t
  <2> HIDE DEF y
  <2> QED
    BY <1>2, Remainders
<1>4. a + b = (q + z) * n + t
  <2>1. a + b = q * n + y
    BY <1>1
  <2>2. q * n + z * n = (q + z) * n
    BY <1>1, <1>3
  <2> HIDE DEF y, q, r, z, t
  <2>3. q * n \in Int /\ z * n \in Int
    BY <1>1, <1>3
  <2> QED
    BY <1>3, <2>1, <2>2, <2>3
<1>5. ((q + z) * n + t) % n = t
  <2> HIDE DEF q, r, z, t
  <2>1. q + z \in Int
    BY <1>1, <1>3
  <2> QED
    BY <1>3, <2>1, Remainder
<1> QED
  BY <1>4, <1>5

\* Two places less than n past the same place are the same only if they are one.
LEMMA RemainderApart ==
  ASSUME NEW n \in Nat, n > 0, NEW a \in Int, NEW x \in 0 .. n - 1, NEW y \in 0 .. n - 1,
         (a + x) % n = (a + y) % n
  PROVE  x = y
<1> DEFINE p == (a + x) \div n
           q == (a + y) \div n
           r == (a + x) % n
<1>1. a + x = p * n + r /\ a + y = q * n + r /\ p \in Int /\ q \in Int /\ r \in 0 .. n - 1
  <2>1. a + x \in Int /\ a + y \in Int
    OBVIOUS
  <2> QED
    BY <2>1, Remainders
<1> HIDE DEF p, q, r
<1>2. x - y = (p - q) * n
  <2>1. p * n \in Int /\ q * n \in Int /\ (p - q) * n = p * n - q * n
    BY <1>1
  <2> QED
    BY <1>1, <2>1
<1>3. (p - q) * n + y = 0 * n + x
  <2>1. (p - q) * n \in Int
    BY <1>1
  <2> QED
    BY <1>2, <2>1
<1>4. p - q \in Int
  BY <1>1
<1> QED
  BY <1>3, <1>4, Quotients
-----------------------------------------------------------------------------
(* A store and the load of its form *)

\* The byte b of access j is j * Unit + b past the effective address.
LEMMA BytePlace ==
  ASSUME NEW i, NEW c, EffectiveAddress(i, c) \in Int, Unit(i) \in Nat,
         NEW j \in Nat, NEW b \in Nat
  PROVE  (At(i, c, j) + b) % Space = (EffectiveAddress(i, c) + (j * Unit(i) + b)) % Space
<1> DEFINE e == EffectiveAddress(i, c)
           u == Unit(i)
<1>1. e \in Int /\ j * u \in Nat /\ Space \in Nat /\ Space > 0
  BY Sizes
<1>2. At(i, c, j) = (e + j * u) % Space
  BY DEF At
<1> HIDE DEF e, u
<1>3. (((e + j * u) % Space) + b) % Space = ((e + j * u) + b) % Space
  <2>1. e + j * u \in Int /\ b \in Int
    BY <1>1
  <2> QED
    BY <1>1, <2>1, RemainderSum
<1>4. (e + j * u) + b = e + (j * u + b)
  BY <1>1
<1> QED
  BY <1>2, <1>3, <1>4 DEF e, u

\* Accesses that fit into the address space do not overlap.
LEMMA StoredBytes ==
  ASSUME NEW i \in Instructions, NEW c \in Cpu, i.form \notin Loading, Fits(i),
         NEW j \in 0 .. Count(i) - 1, NEW b \in 0 .. Unit(i) - 1
  PROVE  Stored(i, c, Count(i)).mem[(At(i, c, j) + b) % Space] = Source(i, c, j)[b]
<1> DEFINE n == Count(i)
           u == Unit(i)
           e == EffectiveAddress(i, c)
           x == (At(i, c, j) + b) % Space
           last == {z \in 0 .. n - 1 : x \in Covered(i, c, z)}
<1>1. /\ n \in Nat /\ n >= 1 /\ u \in Nat /\ u >= 1 /\ u <= WordBytes /\ e \in Int /\ j \in Nat
      /\ b \in Nat /\ b < u /\ j < n /\ Space \in Nat /\ Space > 0
  BY CountUnit, EffectiveAddressType, Sizes DEF Address
<1>2. x \in Covered(i, c, j) /\ x \in Address
  BY <1>1, AtType DEF Covered
<1>3. Stored(i, c, n).mem[x] =
        IF last = {} THEN c.mem[x]
        ELSE Source(i, c, Max(last))[(x - At(i, c, Max(last))) % Space]
  BY <1>2 DEF Stored, Cpu
<1>4. j \in last
  BY <1>1, <1>2
<1>5. ASSUME NEW z \in last PROVE z = j
  <2>1. z \in 0 .. n - 1 /\ z \in Nat
    BY <1>1
  <2>2. PICK d \in 0 .. u - 1 : x = (At(i, c, z) + d) % Space
    BY DEF Covered
  <2>3. d \in Nat /\ d < u
    BY <1>1, <2>2
  <2>4. (e + (z * u + d)) % Space = (e + (j * u + b)) % Space
    <3>1. x = (e + (z * u + d)) % Space
      BY <1>1, <2>1, <2>2, <2>3, BytePlace
    <3>2. x = (e + (j * u + b)) % Space
      BY <1>1, BytePlace
    <3> QED
      BY <3>1, <3>2
  <2>5. ASSUME NEW k \in Nat, k < n, NEW a \in Nat, a < u
        PROVE  k * u + a \in 0 .. Space - 1
    <3> HIDE DEF n, u
    <3>1. k * u + u <= n * u
      <4>1. (k + 1) * u <= n * u
        BY <1>1, <2>5
      <4> QED
        BY <1>1, <4>1
    <3>2. n * u <= Space
      BY DEF Fits, n, u
    <3>3. k * u \in Nat /\ n * u \in Nat
      BY <1>1
    <3> QED
      BY <1>1, <2>5, <3>1, <3>2, <3>3
  <2>6. z * u + d = j * u + b
    <3>1. z * u + d \in 0 .. Space - 1 /\ j * u + b \in 0 .. Space - 1
      BY <1>1, <2>1, <2>3, <2>5
    <3> HIDE DEF n, u, e
    <3> QED
      BY <1>1, <2>4, <3>1, RemainderApart
  <2> HIDE DEF n, u, last
  <2> QED
    BY <1>1, <2>1, <2>2, <2>6, Quotients
<1>6. Max(last) = j
  <2>1. last \in SUBSET (0 .. n - 1) /\ n - 1 \in Nat
    BY <1>1
  <2> HIDE DEF last
  <2> QED
    BY <1>4, <1>5, <2>1, MaxIn
<1>7. (x - At(i, c, j)) % Space = b
  <2>1. At(i, c, j) \in Address /\ b < WordBytes
    BY <1>1, AtType, Sizes
  <2> QED
    BY <1>1, <2>1, Offset
<1> HIDE DEF last, x
<1> QED
  BY <1>3, <1>4, <1>6, <1>7 DEF x

\* The load of the form of store i.
Back(i) == [i EXCEPT !.form = Loader[i.form]]

\* The load sees in memory what the store put there.
LEMMA BackFacts ==
  ASSUME NEW i \in Instructions, i.form \in DOMAIN Loader, NEW c \in Cpu, NEW m, ~ i.update,
         Fits(i)
  PROVE  LET s == Completed(i, c, m)
         IN /\ s \in Cpu /\ s.gpr = c.gpr
            /\ i.form \in {"store", "stmw", "stswi"} /\ Back(i).form = Loader[i.form]
            /\ Count(Back(i)) = Count(i) /\ Unit(Back(i)) = Unit(i)
            /\ Back(i).r = i.r /\ Back(i).len = i.len /\ Back(i).order = i.order
            /\ Completed(Back(i), s, m) = Loaded(Back(i), s, Count(i), m)
            /\ \A j \in 0 .. Count(i) - 1 : \A b \in 0 .. Unit(i) - 1 :
                 Fetched(Back(i), s, j)[b] = Source(i, c, j)[b]
<1> DEFINE s == Completed(i, c, m)
           k == Back(i)
<1>1. i.form \in {"store", "stmw", "stswi"}
  BY DEF Loader
<1>2. /\ k.form = Loader[i.form] /\ k.r = i.r /\ k.len = i.len /\ k.order = i.order
      /\ k.a = i.a /\ k.x = i.x /\ k.indexed = i.indexed /\ k.update = i.update
  BY InstructionFacts DEF Back, Instruction
<1>3. /\ i.form = "store" => k.form = "load"
      /\ i.form = "stmw" => k.form = "lmw"
      /\ i.form = "stswi" => k.form = "lswi"
  BY <1>2 DEF Loader
<1> HIDE DEF k
<1>4. Count(k) = Count(i) /\ Unit(k) = Unit(i)
  BY <1>1, <1>2, <1>3 DEF Count, Unit, Multiples, Strings, FloatForms, Singles
<1>5. i.form \notin Loading /\ k.form \in Loading
  BY <1>1, <1>3 DEF Loading
<1>6. s = Stored(i, c, Count(i))
  BY <1>5 DEF Completed, Based, Moved
<1>7. Count(i) \in Nat /\ Count(i) \in 0 .. Count(i)
  BY CountUnit
<1>8. s \in Cpu /\ s.gpr = c.gpr
  BY <1>5, <1>6, <1>7, StoredType
<1> HIDE DEF s
<1>9. Completed(k, s, m) = Loaded(k, s, Count(i), m)
  BY <1>2, <1>4, <1>5 DEF Completed, Based, Moved
<1>10. EffectiveAddress(k, s) = EffectiveAddress(i, c)
  BY <1>2, <1>8 DEF EffectiveAddress
<1>11. \A j : At(k, s, j) = At(i, c, j)
  BY <1>4, <1>10 DEF At
<1>12. ASSUME NEW j \in 0 .. Count(i) - 1, NEW b \in 0 .. Unit(i) - 1
       PROVE  Fetched(k, s, j)[b] = Source(i, c, j)[b]
  <2>1. Fetched(k, s, j)[b] = s.mem[(At(i, c, j) + b) % Space]
    BY <1>4, <1>11 DEF Fetched
  <2> QED
    BY <1>5, <1>6, <2>1, StoredBytes
<1> QED
  BY <1>1, <1>2, <1>4, <1>8, <1>9, <1>12 DEF s, k

\* st and l of a word, in either order of bytes.
LEMMA RoundTripStore ==
  ASSUME NEW i \in Instructions, i.form = "store", NEW c \in Cpu, NEW m, ~ i.update,
         Fits(i), WholeRegisters(i)
  PROVE  Completed(Back(i), Completed(i, c, m), m) = Completed(i, c, m)
<1> DEFINE s == Completed(i, c, m)
           k == Back(i)
           w == c.gpr[i.r]
           f == Fetched(k, s, 0)
<1>0. i.form \in DOMAIN Loader
  BY DEF Loader
<1>1. /\ s \in Cpu /\ s.gpr = c.gpr /\ k.r = i.r /\ k.len = i.len /\ k.order = i.order
      /\ k.form = "load" /\ Completed(k, s, m) = Loaded(k, s, Count(i), m)
      /\ \A j \in 0 .. Count(i) - 1 : \A b \in 0 .. Unit(i) - 1 :
           Fetched(k, s, j)[b] = Source(i, c, j)[b]
  BY <1>0, BackFacts DEF Loader
<1>2. Count(i) = 1 /\ Unit(i) = i.len
  BY DEF Count, Unit, Multiples, Strings, FloatForms, Singles
<1>3. i.len = WordBytes /\ WordBytes \in Nat /\ WordBytes >= 1
  BY <1>2, InstructionFacts, Sizes DEF WholeRegisters
<1>4. w \in Word /\ i.r \in Reg
  BY InstructionFacts, CpuParts
<1>5. \A b \in 0 .. WordBytes - 1 :
        f[b] = IF i.order = "brev" THEN w[WordBytes - 1 - b] ELSE w[b]
  <2>1. \A b \in 0 .. WordBytes - 1 : f[b] = Source(i, c, 0)[b]
    BY <1>1, <1>2, <1>3
  <2>2. Source(i, c, 0) = Narrowed(w, WordBytes, i.order)
    BY <1>3 DEF Source
  <2>3. \A b \in 0 .. WordBytes - 1 : WordBytes - WordBytes + b = b
    BY <1>3
  <2> HIDE DEF f, w
  <2> QED
    BY <2>1, <2>2, <2>3 DEF Narrowed
<1> HIDE DEF f
<1>6. Widened(f, WordBytes, i.order) = w
  <2>1. ASSUME NEW b \in 0 .. WordBytes - 1
        PROVE  Widened(f, WordBytes, i.order)[b] = w[b]
    <3>1. /\ b - (WordBytes - WordBytes) = b /\ ~ (b < 0)
          /\ WordBytes - 1 - b \in 0 .. WordBytes - 1
          /\ WordBytes - 1 - (WordBytes - 1 - b) = b
      BY <1>3
    <3>2. Widened(f, WordBytes, i.order)[b]
            = IF i.order = "brev" THEN f[WordBytes - 1 - b] ELSE f[b]
      BY <3>1 DEF Widened
    <3> QED
      BY <1>5, <3>1, <3>2
  <2>2. DOMAIN Widened(f, WordBytes, i.order) = 0 .. WordBytes - 1
    BY DEF Widened
  <2>3. Widened(f, WordBytes, i.order) = [b \in 0 .. WordBytes - 1 |-> w[b]]
    <3>1. Widened(f, WordBytes, i.order)
            = [b \in 0 .. WordBytes - 1 |-> Widened(f, WordBytes, i.order)[b]]
      BY DEF Widened
    <3> HIDE DEF w
    <3> QED
      BY <2>1, <3>1
  <2> HIDE DEF w
  <2> QED
    BY <1>4, <2>3 DEF Word
<1>7. Loaded(k, s, 1, m) = [s EXCEPT !.gpr[i.r] = w]
  BY <1>1, <1>3, <1>6 DEF Loaded, f
<1>8. [s EXCEPT !.gpr[i.r] = w] = s
  <2> HIDE DEF s
  <2> QED
    BY <1>1, <1>4 DEF Cpu
<1> QED
  BY <1>1, <1>2, <1>7, <1>8

\* stmw and lmw.
LEMMA RoundTripMultiple ==
  ASSUME NEW i \in Instructions, i.form = "stmw", NEW c \in Cpu, NEW m, ~ i.update, Fits(i)
  PROVE  Completed(Back(i), Completed(i, c, m), m) = Completed(i, c, m)
<1> DEFINE s == Completed(i, c, m)
           k == Back(i)
           n == Count(i)
<1>0. i.form \in DOMAIN Loader
  BY DEF Loader
<1>1. /\ s \in Cpu /\ s.gpr = c.gpr /\ k.r = i.r
      /\ k.form = "lmw" /\ Unit(k) = Unit(i) /\ Completed(k, s, m) = Loaded(k, s, n, m)
      /\ \A j \in 0 .. n - 1 : \A b \in 0 .. Unit(i) - 1 :
           Fetched(k, s, j)[b] = Source(i, c, j)[b]
  BY <1>0, BackFacts DEF Loader
<1>2. /\ n = NRegs - i.r /\ Unit(i) = WordBytes /\ i.r \in Nat /\ NRegs \in Nat /\ i.r < NRegs
      /\ WordBytes \in Nat
  BY InstructionFacts, Sizes DEF Count, Unit, Multiples, Strings, FloatForms, Singles, Reg
<1>3. ASSUME NEW q \in i.r .. i.r + n - 1 PROVE Fetched(k, s, q - i.r) = c.gpr[q]
  <2>1. q - i.r \in 0 .. n - 1 /\ i.r + (q - i.r) = q /\ q \in Reg
    BY <1>2 DEF Reg
  <2>2. Source(i, c, q - i.r) = c.gpr[q]
    BY <2>1 DEF Source
  <2>3. c.gpr[q] \in Word
    BY <2>1, CpuParts
  <2>4. \A b \in 0 .. WordBytes - 1 : Fetched(k, s, q - i.r)[b] = c.gpr[q][b]
    BY <1>1, <1>2, <2>1, <2>2
  <2>5. Fetched(k, s, q - i.r) = [b \in 0 .. WordBytes - 1 |-> Fetched(k, s, q - i.r)[b]]
    BY <1>1, <1>2 DEF Fetched
  <2> HIDE DEF k, s
  <2> QED
    BY <2>3, <2>4, <2>5 DEF Word
<1> HIDE DEF s, k, n
<1>4. Loaded(k, s, n, m) = [s EXCEPT !.gpr = [q \in Reg |->
        IF q \in i.r .. i.r + n - 1 THEN Fetched(k, s, q - i.r) ELSE s.gpr[q]]]
  BY <1>1 DEF Loaded
<1>5. [q \in Reg |-> IF q \in i.r .. i.r + n - 1 THEN Fetched(k, s, q - i.r) ELSE s.gpr[q]]
        = s.gpr
  BY <1>1, <1>3 DEF Cpu
<1>6. [s EXCEPT !.gpr = s.gpr] = s
  BY <1>1 DEF Cpu
<1> QED
  BY <1>1, <1>4, <1>5, <1>6 DEF s, k, n

\* stswi and lswi of whole registers, around the end of the registers.
LEMMA RoundTripString ==
  ASSUME NEW i \in Instructions, i.form = "stswi", NEW c \in Cpu, NEW m, ~ i.update, Fits(i),
         WholeRegisters(i)
  PROVE  Completed(Back(i), Completed(i, c, m), m) = Completed(i, c, m)
<1> DEFINE s == Completed(i, c, m)
           k == Back(i)
           n == Count(i)
           place(q) == (q - i.r) % NRegs
           at(q) == place(q) * WordBytes
<1>0. i.form \in DOMAIN Loader
  BY DEF Loader
<1>1. /\ s \in Cpu /\ s.gpr = c.gpr /\ k.r = i.r /\ Count(k) = n
      /\ k.form = "lswi" /\ Unit(k) = Unit(i) /\ Completed(k, s, m) = Loaded(k, s, n, m)
      /\ \A j \in 0 .. n - 1 : \A b \in 0 .. Unit(i) - 1 :
           Fetched(k, s, j)[b] = Source(i, c, j)[b]
  BY <1>0, BackFacts DEF Loader
<1>2. /\ Unit(i) = 1 /\ n \in Nat /\ i.r \in Nat /\ NRegs \in Nat /\ NRegs >= 1 /\ i.r < NRegs
      /\ WordBytes \in Nat /\ WordBytes >= 1
  BY InstructionFacts, CountUnit, Sizes DEF Unit, Strings, Reg
<1>3. PICK h \in Nat : n = h * WordBytes
  <2>1. n * 1 = n /\ (n * Unit(i)) % WordBytes = 0
    BY <1>2 DEF WholeRegisters
  <2>2. n % WordBytes = 0
    BY <1>2, <2>1
  <2> HIDE DEF n
  <2> QED
    BY <1>2, <2>2
<1>4. ASSUME NEW q \in Reg, at(q) < n, NEW b \in 0 .. WordBytes - 1
      PROVE  at(q) + b < n /\ Fetched(k, s, at(q) + b)[0] = c.gpr[q][b]
  <2> DEFINE p == place(q)
  <2>1. p \in Nat /\ p < NRegs
    BY <1>2 DEF Reg
  <2>2. at(q) = p * WordBytes
    OBVIOUS
  <2> HIDE DEF p, k, s, n
  <2>3. p < h
    <3>1. SUFFICES ASSUME p >= h PROVE FALSE
      BY <1>3, <2>1
    <3>2. p * WordBytes >= h * WordBytes
      BY <1>2, <1>3, <2>1, <3>1
    <3>3. p * WordBytes \in Nat /\ h * WordBytes \in Nat
      BY <1>2, <1>3, <2>1
    <3> QED
      BY <1>2, <1>3, <1>4, <2>2, <3>2, <3>3
  <2>4. p * WordBytes + WordBytes <= n
    <3>1. (p + 1) * WordBytes <= h * WordBytes
      BY <1>2, <1>3, <2>1, <2>3
    <3> QED
      BY <1>2, <1>3, <2>1, <3>1
  <2>5. p * WordBytes \in Nat
    BY <1>2, <2>1
  <2> DEFINE j == p * WordBytes + b
  <2>6. j \in 0 .. n - 1 /\ at(q) + b = j /\ j < n
    BY <1>2, <2>2, <2>4, <2>5
  <2>7. j \div WordBytes = p /\ j % WordBytes = b
    BY <1>2, <2>1, Remainder
  <2>8. (i.r + p) % NRegs = q
    <3>1. (((q - i.r) % NRegs) + i.r) % NRegs = ((q - i.r) + i.r) % NRegs
      <4>1. q - i.r \in Int /\ i.r \in Int /\ NRegs > 0
        BY <1>2 DEF Reg
      <4> QED
        BY <1>2, <4>1, RemainderSum
    <3>2. (q - i.r) + i.r = q /\ q % NRegs = q
      BY <1>2 DEF Reg
    <3>3. ((q - i.r) % NRegs) + i.r = i.r + p
      <4>1. p = (q - i.r) % NRegs
        BY DEF p
      <4> QED
        BY <1>2, <2>1, <4>1
    <3> QED
      BY <3>1, <3>2, <3>3
  <2> HIDE DEF j
  <2>9. Source(i, c, j)[0] = c.gpr[q][b]
    BY <2>7, <2>8 DEF Source
  <2>10. Fetched(k, s, j)[0] = Source(i, c, j)[0]
    BY <1>1, <1>2, <2>6 DEF n, k, s
  <2> QED
    BY <2>6, <2>9, <2>10
<1>5. ASSUME NEW q \in Reg PROVE StringLoaded(k, s, n)[q] = s.gpr[q]
  <2> DEFINE word == [b \in 0 .. WordBytes - 1 |->
                        IF at(q) + b < n THEN Fetched(k, s, at(q) + b)[0] ELSE 0]
  <2>1. StringLoaded(k, s, n)[q] = IF at(q) < n /\ at(q) <= n THEN word ELSE s.gpr[q]
    BY <1>1 DEF StringLoaded
  <2>2. CASE at(q) < n
    <3> HIDE DEF k, s, n, at
    <3>1. word = [b \in 0 .. WordBytes - 1 |-> c.gpr[q][b]]
      BY <1>4, <2>2
    <3>2. c.gpr[q] \in Word
      BY CpuParts
    <3>3. word = c.gpr[q]
      <4> HIDE DEF word
      <4> QED
        BY <3>1, <3>2 DEF Word
    <3> HIDE DEF word
    <3> QED
      BY <1>1, <2>1, <3>3 DEF k, s, n
  <2>3. CASE ~ (at(q) < n)
    BY <2>1, <2>3
  <2> QED
    BY <2>2, <2>3
<1> HIDE DEF s, k, n
<1>6. StringLoaded(k, s, n) = s.gpr
  <2>1. StringLoaded(k, s, n) = [q \in Reg |-> StringLoaded(k, s, n)[q]]
    BY DEF StringLoaded
  <2>2. s.gpr \in [Reg -> Word]
    BY <1>1 DEF Cpu
  <2> QED
    BY <1>5, <2>1, <2>2
<1>7. Loaded(k, s, n, m) = [s EXCEPT !.gpr = StringLoaded(k, s, n)]
  BY <1>1 DEF Loaded
<1>8. [s EXCEPT !.gpr = s.gpr] = s
  BY <1>1 DEF Cpu
<1> QED
  BY <1>1, <1>6, <1>7, <1>8 DEF s, k, n

-----------------------------------------------------------------------------
(* The multiple and string loads as words *)

\* The word at i's address plus n as lwz loads it into q, whatever the registers
\* hold: Lwz of the present registers is LwzOf(cpu, ...).
LwzOf(c, i, q, n) ==
  [i EXCEPT !.form = "load", !.r = q, !.len = WordBytes, !.order = "zero",
            !.update = FALSE, !.indexed = FALSE,
            !.x = ((IF i.indexed THEN Num[c.gpr[i.x]] ELSE i.x) + n) % Space]

\* What lwz loads, byte by byte.
LEMMA LwzLoads ==
  ASSUME NEW i \in Instructions, ~ i.indexed, NEW c \in Cpu, NEW m, NEW q \in Reg,
         NEW n \in Nat
  PROVE  Completed(LwzOf(c, i, q, n), c, m).gpr[q]
           = [b \in 0 .. WordBytes - 1 |-> c.mem[(EffectiveAddress(i, c) + (n + b)) % Space]]
<1> DEFINE k == LwzOf(c, i, q, n)
           base == IF i.a = 0 THEN 0 ELSE Num[c.gpr[i.a]]
           e == EffectiveAddress(i, c)
           f == Fetched(k, c, 0)
<1>1. /\ i \in Instruction /\ i.x \in Nat /\ i.a \in Reg /\ Space \in Nat /\ Space > 0
      /\ WordBytes \in Nat /\ WordBytes >= 1
  BY InstructionFacts, Sizes DEF Instruction, Address
<1>2. /\ k.form = "load" /\ k.r = q /\ k.len = WordBytes /\ k.order = "zero" /\ ~ k.update
      /\ ~ k.indexed /\ k.a = i.a /\ k.x = (i.x + n) % Space
  BY <1>1 DEF LwzOf, Instruction
<1> HIDE DEF k
<1>3. base \in Nat
  <2>1. Num[c.gpr[i.a]] \in Nat
    BY <1>1, CpuParts, NumNat
  <2> QED
    BY <2>1
<1>4. EffectiveAddress(i, c) = (base + i.x) % Space
  BY DEF EffectiveAddress
<1>5. EffectiveAddress(k, c) = (base + ((i.x + n) % Space)) % Space
  BY <1>2 DEF EffectiveAddress
<1> HIDE DEF base
<1>6. e \in Int /\ EffectiveAddress(k, c) = (e + n) % Space
  <2>1. (((i.x + n) % Space) + base) % Space = ((i.x + n) + base) % Space
    <3>1. i.x + n \in Int /\ base \in Int
      BY <1>1, <1>3
    <3> QED
      BY <1>1, <3>1, RemainderSum
  <2>2. (((base + i.x) % Space) + n) % Space = ((base + i.x) + n) % Space
    <3>1. base + i.x \in Int /\ n \in Int
      BY <1>1, <1>3
    <3> QED
      BY <1>1, <3>1, RemainderSum
  <2>3. (i.x + n) % Space \in Int /\ (i.x + n) + base = (base + i.x) + n
    BY <1>1, <1>3
  <2>4. base + ((i.x + n) % Space) = ((i.x + n) % Space) + base
    BY <1>3, <2>3
  <2>5. e \in Int
    BY EffectiveAddressType, Sizes DEF Address
  <2> QED
    BY <1>4, <1>5, <2>1, <2>2, <2>3, <2>4, <2>5
<1>7. Unit(k) = WordBytes /\ Count(k) = 1
  BY <1>2 DEF Unit, Count, Multiples, Strings, FloatForms, Singles
<1>8. ASSUME NEW b \in 0 .. WordBytes - 1
      PROVE  f[b] = c.mem[(e + (n + b)) % Space]
  <2>1. f[b] = c.mem[(At(k, c, 0) + b) % Space]
    BY <1>7 DEF Fetched
  <2>2. (At(k, c, 0) + b) % Space = (EffectiveAddress(k, c) + b) % Space
    <3>1. EffectiveAddress(k, c) \in Int /\ b \in Nat
      BY <1>1, <1>6
    <3>2. (At(k, c, 0) + b) % Space = (EffectiveAddress(k, c) + (0 * Unit(k) + b)) % Space
      BY <1>1, <1>7, <3>1, BytePlace
    <3>3. 0 * Unit(k) + b = b
      BY <1>1, <1>7
    <3> QED
      BY <3>2, <3>3
  <2>3. (((e + n) % Space) + b) % Space = ((e + n) + b) % Space
    <3>1. e + n \in Int /\ b \in Int
      BY <1>6
    <3> HIDE DEF e
    <3> QED
      BY <1>1, <3>1, RemainderSum
  <2>4. (e + n) + b = e + (n + b)
    BY <1>6
  <2> QED
    BY <1>6, <2>1, <2>2, <2>3, <2>4
<1> HIDE DEF f
<1>9. Widened(f, WordBytes, "zero") = [b \in 0 .. WordBytes - 1 |-> f[b]]
  <2>1. \A b \in 0 .. WordBytes - 1 : b - (WordBytes - WordBytes) = b /\ ~ (b < 0)
    BY <1>1
  <2> QED
    BY <2>1 DEF Widened
<1>10. Completed(k, c, m) = [c EXCEPT !.gpr[q] = Widened(f, WordBytes, "zero")]
  BY <1>2, <1>7 DEF Completed, Based, Moved, Loaded, Loading, f
<1>11. Completed(k, c, m).gpr[q] = Widened(f, WordBytes, "zero")
  BY <1>10 DEF Cpu
<1> HIDE DEF e
<1>12. [b \in 0 .. WordBytes - 1 |-> f[b]]
         = [b \in 0 .. WordBytes - 1 |-> c.mem[(e + (n + b)) % Space]]
  BY <1>8
<1> QED
  BY <1>9, <1>11, <1>12 DEF k, e

\* What register d of a multiple or string load holds, d counted from the first.
Reached(i) == (Count(i) * Unit(i) + WordBytes - 1) \div WordBytes

\* What lmw leaves in register d.
LEMMA LmwWords ==
  ASSUME NEW i \in Instructions, i.form = "lmw", NEW c \in Cpu, NEW m,
         NEW d \in 0 .. NRegs - 1
  PROVE  LET q == (i.r + d) % NRegs
         IN Completed(i, c, m).gpr[q] =
              IF d >= Reached(i) THEN c.gpr[q]
              ELSE [b \in 0 .. WordBytes - 1 |->
                      IF d * WordBytes + b < Count(i) * Unit(i)
                      THEN c.mem[(EffectiveAddress(i, c) + (d * WordBytes + b)) % Space] ELSE 0]
<1> DEFINE q == (i.r + d) % NRegs
           n == Count(i)
           e == EffectiveAddress(i, c)
<1>1. /\ n = NRegs - i.r /\ Unit(i) = WordBytes /\ i.r \in Nat /\ NRegs \in Nat /\ i.r < NRegs
      /\ WordBytes \in Nat /\ WordBytes >= 1 /\ ~ i.update /\ n \in Nat /\ n >= 1
  BY InstructionFacts, CountUnit, Sizes
  DEF Count, Unit, Multiples, Strings, FloatForms, Singles, Reg
<1>2. e \in Int /\ d \in Nat /\ d < NRegs
  BY <1>1, EffectiveAddressType, Sizes DEF Address
<1>3. q \in Reg /\ (d < n => q = i.r + d) /\ (d >= n => q = i.r + d - NRegs)
  BY <1>1, <1>2 DEF Reg
<1>4. Completed(i, c, m).gpr[q] =
        IF q \in i.r .. i.r + n - 1 THEN Fetched(i, c, q - i.r) ELSE c.gpr[q]
  <2>1. Completed(i, c, m) = [c EXCEPT !.gpr = [z \in Reg |->
          IF z \in i.r .. i.r + n - 1 THEN Fetched(i, c, z - i.r) ELSE c.gpr[z]]]
    BY <1>1 DEF Completed, Based, Moved, Loaded, Loading
  <2> HIDE DEF q, n
  <2> QED
    BY <1>3, <2>1 DEF Cpu
<1>5. Reached(i) = n
  <2>1. n * WordBytes + WordBytes - 1 = n * WordBytes + (WordBytes - 1)
    <3>1. n * WordBytes \in Nat
      BY <1>1
    <3> QED
      BY <1>1, <3>1
  <2>2. (n * WordBytes + (WordBytes - 1)) \div WordBytes = n
    <3>1. WordBytes - 1 \in 0 .. WordBytes - 1 /\ n \in Int /\ WordBytes > 0
      BY <1>1
    <3> HIDE DEF n
    <3> QED
      BY <1>1, <3>1, Remainder
  <2> QED
    BY <1>1, <2>1, <2>2 DEF Reached
<1>6. CASE d >= n
  <2>1. q \notin i.r .. i.r + n - 1
    BY <1>1, <1>2, <1>3, <1>6
  <2> QED
    BY <1>4, <1>5, <1>6, <2>1
<1>7. CASE ~ (d >= n)
  <2>1. q \in i.r .. i.r + n - 1 /\ q - i.r = d
    BY <1>1, <1>2, <1>3, <1>7
  <2>2. Completed(i, c, m).gpr[q] = Fetched(i, c, d)
    BY <1>4, <2>1
  <2>3. ASSUME NEW b \in 0 .. WordBytes - 1
        PROVE  /\ d * WordBytes + b < n * WordBytes
               /\ (At(i, c, d) + b) % Space = (e + (d * WordBytes + b)) % Space
    <3>1. d * WordBytes + WordBytes <= n * WordBytes
      <4> HIDE DEF n
      <4>1. (d + 1) * WordBytes <= n * WordBytes
        BY <1>1, <1>2, <1>7
      <4> QED
        BY <1>1, <1>2, <4>1
    <3>2. d * WordBytes \in Nat /\ n * WordBytes \in Nat
      BY <1>1, <1>2
    <3>3. (At(i, c, d) + b) % Space = (e + (d * Unit(i) + b)) % Space
      BY <1>1, <1>2, BytePlace
    <3> QED
      BY <1>1, <3>1, <3>2, <3>3
  <2>4. Fetched(i, c, d) = [b \in 0 .. WordBytes - 1 |-> c.mem[(At(i, c, d) + b) % Space]]
    BY <1>1 DEF Fetched
  <2> HIDE DEF n, e
  <2>5. Fetched(i, c, d) =
          [b \in 0 .. WordBytes - 1 |->
             IF d * WordBytes + b < n * WordBytes
             THEN c.mem[(e + (d * WordBytes + b)) % Space] ELSE 0]
    BY <2>3, <2>4
  <2> HIDE DEF q
  <2> QED
    BY <1>1, <1>5, <1>7, <2>2, <2>5 DEF n, e, q
<1> QED
  BY <1>6, <1>7

\* What lswi leaves in register d.
LEMMA LswiWords ==
  ASSUME NEW i \in Instructions, i.form = "lswi", NEW c \in Cpu, NEW m,
         NEW d \in 0 .. NRegs - 1
  PROVE  LET q == (i.r + d) % NRegs
         IN Completed(i, c, m).gpr[q] =
              IF d >= Reached(i) THEN c.gpr[q]
              ELSE [b \in 0 .. WordBytes - 1 |->
                      IF d * WordBytes + b < Count(i) * Unit(i)
                      THEN c.mem[(EffectiveAddress(i, c) + (d * WordBytes + b)) % Space] ELSE 0]
<1> DEFINE q == (i.r + d) % NRegs
           n == Count(i)
           e == EffectiveAddress(i, c)
           at == d * WordBytes
<1>1. /\ Unit(i) = 1 /\ i.r \in Nat /\ NRegs \in Nat /\ i.r < NRegs
      /\ WordBytes \in Nat /\ WordBytes >= 1 /\ ~ i.update /\ n \in Nat /\ n >= 1
  BY InstructionFacts, CountUnit, Sizes DEF Unit, Strings, Reg
<1>2. e \in Int /\ d \in Nat /\ d < NRegs /\ at \in Nat
  BY <1>1, EffectiveAddressType, Sizes DEF Address
<1>3. q \in Reg /\ (q - i.r) % NRegs = d
  <2>1. q \in Reg /\ (i.r + d < NRegs => q = i.r + d)
        /\ (i.r + d >= NRegs => q = i.r + d - NRegs)
    BY <1>1, <1>2 DEF Reg
  <2> HIDE DEF q
  <2>2. CASE i.r + d < NRegs
    BY <1>1, <1>2, <2>1, <2>2
  <2>3. CASE i.r + d >= NRegs
    <3>1. q - i.r = (-1) * NRegs + d
      BY <1>1, <1>2, <2>1, <2>3
    <3>2. ((-1) * NRegs + d) % NRegs = d
      <4>1. d \in 0 .. NRegs - 1 /\ NRegs > 0 /\ -1 \in Int
        BY <1>1, <1>2
      <4> QED
        BY <1>1, <4>1, Remainder
    <3> QED
      BY <2>1, <3>1, <3>2
  <2> QED
    BY <1>1, <1>2, <2>1, <2>2, <2>3
<1>4. Completed(i, c, m).gpr[q] = StringLoaded(i, c, n)[q]
  <2>1. Completed(i, c, m) = [c EXCEPT !.gpr = StringLoaded(i, c, n)]
    BY <1>1 DEF Completed, Based, Moved, Loaded, Loading
  <2> QED
    BY <2>1 DEF Cpu
<1>5. StringLoaded(i, c, n)[q] =
        IF at < n /\ at <= n
        THEN [b \in 0 .. WordBytes - 1 |-> IF at + b < n THEN Fetched(i, c, at + b)[0] ELSE 0]
        ELSE c.gpr[q]
  <2> HIDE DEF q
  <2>1. StringLoaded(i, c, n)[q] =
          IF ((q - i.r) % NRegs) * WordBytes < n /\ ((q - i.r) % NRegs) * WordBytes <= n
          THEN [b \in 0 .. WordBytes - 1 |->
                  IF ((q - i.r) % NRegs) * WordBytes + b < n
                  THEN Fetched(i, c, ((q - i.r) % NRegs) * WordBytes + b)[0] ELSE 0]
          ELSE c.gpr[q]
    BY <1>3 DEF StringLoaded
  <2> QED
    BY <1>3, <2>1
<1>6. d >= Reached(i) <=> ~ (at < n)
  <2> DEFINE y == n + WordBytes - 1
             z == y \div WordBytes
             r == y % WordBytes
  <2>1. Reached(i) = z
    <3>1. n * Unit(i) = n
      BY <1>1
    <3> QED
      BY <3>1 DEF Reached
  <2>2. z \in Int /\ r \in 0 .. WordBytes - 1 /\ y = z * WordBytes + r
    <3>1. y \in Int
      BY <1>1
    <3> HIDE DEF y
    <3> QED
      BY <1>1, <3>1, Remainders
  <2>3. n + WordBytes - 1 = z * WordBytes + r
    BY <2>2
  <2>4. z * WordBytes \in Int
    BY <1>1, <2>2
  <2> HIDE DEF z, r, n
  <2>5. z * WordBytes >= n /\ z * WordBytes < n + WordBytes
    BY <1>1, <2>2, <2>3, <2>4
  <2>6. CASE d >= z
    <3>1. d * WordBytes >= z * WordBytes
      BY <1>1, <1>2, <2>2, <2>6
    <3> HIDE DEF at
    <3>2. at >= z * WordBytes
      BY <3>1 DEF at
    <3> QED
      BY <1>1, <1>2, <2>1, <2>4, <2>5, <2>6, <3>2
  <2>7. CASE ~ (d >= z)
    <3>1. (d + 1) * WordBytes <= z * WordBytes
      <4>1. d + 1 <= z
        BY <1>2, <2>2, <2>7
      <4> QED
        BY <1>1, <1>2, <2>2, <4>1
    <3>2. (d + 1) * WordBytes = d * WordBytes + WordBytes
      BY <1>1, <1>2
    <3> HIDE DEF at
    <3>3. at + WordBytes <= z * WordBytes
      BY <3>1, <3>2 DEF at
    <3> QED
      BY <1>1, <1>2, <2>1, <2>4, <2>5, <2>7, <3>3
  <2> QED
    BY <2>6, <2>7
<1>7. CASE ~ (at < n)
  BY <1>4, <1>5, <1>6, <1>7
<1>8. CASE at < n
  <2>1. ASSUME NEW b \in 0 .. WordBytes - 1
        PROVE  Fetched(i, c, at + b)[0] = c.mem[(e + (at + b)) % Space]
    <3>1. at + b \in Nat /\ b \in Nat
      BY <1>1, <1>2
    <3> HIDE DEF at, e
    <3>2. Fetched(i, c, at + b)[0] = c.mem[(At(i, c, at + b) + 0) % Space]
      BY <1>1 DEF Fetched
    <3>3. (At(i, c, at + b) + 0) % Space = (e + ((at + b) * Unit(i) + 0)) % Space
      BY <1>1, <1>2, <3>1, BytePlace DEF e
    <3>4. (at + b) * Unit(i) + 0 = at + b
      BY <1>1, <3>1
    <3> QED
      BY <3>2, <3>3, <3>4
  <2>2. n * Unit(i) = n /\ at <= n
    BY <1>1, <1>2, <1>8
  <2> HIDE DEF n, e, at
  <2>3. [b \in 0 .. WordBytes - 1 |-> IF at + b < n THEN Fetched(i, c, at + b)[0] ELSE 0]
          = [b \in 0 .. WordBytes - 1 |->
               IF at + b < n THEN c.mem[(e + (at + b)) % Space] ELSE 0]
    BY <2>1
  <2> HIDE DEF q
  <2> QED
    BY <1>4, <1>5, <1>6, <1>8, <2>2, <2>3 DEF n, e, at, q
<1> QED
  BY <1>7, <1>8

\* The forms agree in every state, not only in those a program reaches.
LEMMA FormsAgreeAlways == TypeOK => FormsAgree
<1> SUFFICES ASSUME TypeOK PROVE FormsAgree
  OBVIOUS
<1>1. cpu \in Cpu /\ program.code \subseteq Instructions
  BY ProgramFacts DEF TypeOK
<1>2. RoundTrips
  <2> SUFFICES ASSUME NEW i \in program.code,
                      i.form \in DOMAIN Loader, ~ i.update, WholeRegisters(i), Fits(i)
               PROVE  Completed(Back(i), Completed(i, cpu, modes), modes)
                        = Completed(i, cpu, modes)
    BY DEF RoundTrips, Back
  <2>1. i \in Instructions /\ i.form \in {"store", "stmw", "stswi"}
    BY <1>1 DEF Loader
  <2> QED
    BY <1>1, <2>1, RoundTripStore, RoundTripMultiple, RoundTripString
<1>3. MultiplesAreWords
  <2> SUFFICES ASSUME NEW i \in program.code, i.form \in {"lmw", "lswi"},
                      NEW d \in 0 .. NRegs - 1
               PROVE  LET q == (i.r + d) % NRegs
                          word == Completed(Lwz(i, q, d * WordBytes), cpu, modes).gpr[q]
                      IN Completed(i, cpu, modes).gpr[q] =
                           IF d >= Reached(i) THEN cpu.gpr[q]
                           ELSE [b \in 0 .. WordBytes - 1 |->
                                   IF d * WordBytes + b < Count(i) * Unit(i)
                                   THEN word[b] ELSE 0]
    BY DEF MultiplesAreWords, Reached
  <2> DEFINE q == (i.r + d) % NRegs
             word == Completed(Lwz(i, q, d * WordBytes), cpu, modes).gpr[q]
             n == d * WordBytes
             byte(b) == cpu.mem[(EffectiveAddress(i, cpu) + (n + b)) % Space]
  <2>1. i \in Instructions /\ ~ i.indexed /\ q \in Reg /\ n \in Nat
    <3>1. i \in Instructions
      BY <1>1
    <3>2. i.r \in Nat /\ d \in Nat /\ NRegs \in Nat /\ NRegs > 0 /\ WordBytes \in Nat
      BY <3>1, InstructionFacts, Sizes DEF Reg
    <3>3. ~ i.indexed
      BY <3>1, InstructionFacts DEF Multiples, Strings
    <3> QED
      BY <3>1, <3>2, <3>3 DEF Reg
  <2>2. Lwz(i, q, n) = LwzOf(cpu, i, q, n)
    BY DEF Lwz, LwzOf
  <2> HIDE DEF q, n
  <2>3. word = [b \in 0 .. WordBytes - 1 |-> byte(b)]
    BY <1>1, <2>1, <2>2, LwzLoads DEF n
  <2>4. Completed(i, cpu, modes).gpr[q] =
          IF d >= Reached(i) THEN cpu.gpr[q]
          ELSE [b \in 0 .. WordBytes - 1 |-> IF n + b < Count(i) * Unit(i) THEN byte(b) ELSE 0]
    BY <1>1, <2>1, LmwWords, LswiWords DEF q, n
  <2> HIDE DEF word, byte
  <2>5. [b \in 0 .. WordBytes - 1 |-> IF n + b < Count(i) * Unit(i) THEN byte(b) ELSE 0]
          = [b \in 0 .. WordBytes - 1 |-> IF n + b < Count(i) * Unit(i) THEN word[b] ELSE 0]
    BY <2>3
  <2> QED
    BY <2>4, <2>5 DEF q, n, word
<1> QED
  BY <1>2, <1>3 DEF FormsAgree

\* What a store of whole registers puts into memory the load of its form brings
\* back, and lmw and lswi load words as lwz does (do_stmw and do_lmw, do_stswi and
\* do_lswi, do_basic_load), for every width of a word and every register file.
THEOREM StoresAndLoadsAgree == Spec => []FormsAgree
BY FormsAgreeAlways, TypeCorrect, PTL DEF Spec

-----------------------------------------------------------------------------
(* lwarx and stwcx., for every number of tasks, words and interruptions *)

\* A round is between its lwarx and its stwcx., then has an honest answer.
Rounds ==
  \A t \in Tasks :
    /\ pc[t] = "stwcx" => ~stored[t]
    /\ pc[t] = "branch" => (eq[t] <=> stored[t])
    /\ pc[t] # "lwarx" => todo[t] > 0

\* A reservation is held by the running task, between its lwarx and its
\* stwcx., and nothing but a device has written its word in between.
Reserved ==
  reserve => /\ pc[current] = "stwcx"
             /\ overrun[current] \/ gpr[current] = mem[addr[current]]

TasksInv == TasksTypeOK /\ Rounds /\ Reserved

\* Adding one to a word gives a word.
LEMMA Plus1Value ==
  ASSUME NEW v \in Value
  PROVE  Plus1(v) \in Value
BY ReservationAssumption DEF ReservationAssumption, Plus1, Value

\* Zero is a word.
LEMMA ZeroValue == 0 \in Value
BY ReservationAssumption DEF ReservationAssumption, Value

\* The first state satisfies the invariant.
LEMMA TasksInitInv == TasksInit => TasksInv
<1> SUFFICES ASSUME TasksInit PROVE TasksInv
  OBVIOUS
<1>1. TasksTypeOK
  BY ZeroValue, ReservationAssumption DEF ReservationAssumption, TasksInit, TasksTypeOK
<1>2. Rounds
  BY DEF TasksInit, Rounds
<1>3. Reserved
  BY DEF TasksInit, Reserved
<1> QED
  BY <1>1, <1>2, <1>3 DEF TasksInv

\* lwarx keeps it: it starts a round with what is in memory, or gives up the
\* reservation when it faults.
LEMMA LwarxInv ==
  ASSUME TasksInv, NEW t \in Tasks, Lwarx(t)
  PROVE  TasksInv'
<1> PICK w \in Locations : do_indexed_load_conditional(t, w)
  BY DEF Lwarx
<1>1. CASE grant = "none"
  <2>1. TasksTypeOK' /\ Rounds'
    BY <1>1 DEF TasksInv, TasksTypeOK, Rounds, Lwarx, do_indexed_load_conditional
  <2>2. Reserved'
    BY <1>1 DEF Reserved, do_indexed_load_conditional
  <2> QED
    BY <2>1, <2>2 DEF TasksInv
<1>2. CASE grant # "none"
  <2>0. reserve' = TRUE /\ Loads(t, w)
    BY <1>2 DEF do_indexed_load_conditional
  <2> USE <2>0 DEF Loads, Lwarx
  <2>1. TasksTypeOK'
    BY DEF TasksInv, TasksTypeOK
  <2>2. Rounds'
    BY DEF TasksInv, TasksTypeOK, Rounds
  <2>3. Reserved'
    BY DEF TasksInv, TasksTypeOK, Reserved
  <2> QED
    BY <2>1, <2>2, <2>3 DEF TasksInv
<1> QED
  BY <1>1, <1>2

\* stwcx. keeps it: it consumes the reservation, and its answer says whether it
\* stored.
LEMMA StwcxInv ==
  ASSUME TasksInv, NEW t \in Tasks, Stwcx(t)
  PROVE  TasksInv'
<1> USE DEF Stwcx, do_indexed_store_conditional, Stores
<1>1. Plus1(gpr[t]) \in Value
  BY Plus1Value DEF TasksInv, TasksTypeOK
<1>2. TasksTypeOK'
  <2>1. CASE ~reserve
    BY <2>1 DEF TasksInv, TasksTypeOK
  <2>2. CASE reserve /\ grant = "rw"
    BY <2>2, <1>1 DEF TasksInv, TasksTypeOK
  <2>3. CASE reserve /\ grant # "rw"
    BY <2>3 DEF TasksInv, TasksTypeOK
  <2> QED
    BY <2>1, <2>2, <2>3
<1>3. Rounds'
  <2>1. CASE ~reserve
    BY <2>1 DEF TasksInv, TasksTypeOK, Rounds
  <2>2. CASE reserve /\ grant = "rw"
    BY <2>2 DEF TasksInv, TasksTypeOK, Rounds
  <2>3. CASE reserve /\ grant # "rw"
    BY <2>3 DEF TasksInv, TasksTypeOK, Rounds
  <2> QED
    BY <2>1, <2>2, <2>3
<1>4. Reserved'
  BY DEF Reserved
<1> QED
  BY <1>2, <1>3, <1>4 DEF TasksInv

\* The branch keeps it: no reservation is left when a task comes to it.
LEMMA BranchInv ==
  ASSUME TasksInv, NEW t \in Tasks, Branch(t)
  PROVE  TasksInv'
<1>1. TasksTypeOK'
  BY DEF TasksInv, TasksTypeOK, Rounds, Branch
<1>2. Rounds'
  BY DEF TasksInv, TasksTypeOK, Rounds, Branch
<1>3. Reserved'
  BY DEF TasksInv, TasksTypeOK, Reserved, Branch
<1> QED
  BY <1>1, <1>2, <1>3 DEF TasksInv

\* A device keeps it: it marks the rounds on its word.
LEMMA DeviceInv ==
  ASSUME TasksInv, NEW w \in Locations, NEW v \in Value, DeviceWrites(w, v)
  PROVE  TasksInv'
<1>1. TasksTypeOK'
  BY DEF TasksInv, TasksTypeOK, DeviceWrites
<1>2. Rounds'
  BY DEF TasksInv, Rounds, DeviceWrites
<1>3. Reserved'
  <2> SUFFICES ASSUME reserve'
               PROVE  /\ pc'[current'] = "stwcx"
                      /\ overrun'[current'] \/ gpr'[current'] = mem'[addr'[current']]
    BY DEF Reserved
  <2>1. CASE addr[current] = w
    BY <2>1 DEF TasksInv, TasksTypeOK, Reserved, DeviceWrites
  <2>2. CASE addr[current] # w
    BY <2>2 DEF TasksInv, TasksTypeOK, Reserved, DeviceWrites
  <2> QED
    BY <2>1, <2>2
<1> QED
  BY <1>1, <1>2, <1>3 DEF TasksInv

\* The system keeps it: pages do not matter to it, a switch gives up the
\* reservation.
LEMMA SystemInv ==
  ASSUME TasksInv, GrantPage \/ RevokePage \/ (\E t \in Tasks : Switch(t))
  PROVE  TasksInv'
<1>1. CASE GrantPage
  BY <1>1 DEF TasksInv, TasksTypeOK, Rounds, Reserved, GrantPage
<1>2. CASE RevokePage
  BY <1>2 DEF TasksInv, TasksTypeOK, Rounds, Reserved, RevokePage
<1>3. CASE \E t \in Tasks : Switch(t)
  <2> PICK t \in Tasks : Switch(t)
    BY <1>3
  <2>1. budget' \in Nat
    BY DEF TasksInv, TasksTypeOK, Switch
  <2>2. TasksTypeOK'
    BY <2>1 DEF TasksInv, TasksTypeOK, Switch
  <2>3. Rounds'
    BY DEF TasksInv, Rounds, Switch
  <2>4. Reserved'
    BY DEF Reserved, Switch
  <2> QED
    BY <2>2, <2>3, <2>4 DEF TasksInv
<1> QED
  BY <1>1, <1>2, <1>3

\* Every step keeps the invariant.
LEMMA TasksNextInv == TasksInv /\ [TasksNext]_taskVars => TasksInv'
<1> SUFFICES ASSUME TasksInv, [TasksNext]_taskVars PROVE TasksInv'
  OBVIOUS
<1>1. CASE Run
  BY <1>1, LwarxInv, StwcxInv, BranchInv DEF Run
<1>2. CASE GrantPage \/ RevokePage \/ (\E t \in Tasks : Switch(t))
  BY <1>2, SystemInv
<1>3. CASE \E w \in Locations, v \in Value : DeviceWrites(w, v)
  BY <1>3, DeviceInv
<1>4. CASE UNCHANGED taskVars
  BY <1>4 DEF TasksInv, TasksTypeOK, Rounds, Reserved, taskVars
<1> QED
  BY <1>1, <1>2, <1>3, <1>4 DEF TasksNext

\* The invariant holds in every reachable state.
LEMMA TasksInvariance == TasksSpec => []TasksInv
BY TasksInitInv, TasksNextInv, PTL DEF TasksSpec

\* The reservation, the words and the tasks keep their types.
THEOREM TasksTypeCorrect == TasksSpec => []TasksTypeOK
<1>1. TasksInv => TasksTypeOK
  BY DEF TasksInv
<1> QED
  BY <1>1, TasksInvariance, PTL

\* A task is never told that it stored when it did not, or the other way round.
THEOREM AlwaysHonest == TasksSpec => []EqHonest
<1>1. TasksInv => EqHonest
  BY DEF TasksInv, Rounds, EqHonest
<1> QED
  BY <1>1, TasksInvariance, PTL

\* No store-conditional overwrites what another task stored after its lwarx.
THEOREM NothingLost == TasksSpec => NoLostUpdate
<1>1. ASSUME TasksInv, NEW t \in Tasks, Stwcx(t), stored'[t], ~overrun[t]
      PROVE  mem' = [mem EXCEPT ![addr[t]] = Plus1(mem[addr[t]])]
  <2>1. reserve /\ grant = "rw"
    BY <1>1 DEF TasksInv, TasksTypeOK, Rounds, Stwcx, do_indexed_store_conditional, Stores
  <2> QED
    BY <2>1, <1>1 DEF TasksInv, Reserved, Stwcx, do_indexed_store_conditional, Stores
<1>2. TasksInv /\ [TasksNext]_taskVars =>
        [\A t \in Tasks : Stwcx(t) /\ stored'[t] /\ ~overrun[t] =>
           mem' = [mem EXCEPT ![addr[t]] = Plus1(mem[addr[t]])]]_taskVars
  BY <1>1
<1> QED
  BY <1>2, TasksInvariance, PTL DEF TasksSpec, NoLostUpdate
=============================================================================
