---------------------------- MODULE IntegerUnit ----------------------------
(***************************************************************************)
(* The integer instructions of instr/arith.c and instr/bitwise.c and the   *)
(* compares of instr/cond.c, on words of any width.  A word is a number;   *)
(* the logical instructions see it as the set of its bits.                 *)
(***************************************************************************)
EXTENDS Integers, FiniteSetsExt

CONSTANTS
  Width,       \* bits of a word: 32 in the code, a power of 2
  Operands,    \* triples <<rD, rA, rB>> that instructions name
  Immediates,  \* immediate operands, numbers of Width \div 2 bits
  Rotates      \* triples <<SH, MB, ME>> of the rotate instructions

\* The powers of 2 that shifts of twice the width and the parts of a word need.
Power[n \in 0 .. 2 * Width] == IF n = 0 THEN 1 ELSE 2 * Power[n - 1]

\* The general registers that the operands name; 0 and 1 are among them.
Regs == UNION {{t[1], t[2], t[3]} : t \in Operands}

IntegerAssumption ==
  /\ Width \in Nat /\ Width >= 4
  /\ {0, 1} \subseteq Regs
  /\ Immediates \subseteq 0 .. Power[Width \div 2] - 1
  /\ Rotates \subseteq (0 .. Width - 1) \X (0 .. Width - 1) \X (0 .. Width - 1)
ASSUME IntegerAssumption

Modulus == Power[Width]
Word == 0 .. Modulus - 1
Ones == Modulus - 1
Flags == [so : BOOLEAN, ov : BOOLEAN, ca : BOOLEAN]

VARIABLE
  cpu   \* the general registers, XER[SO, OV, CA] and field 0 of CR, as the
        \* set of its bits that are one

TypeOK ==
  cpu \in [gpr : [Regs -> Word], xer : Flags,
          cr0 : SUBSET {"lt", "gt", "eq", "so"}]

----------------------------------------------------------------------------
(* Words *)

Negative(x) == x >= Modulus \div 2
Signed(x) == IF Negative(x) THEN x - Modulus ELSE x
Not(x) == Ones - x
Wrap(n) == n % Modulus
Flag(b) == IF b THEN 1 ELSE 0

\* Tables of the bits of each word, bit 0 the least significant, and back.
Bits == [x \in Word |-> {i \in 0 .. Width - 1 : (x \div Power[i]) % 2 = 1}]
Num == [s \in SUBSET (0 .. Width - 1) |-> CHOOSE x \in Word : Bits[x] = s]

\* A number of n bits, sign-extended to a word.
Extended(x, n) == IF x >= Power[n - 1] THEN x + Modulus - Power[n] ELSE x
Simm(im) == Extended(im, Width \div 2)

----------------------------------------------------------------------------
(* Sums: every addition and subtraction is one adder with other inputs. *)

Complementing == {"subf", "subfc", "subfe", "subfic", "neg", "subfze", "subfme"}
WithCarry == {"adde", "addze", "addme", "subfe", "subfze", "subfme"}
WithImmediate == {"addic", "subfic"}
WithRegister == {"add", "addc", "adde", "subf", "subfc", "subfe"}
Additive == Complementing \cup WithCarry \cup WithImmediate \cup WithRegister
Carrying == Additive \ {"add", "subf", "neg"}
MayOverflow == Additive \ WithImmediate

First(op, a) == IF op \in Complementing THEN Not(a) ELSE a
Second(op, b) ==
  IF op \in WithRegister \cup WithImmediate THEN b
  ELSE IF op \in {"addme", "subfme"} THEN Ones ELSE 0
CarryIn(op, ca) == IF op \in WithCarry THEN Flag(ca) ELSE Flag(op \in Complementing)

add_overflow(a, b, r) == Negative(a) = Negative(b) /\ Negative(a) # Negative(r)

Total(op, a, b, ca) == First(op, a) + Second(op, b) + CarryIn(op, ca)

\* Mutant of Sum: the overflow is the carry out of the word.
SumCarryOverflows(op, a, b, ca) ==
  LET carry == Total(op, a, b, ca) >= Modulus
  IN [r |-> Wrap(Total(op, a, b, ca)), ca |-> IF op \in Carrying THEN carry ELSE ca,
      ov |-> carry]

Sum(op, a, b, ca) ==
  LET r == Wrap(Total(op, a, b, ca))
      y == IF op = "addme" /\ ca THEN 0 ELSE Second(op, b)
  IN [r |-> r,
      ca |-> IF op \in Carrying THEN Total(op, a, b, ca) >= Modulus ELSE ca,
      ov |-> add_overflow(First(op, a), y, r)]

----------------------------------------------------------------------------
(* Products and quotients *)

Abs(x) == IF Negative(x) THEN Wrap(Not(x) + 1) ELSE x

\* Mutant of Quotient: divw that divides as if negative operands needed no second complement.
QuotientUnsigned(op, a, b, old) ==
  [r |-> IF b = 0 \/ (op = "divw" /\ a = Modulus \div 2 /\ b = Ones) THEN old
         ELSE IF op = "divw" THEN Abs(a) \div Abs(b) ELSE a \div b,
   ov |-> b = 0 \/ (op = "divw" /\ a = Modulus \div 2 /\ b = Ones)]

\* divw and divwu leave rD alone when they overflow.
Quotient(op, a, b, old) ==
  LET overflow == b = 0 \/ (op = "divw" /\ a = Modulus \div 2 /\ b = Ones)
      q == IF op = "divw" THEN Abs(a) \div Abs(b) ELSE a \div b
      negative == op = "divw" /\ Negative(a) # Negative(b)
  IN [r |-> IF overflow THEN old ELSE IF negative THEN Wrap(Not(q) + 1) ELSE q,
      ov |-> overflow]

Product(op, a, b) ==
  LET p == IF op = "mulhwu" THEN a * b ELSE Signed(a) * Signed(b)
  IN [r |-> IF op \in {"mulhw", "mulhwu"} THEN Wrap(p \div Modulus) ELSE Wrap(p),
      ov |-> p # Signed(Wrap(p))]

----------------------------------------------------------------------------
(* Logic, rotates and shifts *)

Logic(op, a, b) ==
  LET x == Bits[a]
      y == Bits[b]
      all == 0 .. Width - 1
  IN Num[CASE op = "xor" -> (x \cup y) \ (x \cap y)
           [] op = "or" -> x \cup y
           [] op = "orc" -> x \cup (all \ y)
           [] op = "and" -> x \cap y
           [] op = "andc" -> x \ y
           [] op = "nand" -> all \ (x \cap y)
           [] op = "nor" -> all \ (x \cup y)
           [] op = "eqv" -> all \ ((x \cup y) \ (x \cap y))]

LogicOps == {"xor", "or", "orc", "and", "andc", "nand", "nor", "eqv"}
LogicImmediate == {"xor", "or", "and"}

Left(x, n) == Wrap(x * Power[n])
Right(x, n) == x \div Power[n]

rotl32(x, rot) ==
  LET n == rot % Width
  IN IF n = 0 THEN x ELSE Logic("or", Left(x, n), Right(x, Width - n))

\* Mutant of mb_me_mask: one that does not go round the end.
MaskNoWrap(MB, ME) == Num[{Width - 1 - b : b \in MB .. ME}]

\* Bits MB to ME, counted from the most significant, round the end if MB > ME.
mb_me_mask(MB, ME) ==
  LET counted == IF MB <= ME THEN MB .. ME ELSE (0 .. ME) \cup (MB .. Width - 1)
  IN Num[{Width - 1 - b : b \in counted}]

Rotated(op, s, old, n, MB, ME) ==
  LET r == rotl32(s, n)
      m == mb_me_mask(MB, ME)
      kept == IF op = "rlwimi" THEN Logic("andc", old, m) ELSE 0
  IN Logic("or", Logic("and", r, m), kept)

\* The shift amount has one bit more than a rotation: all bits go when it is set.
Amount(b) == b % (2 * Width)

\* Mutant of Shifted: slw that keeps the bits which leave the word.
ShiftedWide(op, s, b) ==
  IF Amount(b) >= Width THEN 0
  ELSE IF op = "slw" THEN s * Power[Amount(b)] ELSE Right(s, Amount(b))

Shifted(op, s, b) ==
  IF Amount(b) >= Width THEN 0
  ELSE IF op = "slw" THEN Left(s, Amount(b)) ELSE Right(s, Amount(b))

\* Mutant of Arithmetic: a carry that says no more than that the word was negative.
ArithmeticSign(s, b) ==
  [r |-> IF Amount(b) >= Width THEN IF Negative(s) THEN Ones ELSE 0
         ELSE Wrap(Signed(s) \div Power[Amount(b)]),
   ca |-> Negative(s)]

\* sraw and srawi: the word shifted, and the carry: whether a negative lost ones.
Arithmetic(s, b) ==
  IF Amount(b) >= Width THEN [r |-> IF Negative(s) THEN Ones ELSE 0, ca |-> Negative(s)]
  ELSE [r |-> Wrap(Signed(s) \div Power[Amount(b)]),
        ca |-> Negative(s) /\ Amount(b) # 0 /\ s % Power[Amount(b)] # 0]

Leading(s) ==
  Min({n \in 0 .. Width : n = Width \/ Width - 1 - n \in Bits[s]})

Unary(op, s) ==
  CASE op = "cntlzw" -> Leading(s)
    [] op = "extsb" -> Extended(s % Power[Width \div 4], Width \div 4)
    [] op = "extsh" -> Extended(s % Power[Width \div 2], Width \div 2)

----------------------------------------------------------------------------
(* Results *)

Order(a, b) == IF a < b THEN "lt" ELSE IF a > b THEN "gt" ELSE "eq"
update_cr0(r, so) == {Order(Signed(r), 0)} \cup (IF so THEN {"so"} ELSE {})

\* Mutant of set_xer_ov: one that takes the summary bit back.
SummaryFollows(x, oe, ov) == IF oe THEN [x EXCEPT !.ov = ov, !.so = ov] ELSE x

set_xer_ov(x, oe, ov) ==
  IF oe THEN [x EXCEPT !.ov = ov, !.so = ov \/ x.so] ELSE x

\* Mutant of Result: CR0 takes the summary bit before the overflow sets it.
ResultBefore(s, d, r, x, rc) ==
  [gpr |-> [s.gpr EXCEPT ![d] = r], xer |-> x,
   cr0 |-> IF rc THEN update_cr0(r, s.xer.so) ELSE s.cr0]

\* The state with r in register d, XER as given, and CR0 when the form records.
Result(s, d, r, x, rc) ==
  [gpr |-> [s.gpr EXCEPT ![d] = r], xer |-> x,
   cr0 |-> IF rc THEN update_cr0(r, x.so) ELSE s.cr0]

AddForm(s, op, t, im, oe, rc) ==
  LET b == IF op \in WithImmediate THEN Simm(im) ELSE s.gpr[t[3]]
      o == Sum(op, s.gpr[t[2]], b, s.xer.ca)
      x == [s.xer EXCEPT !.ca = o.ca]
  IN Result(s, t[1], o.r, set_xer_ov(x, oe, o.ov), rc)

\* addi and addis: register 0 as a base is the number 0.
generic_addi(s, t, simm) ==
  Result(s, t[1], Wrap(simm + (IF t[2] = 0 THEN 0 ELSE s.gpr[t[2]])), s.xer, FALSE)

DivideForm(s, op, t, oe, rc) ==
  LET o == Quotient(op, s.gpr[t[2]], s.gpr[t[3]], s.gpr[t[1]])
  IN Result(s, t[1], o.r, set_xer_ov(s.xer, oe, o.ov), rc)

MultiplyForm(s, op, t, b, oe, rc) ==
  LET o == Product(op, s.gpr[t[2]], b)
  IN Result(s, t[1], o.r, set_xer_ov(s.xer, oe, o.ov), rc)

\* The logical, rotate and shift instructions write rA from rS: t is <<rA, rS, rB>>.
LogicForm(s, op, t, b, rc) == Result(s, t[1], Logic(op, s.gpr[t[2]], b), s.xer, rc)
UnaryForm(s, op, t, rc) == Result(s, t[1], Unary(op, s.gpr[t[2]]), s.xer, rc)
RotateForm(s, op, t, n, MB, ME, rc) ==
  Result(s, t[1], Rotated(op, s.gpr[t[2]], s.gpr[t[1]], n, MB, ME), s.xer, rc)
ShiftForm(s, op, t, rc) == Result(s, t[1], Shifted(op, s.gpr[t[2]], s.gpr[t[3]]), s.xer, rc)
ArithmeticForm(s, t, n, rc) ==
  LET o == Arithmetic(s.gpr[t[2]], n)
  IN Result(s, t[1], o.r, [s.xer EXCEPT !.ca = o.ca], rc)

\* The compares set field 0: cr_set_field with what the operands give.
Compared(op, a, b, so) ==
  {IF op = "cmpl" THEN Order(a, b) ELSE Order(Signed(a), Signed(b))}
    \cup (IF so THEN {"so"} ELSE {})
CompareForm(s, op, a, b) == [s EXCEPT !.cr0 = Compared(op, a, b, s.xer.so)]

-----------------------------------------------------------------------------
Init ==
  cpu = [gpr |-> [r \in Regs |-> 0],
         xer |-> [so |-> FALSE, ov |-> FALSE, ca |-> FALSE], cr0 |-> {}]

Gpr(t, n) == cpu.gpr[t[n]]

Add(t, oe, rc) ==
  \E op \in Additive \ WithImmediate : cpu' = AddForm(cpu, op, t, 0, oe, rc)

\* addi, addis, addic and addic., subfic
AddImmediate(t, im) ==
  \/ cpu' = generic_addi(cpu, t, Simm(im))
  \/ cpu' = generic_addi(cpu, t, Left(im, Width \div 2))
  \/ \E rc \in BOOLEAN : cpu' = AddForm(cpu, "addic", t, im, FALSE, rc)
  \/ cpu' = AddForm(cpu, "subfic", t, im, FALSE, FALSE)

Divide(t, oe, rc) ==
  \E op \in {"divw", "divwu"} : cpu' = DivideForm(cpu, op, t, oe, rc)

\* mulhw and mulhwu have no OE; mulli has neither.
Multiply(t, oe, rc) ==
  \/ cpu' = MultiplyForm(cpu, "mullw", t, Gpr(t, 3), oe, rc)
  \/ \E op \in {"mulhw", "mulhwu"} : cpu' = MultiplyForm(cpu, op, t, Gpr(t, 3), FALSE, rc)
MultiplyImmediate(t, im) == cpu' = MultiplyForm(cpu, "mullw", t, Simm(im), FALSE, FALSE)

Logical(t, rc) == \E op \in LogicOps : cpu' = LogicForm(cpu, op, t, Gpr(t, 3), rc)

\* xori, ori, andi. and their shifted forms; only andi. and andis. record.
LogicalImmediate(t, im) ==
  \E op \in LogicImmediate, b \in {im, Left(im, Width \div 2)} :
    cpu' = LogicForm(cpu, op, t, b, op = "and")

Rotate(t, rot, rc) ==
  \/ \E op \in {"rlwimi", "rlwinm"} :
       cpu' = RotateForm(cpu, op, t, rot[1], rot[2], rot[3], rc)
  \/ cpu' = RotateForm(cpu, "rlwnm", t, Gpr(t, 3), rot[2], rot[3], rc)

Shift(t, rc) ==
  \/ \E op \in {"slw", "srw"} : cpu' = ShiftForm(cpu, op, t, rc)
  \/ \E n \in {Gpr(t, 3)} \cup {rot[1] : rot \in Rotates} :
       cpu' = ArithmeticForm(cpu, t, n, rc)

Single(t, rc) == \E op \in {"cntlzw", "extsb", "extsh"} : cpu' = UnaryForm(cpu, op, t, rc)

\* The immediate of cmpi is signed, that of cmpli is not.
Compare(t) == \E op \in {"cmp", "cmpl"} : cpu' = CompareForm(cpu, op, Gpr(t, 2), Gpr(t, 3))
CompareImmediate(t, im) ==
  \/ cpu' = CompareForm(cpu, "cmp", Gpr(t, 2), Simm(im))
  \/ cpu' = CompareForm(cpu, "cmpl", Gpr(t, 2), im)

\* mtspr XER
Mtxer(x) == cpu' = [cpu EXCEPT !.xer = x]

Next ==
  \/ \E t \in Operands, rc \in BOOLEAN :
       \/ \E oe \in BOOLEAN : Add(t, oe, rc) \/ Divide(t, oe, rc) \/ Multiply(t, oe, rc)
       \/ Logical(t, rc) \/ Shift(t, rc) \/ Single(t, rc)
       \/ \E rot \in Rotates : Rotate(t, rot, rc)
  \/ \E t \in Operands, im \in Immediates :
       AddImmediate(t, im) \/ MultiplyImmediate(t, im) \/ LogicalImmediate(t, im)
         \/ CompareImmediate(t, im)
  \/ \E t \in Operands : Compare(t)
  \/ \E x \in Flags : Mtxer(x)

Spec == Init /\ [][Next]_cpu

-----------------------------------------------------------------------------
(* Properties.  The operands are whatever the registers hold. *)

A == cpu.gpr[0]
B == cpu.gpr[1]
Ca == cpu.xer.ca

\* What op means in exact arithmetic for the numbers x and y, where a word of
\* ones is the number ones.
Exact(op, x, y, ones, c) ==
  LET z == IF op \in WithRegister \cup WithImmediate THEN y
           ELSE IF op \in {"addme", "subfme"} THEN ones ELSE 0
  IN IF op \notin Complementing THEN x + z + (IF op \in WithCarry THEN Flag(c) ELSE 0)
     ELSE z - x - (IF op \in WithCarry THEN Flag(~ c) ELSE 0)

\* The word, OV and CA that op gives for the words a and b.
SumExact(op, a, b, ca) ==
  LET o == Sum(op, a, b, ca)
      signed == Exact(op, Signed(a), Signed(b), -1, ca)
      unsigned == Exact(op, a, b, Ones, ca)
  IN /\ o.r = Wrap(signed)
     /\ op \in MayOverflow => o.ov = (signed # Signed(Wrap(signed)))
     /\ o.ca = IF op \notin Carrying THEN ca
               ELSE IF op \in Complementing THEN unsigned >= 0
               ELSE unsigned >= Modulus

(***************************************************************************)
(* Every form of addition and subtraction gives the exact result, wrapped; *)
(* OV says that it does not fit a signed word; CA that the sum does not    *)
(* fit an unsigned one, or that the difference needs no borrow.            *)
(***************************************************************************)
SumsExact == \A op \in Additive : SumExact(op, A, B, Ca)

(***************************************************************************)
(* The high and the low word of a product make the exact one; a quotient   *)
(* leaves, with mullw and subf, a remainder smaller than the divisor with  *)
(* the sign of the dividend; without OV, that is: with it there is none.   *)
(***************************************************************************)
Divides(q, a, b) ==
  LET rest == a - q * b
      Size(n) == IF n < 0 THEN -n ELSE n
  IN Size(rest) < Size(b) /\ (rest = 0 \/ (rest < 0) = (a < 0))

ProductsExact ==
  LET low == Product("mullw", A, B)
      q == Quotient("divw", A, B, A)
      qu == Quotient("divwu", A, B, A)
      Rest(quotient) == Sum("subf", Product("mullw", quotient, B).r, A, Ca).r
  IN /\ Signed(Product("mulhw", A, B).r) * Modulus + low.r = Signed(A) * Signed(B)
     /\ Product("mulhwu", A, B).r * Modulus + low.r = A * B
     /\ low.ov = (Signed(low.r) # Signed(A) * Signed(B))
     /\ q.ov = ~ \E n \in Word : Divides(Signed(n), Signed(A), Signed(B))
     /\ ~ q.ov => /\ Divides(Signed(q.r), Signed(A), Signed(B))
                  /\ Signed(Rest(q.r)) = Signed(A) - Signed(q.r) * Signed(B)
     /\ qu.ov = (B = 0)
     /\ ~ qu.ov => Divides(qu.r, A, B) /\ Rest(qu.r) = A % B

(***************************************************************************)
(* Shifts are the floor of a multiplication or division by a power of two  *)
(* for every amount, twice the width included; the carry of sraw tells     *)
(* that a negative number was not divided exactly.  cntlzw and exts agree  *)
(* with the numbers they stand for.                                        *)
(***************************************************************************)
ShiftsDivide ==
  LET n == B % (2 * Width)
      o == Arithmetic(A, B)
      zeros == Unary("cntlzw", A)
      half == Unary("extsh", A)
  IN /\ Shifted("slw", A, B) = Wrap(A * Power[n])
     /\ Shifted("srw", A, B) = A \div Power[n]
     /\ Signed(o.r) = Signed(A) \div Power[n]
     /\ o.ca = (Negative(A) /\ Signed(o.r) * Power[n] # Signed(A))
     /\ A < Power[Width - zeros] /\ (A = 0 \/ A >= Power[Width - zeros - 1])
     /\ (half - A) % Power[Width \div 2] = 0
     /\ -(Power[Width \div 2]) <= 2 * Signed(half) /\ 2 * Signed(half) < Power[Width \div 2]

(***************************************************************************)
(* A rotate takes the bits from MB cyclically to ME, counted from the most *)
(* significant, from the word rotated; rlwimi keeps the others.  A field   *)
(* that rlwimi inserts is the one that rlwinm extracts.                    *)
(***************************************************************************)
RotatesSelect ==
  LET Bit(x, i) == (x \div Power[Width - 1 - i]) % 2
  IN \A rot \in Rotates :
       LET n == rot[1]
           inside == {i \in 0 .. Width - 1 :
                        (i - rot[2]) % Width <= (rot[3] - rot[2]) % Width}
           inserted == Rotated("rlwimi", A, B, n, rot[2], rot[3])
           back == Rotated("rlwinm", inserted, 0, Width - n, 0, Width - 1)
       IN \A i \in 0 .. Width - 1 :
            /\ Bit(inserted, i) = IF i \in inside THEN Bit(A, (i + n) % Width) ELSE Bit(B, i)
            /\ Bit(Rotated("rlwnm", A, B, n, rot[2], rot[3]), i)
                 = IF i \in inside THEN Bit(A, (i + n) % Width) ELSE 0
            /\ i \in inside => Bit(back, (i + n) % Width) = Bit(A, (i + n) % Width)

\* What bitwise.c moves by an amount or through a mask ends up where it should.
ShiftsExact == ShiftsDivide /\ RotatesSelect

(***************************************************************************)
(* A compare agrees with the subtraction that programs use in its place:   *)
(* less is the sign corrected by the overflow of subfo, or, unsigned, no   *)
(* carry of subfc; equal is a difference of zero.                          *)
(***************************************************************************)
ComparesAgree ==
  LET d == Sum("subfc", B, A, Ca)
      Says(op, c) == c \in Compared(op, A, B, FALSE)
  IN /\ Says("cmp", "lt") = (Negative(d.r) # d.ov)
     /\ Says("cmpl", "lt") = ~ d.ca
     /\ \A op \in {"cmp", "cmpl"} :
          /\ Says(op, "eq") = (d.r = 0)
          /\ Says(op, "gt") = ~ (Says(op, "lt") \/ Says(op, "eq"))

(***************************************************************************)
(* The sequences that compilers write, which hold together by the carry:   *)
(* sums and negations of two words, the signed division by a power of two  *)
(* with srawi and addze, and the mask that subfc and subfe make of a       *)
(* borrow.                                                                 *)
(***************************************************************************)
CarriesAgree ==
  LET Wide(high, low) == high * Modulus + low
      Twice == Modulus * Modulus
      low == Sum("addc", A, B, Ca)
      negated == Sum("subfic", A, 0, Ca)
      borrow == Sum("subfc", B, A, Ca)
      Toward0(x, n) == IF x < 0 THEN -((-x) \div n) ELSE x \div n
  IN /\ \A high \in {A, B, Ones} :
          /\ Wide(Sum("adde", high, B, low.ca).r, low.r)
               = (Wide(high, A) + Wide(B, B)) % Twice
          /\ Wide(Sum("subfze", high, 0, negated.ca).r, negated.r)
               = (-Wide(high, A)) % Twice
     /\ \A n \in 0 .. Width - 1 :
          LET o == Arithmetic(A, n)
          IN Signed(Sum("addze", o.r, 0, o.ca).r) = Toward0(Signed(A), Power[n])
     /\ \A x \in {A, B} :
          Sum("subfe", x, x, borrow.ca).r = IF A < B THEN Ones ELSE 0

\* Instructions of arith.c, bitwise.c and cond.c that programs use together, or
\* one for another, agree with each other through the carry and CR0.
IdiomsExact == ComparesAgree /\ CarriesAgree

\* XER[SO] goes back to zero by mtspr alone, whatever overflows in between.
SummaryStays ==
  [][cpu.xer.so /\ ~ cpu'.xer.so => \E x \in Flags : Mtxer(x)]_cpu

\* What is recorded in field 0 orders one number and has the SO bit as it is
\* after the instruction, the overflow of that instruction included.
RecordsSummary ==
  [][cpu'.cr0 # cpu.cr0 =>
       /\ cpu'.cr0 \ {"so"} \in {{"lt"}, {"gt"}, {"eq"}}
       /\ ("so" \in cpu'.cr0) = cpu'.xer.so]_cpu
=============================================================================
