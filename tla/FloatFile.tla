------------------------------ MODULE FloatFile -----------------------------
(***************************************************************************)
(* What the floating-point register file promises: a register holds a      *)
(* double, a pair of singles or a word that an instruction put into its    *)
(* low half, whichever was written last; a scalar instruction given a pair *)
(* takes ps0; a result is in the format of the instruction that made it.   *)
(* Junk is a number that nothing is promised of.                           *)
(*                                                                         *)
(* Module FloatRegisters makes the same instruction of this module and of  *)
(* the code in each step, and compares what they leave.                    *)
(***************************************************************************)
EXTENDS FloatNumbers

CONSTANTS
  Regs,
  Words \* what fctiwz and mffs put into the low half of a register

VARIABLES
  file, \* what each register holds
  pse   \* HID2[PSE] and HID2[LSQE]: paired-single mode

Double(x)  == [kind |-> "double", n |-> x]
Pair(x, y) == [kind |-> "pair", a |-> x, b |-> y]
Word(w)    == [kind |-> "word", w |-> w]
Nothing    == [kind |-> "nothing"]

Holdings ==
  {Double(x) : x \in Numbers} \cup {Pair(x, y) : x, y \in Numbers}
    \cup {Word(w) : w \in Words} \cup {Nothing}

Scalar(r) ==
  CASE file[r].kind = "double" -> file[r].n
    [] file[r].kind = "pair"   -> file[r].a
    [] OTHER                   -> Junk

\* A double is no pair.
Lane(r, i) ==
  IF file[r].kind = "pair" THEN (IF i = 0 THEN file[r].a ELSE file[r].b)
  ELSE Junk

Put(d, x) == file' = [file EXCEPT ![d] = x]

PutDouble(d, x)  == Put(d, Double(x))
PutPair(d, x, y) == Put(d, Pair(x, y))
PutSingle(d, x)  == Put(d, IF pse THEN Pair(x, x) ELSE Double(x))
PutWord(d, w)    == Put(d, Word(w))

\* fmr: of a pair in paired-single mode, ps0 goes over and ps1 stays.
Move(d, b) ==
  Put(d, IF pse /\ file[b].kind = "pair" THEN Pair(file[b].a, Lane(d, 1))
         ELSE file[b])

MovePair(d, b) == PutPair(d, Lane(b, 0), Lane(b, 1))

\* fneg and fabs; of a pair, ps1 goes over.
Sign(op, d, b) ==
  Put(d, CASE file[b].kind = "pair"   -> Pair(Signed(op, file[b].a), file[b].b)
           [] file[b].kind = "double" -> Double(Signed(op, file[b].n))
           [] OTHER                   -> file[b])

Arith(op, width, d, a, b, c) ==
  LET x == Calc(op, Scalar(a), Scalar(b), Scalar(c)) IN
  IF width = 8 THEN PutDouble(d, x) ELSE PutSingle(d, Single(x))

\* frsp leaves ps1 undefined.
RoundTo(d, b) ==
  LET x == Single(Scalar(b)) IN Put(d, IF pse THEN Pair(x, Junk) ELSE Double(x))

\* fres: of zero, the register stays.
Reciprocal(d, b) ==
  LET x == IF pse THEN Single(Scalar(b)) ELSE Scalar(b) IN
  IF x = Junk THEN Put(d, Nothing)
  ELSE IF x = 0 THEN UNCHANGED file
  ELSE IF pse THEN PutSingle(d, Single(Div(1, x))) ELSE PutDouble(d, Div(1, x))

Root(d, b) == PutDouble(d, RootOf(Scalar(b)))

\* A pair instruction takes lane pick[i] of c for lane i of the result.
LaneArith(op, pick, d, a, b, c) ==
  PutPair(d, LaneCalc(op, Lane(a, 0), Lane(b, 0), Lane(c, pick[1])),
             LaneCalc(op, Lane(a, 1), Lane(b, 1), Lane(c, pick[2])))

LaneSum(i, d, a, b, c) ==
  LET s == Single(Add(Lane(a, 0), Lane(b, 1))) IN
  IF i = 0 THEN PutPair(d, s, Lane(c, 1)) ELSE PutPair(d, Lane(c, 0), s)

LaneNeg(d, b)  == PutPair(d, Neg(Lane(b, 0)), Neg(Lane(b, 1)))
LaneRoot(d, b) == PutPair(d, Single(RootOf(Lane(b, 0))), Single(RootOf(Lane(b, 1))))
Merge(i, j, d, a, b) == PutPair(d, Lane(a, i), Lane(b, j))
=============================================================================
