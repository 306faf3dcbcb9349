--------------------------- MODULE FloatRegisters ---------------------------
(***************************************************************************)
(* The floating-point registers of the code: 64 bits and a tag that says   *)
(* whether they are a pair (state.h 60-66).  Scalar instructions read      *)
(* through the tag (floating_point.c); pair instructions read the two      *)
(* words whatever the tag says, and not all of them set it                 *)
(* (paired_singles.c).                                                     *)
(*                                                                         *)
(* A word is the bits of zero, a single, a half of a double, or what       *)
(* fctiwz and mffs put into the low half.  file and its actions are the    *)
(* promise, of module FloatFile.                                           *)
(***************************************************************************)
EXTENDS FloatFile, Quantizer

CONSTANTS
  Gqrs,   \* the scales of the GQRs
  Loads,  \* the numbers that loads find
  Careful \* pair arithmetic goes to registers that hold a pair already, and
          \* nothing is computed from what nothing is promised of

VARIABLES
  fpr, \* state->fpr and state->fpr_is_ps
  fp   \* MSR[FP]

vars == <<file, pse, fpr, fp>>

-----------------------------------------------------------------------------
(* Words *)

Bits(kind, x) == [kind |-> kind, v |-> x]
Zero  == Bits("zero", 0)
S(x)  == IF x = 0 THEN Zero ELSE Bits("single", x)
Hi(x) == IF x = 0 THEN Zero ELSE Bits("high", x)
Lo(x) == IF x = 0 THEN Zero ELSE Bits("low", Abs(x))

AsSingle(w) == IF w.kind \in {"zero", "single"} THEN w.v ELSE Junk
AsDouble(hi, lo) ==
  IF hi.kind \in {"zero", "high"} /\ lo = Lo(hi.v) THEN hi.v ELSE Junk

\* The sign bit of a word is flipped or cleared.
SignedWord(op, w) ==
  IF w.kind \in {"single", "high"} THEN [w EXCEPT !.v = Signed(op, @)] ELSE w

\* What mffs gives of FPSCR
Status == Bits("status", 0)

FormatsAssumption ==
  /\ Status \in Words /\ Words \subseteq [kind : {"int", "status"}, v : Int]
  /\ Loads \subseteq Doubles
  /\ Gqrs \subseteq 0 .. 63
  /\ Careful \in BOOLEAN
ASSUME FormatsAssumption

BitWord == [kind : {"zero", "single", "high", "low"}, v : Numbers] \cup Words

TypeOK ==
  /\ file \in [Regs -> Holdings]
  /\ pse \in BOOLEAN /\ fp \in BOOLEAN
  /\ fpr \in [Regs -> [hi : BitWord, lo : BitWord, ps : BOOLEAN]]

-----------------------------------------------------------------------------
(* Reads.  Mutant of GetDouble: the tag is not looked at. *)
GetDoubleRaw(r) == AsDouble(fpr[r].hi, fpr[r].lo)

\* get_double and get_ps0
GetDouble(r) ==
  IF fpr[r].ps THEN AsSingle(fpr[r].hi) ELSE AsDouble(fpr[r].hi, fpr[r].lo)
GetPs0(r) ==
  IF fpr[r].ps THEN AsSingle(fpr[r].hi)
  ELSE Single(AsDouble(fpr[r].hi, fpr[r].lo))

\* ps_get_f32
GetLane(r, i) == AsSingle(IF i = 0 THEN fpr[r].hi ELSE fpr[r].lo)

\* What stfs, stfd and psq_st give to memory
StoredSingle(r) == IF pse THEN GetPs0(r) ELSE Single(GetDouble(r))
StoredDouble(r) == IF fpr[r].ps THEN GetDouble(r) ELSE AsDouble(fpr[r].hi, fpr[r].lo)

-----------------------------------------------------------------------------
(* Writes *)

Set(d, hi, lo, ps) == fpr' = [fpr EXCEPT ![d] = [hi |-> hi, lo |-> lo, ps |-> ps]]

SetDouble(d, x) == Set(d, Hi(x), Lo(x), FALSE)
SetPs(d, x, y)  == Set(d, S(x), S(y), TRUE)

\* ps_set_u32 of both lanes: the tag stays.
SetLanes(d, hi, lo) == Set(d, hi, lo, fpr[d].ps)

SetSingle(d, x) == IF pse THEN SetPs(d, x, x) ELSE SetDouble(d, x)

Scalars(R) == {Scalar(r) : r \in R}
BothLanes(R) == {Lane(r, i) : r \in R, i \in 0 .. 1}
Known(xs) == Careful => Junk \notin xs

Only(I) == I /\ UNCHANGED <<pse, fp>>

-----------------------------------------------------------------------------
(* Scalar instructions *)

\* lfs and lfd, of the number in memory
LoadSingle(d, x) == Only(SetSingle(d, x)) /\ PutSingle(d, x)
LoadDouble(d, x) == Only(SetDouble(d, x)) /\ PutDouble(d, x)

Fmr(d, b) ==
  /\ Only(IF pse /\ fpr[b].ps THEN Set(d, fpr[b].hi, fpr[d].lo, TRUE)
          ELSE Set(d, fpr[b].hi, fpr[b].lo, fpr[b].ps))
  /\ Move(d, b)

\* fneg and fabs
Fsign(op, d, b) ==
  /\ Only(Set(d, SignedWord(op, fpr[b].hi), fpr[b].lo, fpr[b].ps))
  /\ Sign(op, d, b)

Farith(op, width, d, a, b, c) ==
  LET x == Calc(op, GetDouble(a), GetDouble(b), GetDouble(c)) IN
  /\ Known(Scalars({a, b, c}))
  /\ Only(IF width = 8 THEN SetDouble(d, x) ELSE SetSingle(d, Single(x)))
  /\ Arith(op, width, d, a, b, c)

Frsp(d, b) ==
  LET x == Single(GetDouble(b)) IN
  /\ Known(Scalars({b}))
  /\ Only(IF pse THEN Set(d, S(x), fpr[d].lo, TRUE) ELSE SetDouble(d, x))
  /\ RoundTo(d, b)

\* fres: of zero, FPSCR[ZX] is set and the register stays.
Fres(d, b) ==
  LET x == IF pse THEN GetPs0(b) ELSE GetDouble(b) IN
  /\ Known(Scalars({b}))
  /\ Only(IF x = 0 THEN UNCHANGED fpr
          ELSE IF pse THEN SetSingle(d, Single(Div(1, x))) ELSE SetDouble(d, Div(1, x)))
  /\ Reciprocal(d, b)

Frsqrte(d, b) ==
  /\ Known(Scalars({b}))
  /\ Only(SetDouble(d, RootOf(GetDouble(b))))
  /\ Root(d, b)

\* fctiwz: the low half; what is out of range converts to anything.
Fctiwz(d, b, w) ==
  /\ Known(Scalars({b}))
  /\ w.kind = "int" /\ (GetDouble(b) \in Finite => w.v = GetDouble(b))
  /\ Only(Set(d, fpr[d].hi, w, FALSE))
  /\ PutWord(d, w)

Mffs(d) == Only(Set(d, fpr[d].hi, Status, FALSE)) /\ PutWord(d, Status)

-----------------------------------------------------------------------------
(* Pair instructions.  Without paired-single mode they raise a program     *)
(* exception (PS_ENFORCE_CAP_IDX); see Refused.                            *)

Pairs(lanes, I) == pse /\ Known(lanes) /\ Only(I)

\* psq_l of two numbers, or of one and 1.0
PsqL(d, x, y) == Pairs({}, SetPs(d, x, y)) /\ PutPair(d, x, y)

PsMr(d, b) ==
  Pairs(BothLanes({b}), Set(d, fpr[b].hi, fpr[b].lo, TRUE)) /\ MovePair(d, b)

PsMerge(i, j, d, a, b) ==
  /\ Pairs({Lane(a, i), Lane(b, j)}, Set(d, IF i = 0 THEN fpr[a].hi ELSE fpr[a].lo,
                          IF j = 0 THEN fpr[b].hi ELSE fpr[b].lo, TRUE))
  /\ Merge(i, j, d, a, b)

\* The arithmetic goes to the lanes and leaves the tag as it is.
Lanes(from, d, hi, lo) ==
  /\ Careful => fpr[d].ps
  /\ Pairs(BothLanes(from), SetLanes(d, hi, lo))

PsArith(op, pick, d, a, b, c) ==
  /\ Lanes({a, b, c}, d,
           S(LaneCalc(op, GetLane(a, 0), GetLane(b, 0), GetLane(c, pick[1]))),
           S(LaneCalc(op, GetLane(a, 1), GetLane(b, 1), GetLane(c, pick[2]))))
  /\ LaneArith(op, pick, d, a, b, c)

PsSum(i, d, a, b, c) ==
  LET s == S(Single(Add(GetLane(a, 0), GetLane(b, 1)))) IN
  /\ IF i = 0 THEN Lanes({a, b, c}, d, s, fpr[c].lo)
     ELSE Lanes({a, b, c}, d, fpr[c].hi, s)
  /\ LaneSum(i, d, a, b, c)

PsNeg(d, b) ==
  /\ Lanes({b}, d, SignedWord("neg", fpr[b].hi), SignedWord("neg", fpr[b].lo))
  /\ LaneNeg(d, b)

PsRsqrte(d, b) ==
  /\ Lanes({b}, d, S(Single(RootOf(GetLane(b, 0)))), S(Single(RootOf(GetLane(b, 1)))))
  /\ LaneRoot(d, b)

-----------------------------------------------------------------------------
\* FP unavailable, or a program exception for a pair instruction: nothing but
\* MSR changes.
Refused == (~ fp \/ ~ pse) /\ fp' = FALSE /\ UNCHANGED <<file, pse, fpr>>

\* mtmsr, rfi and mtspr HID2
SetFp == fp' = TRUE /\ UNCHANGED <<file, pse, fpr>>
SetPse(b) == pse' = b /\ UNCHANGED <<file, fpr, fp>>

Init ==
  /\ file = [r \in Regs |-> Double(0)] /\ pse = FALSE /\ fp = FALSE
  /\ fpr = [r \in Regs |-> [hi |-> Zero, lo |-> Zero, ps |-> FALSE]]

ScalarStep(d, a, b) ==
  \/ \E x \in Loads : LoadDouble(d, x) \/ (x = Single(x) /\ LoadSingle(d, x))
  \/ Fmr(d, b) \/ Frsp(d, b) \/ Fres(d, b) \/ Frsqrte(d, b) \/ Mffs(d)
  \/ \E op \in {"neg", "abs"} : Fsign(op, d, b)
  \/ \E op \in Ops, width \in {4, 8}, c \in Regs : Farith(op, width, d, a, b, c)
  \/ \E w \in Words : Fctiwz(d, b, w)

\* ps_mul, ps_muls0, ps_muls1 and so on
Picks(op) == IF op \in {"mul", "madd"} THEN {<<0, 1>>, <<0, 0>>, <<1, 1>>} ELSE {<<0, 1>>}

PairStep(d, a, b) ==
  \/ \E x \in Loads, y \in Loads \cup {1} :
       Single(x) = x /\ Single(y) = y /\ PsqL(d, x, y)
  \/ PsMr(d, b) \/ PsNeg(d, b) \/ PsRsqrte(d, b)
  \/ \E i, j \in 0 .. 1 : PsMerge(i, j, d, a, b)
  \/ \E op \in Ops \ {"div"}, c \in Regs : \E pick \in Picks(op) : PsArith(op, pick, d, a, b, c)
  \/ \E i \in 0 .. 1, c \in Regs : PsSum(i, d, a, b, c)

Next ==
  \/ fp /\ \E d, a, b \in Regs : ScalarStep(d, a, b) \/ PairStep(d, a, b)
  \/ Refused
  \/ SetFp
  \/ \E b \in BOOLEAN : SetPse(b)

Spec == Init /\ [][Next]_vars

-----------------------------------------------------------------------------
\* What is promised of x is what y is.
Meets(y, x) == x = Junk \/ y = x

(***************************************************************************)
(* Whatever instructions of both kinds wrote the registers, in and out of  *)
(* paired-single mode, every read gets what the promise says: scalar       *)
(* instructions and stfd the double or ps0, stfs that rounded, pair        *)
(* instructions and psq_st the lanes, stfiwx and mtfsf the word.           *)
(***************************************************************************)
ReadsAsPromised ==
  \A r \in Regs :
    /\ Meets(GetDouble(r), Scalar(r)) /\ Meets(StoredDouble(r), Scalar(r))
    /\ Meets(GetPs0(r), Single(Scalar(r)))
    /\ Meets(StoredSingle(r), Single(Scalar(r)))
    /\ \A i \in 0 .. 1 : Meets(GetLane(r, i), Lane(r, i))
    /\ file[r].kind = "word" => fpr[r].lo = file[r].w

(***************************************************************************)
(* A number in a pair that psq_st puts into memory as an integer, of       *)
(* whatever type and scale, is what psq_l gets back with the same GQR if   *)
(* the type has it; and what is out of its range keeps its sign, cut to    *)
(* the end that is near (paired_singles.c 24-66, 151-458).  Each number    *)
(* stands for itself and for sixteen times itself.                         *)
(***************************************************************************)
QuantizedBack ==
  \A r \in Regs, lane \in 0 .. 1 : Lane(r, lane) \in Finite =>
    \A type \in Types, i \in Gqrs, unit \in {1, 16} :
      LET x == Lane(r, lane) * unit
          q == Stored(type, i, [m |-> GetLane(r, lane) * unit, e |-> 0])
      IN /\ q \in Least(type) .. Greatest(type)
         /\ Has(type, Dequantum(i), x) => Is(Loaded(i, q), x)
         /\ q # 0 => (q > 0 <=> x > 0)

(***************************************************************************)
(* instr/floating_point.c:50: ps0 is accepted by the scalar instructions,  *)
(* whatever pair instruction made the pair.                                *)
(***************************************************************************)
ScalarsAcceptPairs ==
  \A r \in Regs : file[r].kind = "pair" => Meets(GetDouble(r), file[r].a)
=============================================================================
