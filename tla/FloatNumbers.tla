---------------------------- MODULE FloatNumbers ----------------------------
(***************************************************************************)
(* A finite arithmetic in place of IEEE 754, for what the floating-point   *)
(* instructions do with formats and lanes: the integers from -Top to Top,  *)
(* which wrap around, and a NaN are the doubles; Round gives the single    *)
(* that a double is rounded to.  Junk is what bits of one format give when *)
(* they are read as another.  The two zeros are one number.                *)
(***************************************************************************)
EXTENDS Integers

CONSTANTS
  Top,
  Round, \* a function from the doubles to the singles
  Quot,  \* quotients, and the reciprocal of the square root
  Rsqrt

Finite  == -Top .. Top
NaN     == Top + 1
Junk    == Top + 2
Doubles == -Top .. Top + 1
Numbers == -Top .. Top + 2
Singles == {Round[x] : x \in Finite} \cup {NaN}

ASSUME NumbersAssumption ==
  /\ Top \in Nat \ {0}
  /\ Round \in [Finite -> Finite] /\ Round[0] = 0
  /\ \A x \in Finite : Round[Round[x]] = Round[x] /\ Round[-x] = - Round[x]
  /\ Quot \in [Finite \X Finite -> Doubles] /\ Rsqrt \in [Finite -> Doubles]

Wrap(x) == ((x + Top) % (2 * Top + 1)) - Top

\* The result of an operation on the numbers of S
Of(S, x) == IF Junk \in S THEN Junk ELSE IF NaN \in S THEN NaN ELSE x

Neg(x)    == Of({x}, - x)
Abs(x)    == IF x < 0 THEN - x ELSE x
Signed(op, x) == IF op = "neg" THEN Neg(x) ELSE Of({x}, Abs(x))
Add(x, y) == Of({x, y}, Wrap(x + y))
Sub(x, y) == Of({x, y}, Wrap(x - y))
Mul(x, y) == Of({x, y}, Wrap(x * y))
Div(x, y) == IF {x, y} \subseteq Finite THEN Quot[<<x, y>>] ELSE Of({x, y}, 0)
RootOf(x) == IF x \in Finite THEN Rsqrt[x] ELSE x
Single(x) == IF x \in Finite THEN Round[x] ELSE x

Ops == {"mul", "add", "sub", "div", "madd", "msub", "nmsub", "nmadd"}

\* The scalar instructions: do_fmul_common and the others
Calc(op, a, b, c) ==
  CASE op = "mul"   -> Mul(a, c)
    [] op = "add"   -> Add(a, b)
    [] op = "sub"   -> Sub(a, b)
    [] op = "div"   -> Div(a, b)
    [] op = "madd"  -> Add(Mul(a, c), b)
    [] op = "msub"  -> Sub(Mul(a, c), b)
    [] op = "nmsub" -> Neg(Sub(Mul(a, c), b))
    [] op = "nmadd" -> Neg(Add(Mul(a, c), b))

\* One lane of a pair instruction: the product and the sum are each rounded.
LaneCalc(op, a, b, c) ==
  LET p == Single(Mul(a, c)) IN
  CASE op = "mul"   -> p
    [] op = "add"   -> Single(Add(a, b))
    [] op = "sub"   -> Single(Sub(a, b))
    [] op = "madd"  -> Single(Add(p, b))
    [] op = "msub"  -> Single(Sub(p, b))
    [] op = "nmsub" -> Neg(Single(Sub(p, b)))
    [] op = "nmadd" -> Neg(Single(Add(p, b)))
=============================================================================
