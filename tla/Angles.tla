-------------------------------- MODULE Angles --------------------------------
(***************************************************************************)
(* The case distinctions of the trigonometric kernels: reduction of the    *)
(* argument, choice of the polynomial, signs, infinities and NaN.  One     *)
(* step evaluates one function at one argument in every way the library    *)
(* has: the scalar helper of the tails and each family of vector code.     *)
(*                                                                         *)
(* Angles are whole numbers, in units of pi / 48.  What is computed of     *)
(* them is named by an angle as well: v stands for sin(v pi / 48) as a     *)
(* sine, a cosine or an argument of asin, and for tan(v pi / 48) as a      *)
(* tangent or an argument of atan.  A polynomial yields the right name     *)
(* where it is one of the function, and Off elsewhere.                     *)
(*                                                                         *)
(* tanh is asked of two points that follow each other.                     *)
(***************************************************************************)
EXTENDS Integers

CONSTANT Arguments   (* of sin, cos and tan                                *)

(* Odd, so that no argument is on the edge between two cases, where either *)
(* may be taken.                                                           *)
ASSUME ArgumentsAssumption == \A j \in Arguments : j \in Int /\ j % 2 = 1

VARIABLES
  asked,    (* the function and its arguments                              *)
  answers   (* what each implementation makes of them                      *)

angleVars == <<asked, answers>>

HalfPi == 24   (* pi / 2 *)
QuarterPi == 12    (* pi / 4 *)
Off == 1000

Size(v) == IF v < 0 THEN -v ELSE v
Bit(n, b) == (n \div b) % 2 = 1

-----------------------------------------------------------------------------
(* The functions themselves: sine is a triangle in these names.            *)
Sine(j) ==
  LET m == j % 96
  IN  IF m <= 24 THEN m ELSE IF m <= 72 THEN 48 - m ELSE m - 96
Cosine(j) == Sine(j + HalfPi)

(* The quotient of a sine and a cosine of one angle.                       *)
TanOf(s, c) ==
  IF Size(s) + Size(c) # HalfPi THEN Off
  ELSE IF (s < 0) # (c < 0) THEN -Size(s) ELSE Size(s)
Tangent(j) == TanOf(Sine(j), Cosine(j))

(* The polynomials for [-pi/4, pi/4].                                      *)
SinPoly(r) == IF Size(r) <= QuarterPi THEN Sine(r) ELSE Off
CosPoly(r) == IF Size(r) <= QuarterPi THEN Cosine(r) ELSE Off

CutOff(j, unit) == j \div unit
Rounded(j, unit) == (2 * j + unit) \div (2 * unit)

-----------------------------------------------------------------------------
(* Reduction to the nearest multiple n of pi/2: volk_sin, volk_cos, and    *)
(* sin, cos and sincos on x86 and NEON.                                    *)
QuadrantSin(j) ==
  LET n == Rounded(j, HalfPi)
      r == j - HalfPi * n
      v == IF Bit(n, 1) THEN CosPoly(r) ELSE SinPoly(r)
  IN  IF Bit(n, 2) THEN -v ELSE v

(* Mutant of QuadrantCos: the signs are those of the sine.                 *)
QuadrantCosSine(j) ==
  LET n == Rounded(j, HalfPi)
      r == j - HalfPi * n
      v == IF Bit(n, 1) THEN SinPoly(r) ELSE CosPoly(r)
  IN  IF Bit(n, 2) THEN -v ELSE v

QuadrantCos(j) ==
  LET n == Rounded(j, HalfPi)
      r == j - HalfPi * n
      v == IF Bit(n, 1) THEN SinPoly(r) ELSE CosPoly(r)
  IN  IF Bit(n + 1, 2) THEN -v ELSE v

(* Reduction of |j| by the even octant r at or above q.  A series gives    *)
(* the cosine of the rest, and its sine is sqrt(1 - cosine^2), so that the *)
(* signs have to be put back.                                              *)
OctantRest(j, q) == Size(j) - QuarterPi * (q + (q % 2))
OctantSine(j, q) ==
  IF Bit(q + 1, 2) THEN Cosine(OctantRest(j, q)) ELSE Size(Sine(OctantRest(j, q)))
OctantCosine(j, q) ==
  LET v == IF Bit(q + 1, 2) THEN Size(Sine(OctantRest(j, q))) ELSE Cosine(OctantRest(j, q))
  IN  IF Bit(q + 2, 4) THEN -v ELSE v

(* tan on x86.  Two masks are compared as floats with NEQ_UQ, to which a   *)
(* mask that is set is a NaN and unequal to everything: the sign is turned *)
(* if one of them is set and also if both are.                             *)
X86Tan(j) ==
  LET q == CutOff(Size(j), QuarterPi)
      s == OctantSine(j, q)
  IN  TanOf(IF Bit(q, 4) \/ j < 0 THEN -s ELSE s, OctantCosine(j, q))

(* RVV: vfcvt_x does not cut off, it rounds to the nearest octant.         *)
RvvOctant(j) == Rounded(Size(j), QuarterPi)
RvvSin(j) ==
  LET s == OctantSine(j, RvvOctant(j))
  IN  IF Bit(RvvOctant(j), 4) # (j < 0) THEN -s ELSE s
RvvCos(j) == OctantCosine(j, RvvOctant(j))
RvvTan(j) == TanOf(RvvSin(j), RvvCos(j))

(* tan on NEON: the even octant at or above |j|, two polynomials.          *)
NeonTan(j) ==
  LET e == 2 * ((CutOff(Size(j), QuarterPi) + 1) \div 2)
      r == Size(j) - QuarterPi * e
      s == IF Bit(e, 2) THEN CosPoly(r) ELSE SinPoly(r)
      c == IF Bit(e, 2) THEN SinPoly(r) ELSE CosPoly(r)
  IN  TanOf(IF (j < 0) # Bit(e, 4) THEN -s ELSE s,
               IF Bit(e - 2, 4) THEN c ELSE -c)

-----------------------------------------------------------------------------
(* The arc functions tell the two zeros apart: a sign and a size.          *)
Signed(neg, mag) == [neg |-> neg, mag |-> mag]
Nan == 999
NotANumber == Signed(FALSE, Nan)
IsNan(x) == x.mag = Nan
CopySign(mag, x) == Signed(x.neg, mag)
Negative(x) == Signed(~x.neg, x.mag)

AddSigned(a, b) ==
  IF IsNan(a) \/ IsNan(b) THEN NotANumber
  ELSE IF a.neg = b.neg THEN Signed(a.neg, a.mag + b.mag)
  ELSE IF a.mag = b.mag THEN Signed(FALSE, 0)
  ELSE IF a.mag > b.mag THEN Signed(a.neg, a.mag - b.mag)
  ELSE Signed(b.neg, b.mag - a.mag)
SubSigned(a, b) == AddSigned(a, Negative(b))

(* Equal but for the sign of zero.                                         *)
SameAngle(a, b) == a.mag = b.mag /\ (a.neg = b.neg \/ a.mag \in {0, Nan})

(* asin and acos at sin(a), a even: above 1/2, pi/2 - 2 asin(sqrt((1 -     *)
(* |x|) / 2)), and the root is sin((pi/2 - a) / 2).  Beyond HalfPi there  *)
(* is an x above 1, whose root is NaN.                                     *)
Outside == HalfPi + 2
ArcsinPoly(mag) == IF mag = Nan THEN Nan ELSE IF mag <= 8 THEN mag ELSE Off
HalfRoot(mag) == IF mag \in {Nan, Outside} THEN Nan ELSE (HalfPi - mag) \div 2
ArcsinLarge(mag) ==
  LET p == ArcsinPoly(HalfRoot(mag)) IN IF p = Nan THEN Nan ELSE HalfPi - 2 * p

(* The scalar helper takes the large range for NaN, vectors the small one. *)
ScalarAsin(x) ==
  IF x.mag <= 8 THEN CopySign(ArcsinPoly(x.mag), x) ELSE CopySign(ArcsinLarge(x.mag), x)
VectorAsin(x) ==
  CopySign(IF x.mag > 8 /\ ~IsNan(x) THEN ArcsinLarge(x.mag) ELSE ArcsinPoly(x.mag), x)
ScalarAcos(x) == SubSigned(Signed(FALSE, HalfPi), ScalarAsin(x))
VectorAcos(x) == SubSigned(Signed(FALSE, HalfPi), VectorAsin(x))

(* atan at tan(a); HalfPi stands for infinity.                            *)
ArctanPoly(x) ==
  IF IsNan(x) THEN NotANumber ELSE IF x.mag <= QuarterPi THEN x ELSE CopySign(Off, x)
Inverted(x) == IF IsNan(x) THEN x ELSE CopySign(HalfPi - x.mag, x)
ScalarAtan(x) ==
  IF IsNan(x) THEN x
  ELSE IF x.mag = HalfPi THEN CopySign(HalfPi, x)
  ELSE IF x.mag < QuarterPi THEN ArctanPoly(x)
  ELSE SubSigned(CopySign(HalfPi, x), ArctanPoly(Inverted(x)))
VectorAtan(x) ==
  IF x.mag > QuarterPi /\ ~IsNan(x)
  THEN SubSigned(CopySign(HalfPi, Inverted(x)), ArctanPoly(Inverted(x)))
  ELSE ArctanPoly(x)

-----------------------------------------------------------------------------
(* atan2.  The parts of a point are signed sizes, of which the quotients   *)
(* have names: Tiny / Huge is below the smallest float and becomes 0; the  *)
(* angles of the other quotients of unlike sizes are Slight, too small to  *)
(* be seen beside pi, but not One / Root3.                                 *)
Tiny == 1
One == 2
Root3 == 3
Huge == 4
Inf == 5
Sizes == 0 .. Inf \cup {Nan}
Slight == 1

Least(a, b) == IF a < b THEN a ELSE b
Most(a, b) == IF a < b THEN b ELSE a

(* The angle of the quotient of two sizes, the first not the greater.      *)
AngleOfSizes(n, d) ==
  IF Nan \in {n, d} \/ (n = d /\ n \in {0, Inf}) THEN Nan
  ELSE IF n = d THEN QuarterPi
  ELSE IF n = One /\ d = Root3 THEN 8
  ELSE IF n = 0 \/ d = Inf \/ (n = Tiny /\ d = Huge) THEN 0
  ELSE Slight

Over(n, d) == Signed(n.neg # d.neg, AngleOfSizes(n.mag, d.mag))
Exceeds(a, b) == ~IsNan(a) /\ ~IsNan(b) /\ a.mag > b.mag

(* What C's atan2f returns.                                                *)
Atan2(y, x) ==
  LET between == AngleOfSizes(Least(x.mag, y.mag), Most(x.mag, y.mag))
      first == IF between = Nan THEN (IF x.mag = 0 THEN 0 ELSE QuarterPi)
               ELSE IF y.mag > x.mag THEN HalfPi - between ELSE between
  IN  IF IsNan(x) \/ IsNan(y) THEN NotANumber
      ELSE CopySign(IF x.neg THEN 2 * HalfPi - first ELSE first, y)

(* Of infinite parts, alike in all versions: pi/4 and its like between two *)
(* of them, else an axis.                                                  *)
OfInfinite(y, x) ==
  LET positive == ~x.neg /\ x.mag # 0 /\ ~IsNan(x)
  IN  CopySign(IF y.mag = Inf /\ x.mag = Inf THEN IF positive THEN 12 ELSE 36
               ELSE IF y.mag = Inf THEN HalfPi
               ELSE IF positive THEN 0 ELSE 2 * HalfPi, y)

(* volk_atan2, also the tail of the vector versions.                       *)
ScalarAtan2(y, x) ==
  LET swap == x.mag < y.mag
      input == IF swap THEN Over(x, y) ELSE Over(y, x)
      whole == ArctanPoly(input)
      turned == IF ~swap THEN whole
                ELSE SubSigned(Signed(input.neg /\ input.mag # 0, HalfPi), whole)
  IN  IF IsNan(x) \/ IsNan(y) THEN NotANumber
      ELSE IF Inf \in {x.mag, y.mag} THEN OfInfinite(y, x)
      ELSE IF x.mag = 0 THEN CopySign(IF y.mag = 0 THEN 0 ELSE HalfPi, y)
      ELSE IF x.neg THEN AddSigned(turned, CopySign(2 * HalfPi, y))
      ELSE turned

(* The vector versions: 0 / 0 is replaced by the numerator, and the angle  *)
(* at infinity put in at the end, whatever the other part is.              *)
VectorBase(y, x) ==
  LET swap == Exceeds(y, x)
      n == IF swap THEN x ELSE y
      quotient == Over(n, IF swap THEN y ELSE x)
      input == IF IsNan(quotient) /\ ~IsNan(x) /\ ~IsNan(y) THEN n ELSE quotient
      whole == ArctanPoly(input)
  IN  IF swap THEN SubSigned(CopySign(HalfPi, input), whole) ELSE whole

VectorAtan2(y, x, left) ==
  IF Inf \in {x.mag, y.mag} THEN OfInfinite(y, x)
  ELSE IF left THEN AddSigned(VectorBase(y, x), CopySign(2 * HalfPi, y))
  ELSE VectorBase(y, x)

(* x86 and RVV take the sign of x from its sign bit, NEON compares with 0. *)
SignBitAtan2(y, x) == VectorAtan2(y, x, x.neg)
NeonAtan2(y, x) == VectorAtan2(y, x, x.neg /\ x.mag # 0 /\ ~IsNan(x))

-----------------------------------------------------------------------------
(* tanh: a size stands for the tanh of it as well, and Limit for 1, which  *)
(* is that of infinity and that of Huge, a number beyond 4.97.             *)
Limit == 6
Steep(x) == x.mag \in {Huge, Inf}
Tanh(x) == IF Steep(x) THEN CopySign(Limit, x) ELSE x

(* The continued fraction, of the series and of all vectors: it is close   *)
(* to tanh up to 4.97, and the quotient of two infinities at infinity.     *)
ContinuedFraction(x) ==
  IF x.mag = Inf THEN NotANumber ELSE IF x.mag = Huge THEN CopySign(Off, x) ELSE x
VectorTanh(x, y) == <<ContinuedFraction(x), ContinuedFraction(y)>>

(* The scalar series, also the tail of the vectors, goes on to the next    *)
(* point behind a fraction only: at a steep one it stays.                  *)
SeriesOf(x) == IF Steep(x) THEN CopySign(Limit, x) ELSE ContinuedFraction(x)
SeriesTanh(x, y) == <<SeriesOf(x), SeriesOf(IF Steep(x) THEN x ELSE y)>>

-----------------------------------------------------------------------------
NoQuestion == [func |-> "none", args |-> <<>>]
Question(f, args) == [func |-> f, args |-> args]

AngleInit == asked = NoQuestion /\ answers = <<>>

Answer(f, args, results) ==
  /\ asked = NoQuestion
  /\ asked' = Question(f, args)
  /\ answers' = results

Sin(j) == Answer("sin", <<j>>, [quadrant |-> QuadrantSin(j), rvv |-> RvvSin(j)])
Cos(j) == Answer("cos", <<j>>, [quadrant |-> QuadrantCos(j), rvv |-> RvvCos(j)])
Tan(j) == Answer("tan", <<j>>, [x86 |-> X86Tan(j), neon |-> NeonTan(j), rvv |-> RvvTan(j)])
Asin(x) == Answer("asin", <<x>>, [scalar |-> ScalarAsin(x), vector |-> VectorAsin(x)])
Acos(x) == Answer("acos", <<x>>, [scalar |-> ScalarAcos(x), vector |-> VectorAcos(x)])
Atan(x) == Answer("atan", <<x>>, [scalar |-> ScalarAtan(x), vector |-> VectorAtan(x)])
ArcTan2(y, x) ==
  Answer("atan2", <<y, x>>,
         [scalar |-> ScalarAtan2(y, x), sign_bit |-> SignBitAtan2(y, x),
          neon |-> NeonAtan2(y, x)])

TanhOfTwo(x, y) ==
  Answer("tanh", <<x, y>>, [series |-> SeriesTanh(x, y), vector |-> VectorTanh(x, y)])

NextQuestion == asked # NoQuestion /\ asked' = NoQuestion /\ answers' = <<>>

SignedOf(sizes) == [neg : BOOLEAN, mag : sizes]
TanhSizes == {0, One, Huge, Inf, Nan}

AngleNext ==
  \/ \E j \in Arguments : Sin(j) \/ Cos(j) \/ Tan(j)
  \/ \E x \in SignedOf({2 * a : a \in 0 .. 13} \cup {Nan}) : Asin(x) \/ Acos(x)
  \/ \E x \in SignedOf(0 .. HalfPi \cup {Nan}) : Atan(x)
  \/ \E y, x \in SignedOf(Sizes) : ArcTan2(y, x)
  \/ \E x, y \in SignedOf(TanhSizes) : TanhOfTwo(x, y)
  \/ NextQuestion

AngleSpec == AngleInit /\ [][AngleNext]_angleVars

-----------------------------------------------------------------------------
(* What is asked for.                                                      *)
Wanted ==
  LET x == asked.args[1]
  IN  CASE asked.func = "sin" -> Sine(x)
        [] asked.func = "cos" -> Cosine(x)
        [] asked.func = "tan" -> Tangent(x)
        [] asked.func = "asin" -> IF x.mag = Outside THEN NotANumber ELSE x
        [] asked.func = "acos" -> IF x.mag = Outside THEN NotANumber
                                  ELSE SubSigned(Signed(FALSE, HalfPi), x)
        [] asked.func = "atan" -> x
        [] asked.func = "atan2" -> Atan2(x, asked.args[2])
        [] asked.func = "tanh" -> <<Tanh(x), Tanh(asked.args[2])>>

IsRight(way) ==
  IF asked.func \in {"sin", "cos", "tan"} THEN answers[way] = Wanted
  ELSE IF asked.func = "tanh" THEN \A p \in 1 .. 2 : SameAngle(answers[way][p], Wanted[p])
  ELSE SameAngle(answers[way], Wanted)

(* Where RVV's rounded octant leads to another sign than the octant of the *)
(* argument: in the upper half of every other octant.                      *)
RvvSinMiss(j) == CutOff(Size(j), QuarterPi) % 4 = 3 /\ RvvOctant(j) % 4 = 0
RvvCosMiss(j) == CutOff(Size(j), QuarterPi) % 4 = 1 /\ RvvOctant(j) % 4 = 2

(* Where an implementation is known to be wrong.                           *)
Misses(way) ==
  LET x == asked.args[1]   \* the y of atan2, the first point of tanh
      z == asked.args[2]   \* the x of atan2, the second point of tanh
  IN  CASE asked.func = "sin" -> way = "rvv" /\ RvvSinMiss(x)
        [] asked.func = "cos" -> way = "rvv" /\ RvvCosMiss(x)
        [] asked.func = "tan" ->
             \/ way = "rvv" /\ (RvvSinMiss(x) \/ RvvCosMiss(x))
             \/ way = "x86" /\ x < 0 /\ Bit(CutOff(-x, QuarterPi), 4)
        [] asked.func = "atan2" ->
             \/ way # "scalar" /\ {x.mag, z.mag} = {Nan, Inf}
             \/ way = "neon" /\ z = Signed(TRUE, 0) /\ x.mag \notin {Nan, Inf}
             \/ way = "scalar" /\ z = Signed(TRUE, 0) /\ x.mag = 0
             \/ way = "scalar" /\ z.mag = Tiny /\ x.mag = Huge /\ x.neg # z.neg
        [] asked.func = "tanh" ->
             \/ way = "series" /\ Steep(x) /\ ~SameAngle(Tanh(x), Tanh(z))
             \/ way = "vector" /\ (Steep(x) \/ Steep(z))
        [] OTHER -> FALSE

(* Every implementation of sin, cos, tan, asin, acos, atan, atan2 and tanh *)
(* finds the right quadrant, sign and special value, and so two            *)
(* implementations of a kernel, or the blocks and the tail of one, agree:  *)
(* at every argument but those of Misses, and there none of them does.     *)
AngleRight == \A way \in DOMAIN answers : IsRight(way) # Misses(way)

(* "Computes the tangent of each element of the aVector. b[i] = tan(a[i])" *)
(* (volk_32f_tan_32f.h, line 15).                                          *)
TangentRight ==
  asked.func = "tan" => \A way \in DOMAIN answers : answers[way] = Tangent(asked.args[1])

(* "Computes the hyperbolic tangent of each element of the aVector:        *)
(* c[i] = tanh(a[i])" (volk_32f_tanh_32f.h, line 13), for the series.      *)
SeriesRight ==
  asked.func = "tanh" =>
    \A p \in 1 .. 2 : SameAngle(answers.series[p], Tanh(asked.args[p]))
===============================================================================
