---------------------------- MODULE Angles_proofs ----------------------------
(***************************************************************************)
(* Proof that AngleRight is an invariant of the specification of Angles,   *)
(* whatever the set of arguments.  The invariant speaks of the last answer *)
(* only, so that each step is proved on its own: by linear arithmetic and  *)
(* divisions for the reductions of sin, cos and tan, by cases of the sizes *)
(* for the arc functions.                                                  *)
(***************************************************************************)
EXTENDS Angles, TLAPS

(* The arguments: none is on the edge between two cases.                   *)
Odd(j) == j \in Int /\ j % 2 = 1

(* No sine or cosine is zero at an odd argument, their sizes make up a     *)
(* right angle, and the one is odd and the other even.                     *)
LEMMA SineParts ==
  ASSUME NEW j, Odd(j)
  PROVE  /\ Sine(j) \in Int /\ Sine(j) # 0 /\ Cosine(j) \in Int /\ Cosine(j) # 0
         /\ Size(Sine(j)) + Size(Cosine(j)) = HalfPi
         /\ Sine(-j) = -Sine(j) /\ Cosine(-j) = Cosine(j)
  BY SMTT(60) DEF Odd, Sine, Cosine, Size, HalfPi

(* Reduction to the nearest multiple of pi/2 finds the sine ...            *)
LEMMA QuadrantSinRight ==
  ASSUME NEW j, Odd(j)
  PROVE  QuadrantSin(j) = Sine(j)
  BY SMTT(60)
     DEF Odd, QuadrantSin, Sine, Cosine, SinPoly, CosPoly, Rounded, Bit, Size,
         HalfPi, QuarterPi, Off

(* ... and the cosine, at every argument.                                  *)
LEMMA QuadrantCosRight ==
  ASSUME NEW j, Odd(j)
  PROVE  QuadrantCos(j) = Cosine(j)
  BY SMTT(60)
     DEF Odd, QuadrantCos, Sine, Cosine, SinPoly, CosPoly, Rounded, Bit, Size,
         HalfPi, QuarterPi, Off

(* The rounded octant of the RVV kernels leads to the right size always,   *)
(* and to the other sign exactly where RvvSinMiss says ...                 *)
LEMMA RvvSinSign ==
  ASSUME NEW j, Odd(j)
  PROVE  RvvSin(j) = IF RvvSinMiss(j) THEN -Sine(j) ELSE Sine(j)
  BY SMTT(60)
     DEF Odd, RvvSin, RvvSinMiss, RvvOctant, OctantSine, OctantRest, CutOff, Sine,
         Cosine, Rounded, Bit, Size, HalfPi, QuarterPi

(* ... and for the cosine where RvvCosMiss says.                           *)
LEMMA RvvCosSign ==
  ASSUME NEW j, Odd(j)
  PROVE  RvvCos(j) = IF RvvCosMiss(j) THEN -Cosine(j) ELSE Cosine(j)
  BY SMTT(60)
     DEF Odd, RvvCos, RvvCosMiss, RvvOctant, OctantCosine, OctantRest, CutOff,
         Sine, Cosine, Rounded, Bit, Size, HalfPi, QuarterPi

(* So the RVV sine is wrong at the arguments of RvvSinMiss and at no other *)
(* ...                                                                     *)
LEMMA RvvSinMissed ==
  ASSUME NEW j, Odd(j)
  PROVE  RvvSin(j) = Sine(j) <=> ~RvvSinMiss(j)
<1>1. Sine(j) # -Sine(j)
  BY SineParts
<1>2. CASE RvvSinMiss(j)
  BY <1>1, <1>2, RvvSinSign
<1>3. CASE ~RvvSinMiss(j)
  BY <1>3, RvvSinSign
<1>4. QED
  BY <1>2, <1>3

(* ... and the RVV cosine at those of RvvCosMiss.                          *)
LEMMA RvvCosMissed ==
  ASSUME NEW j, Odd(j)
  PROVE  RvvCos(j) = Cosine(j) <=> ~RvvCosMiss(j)
<1>1. Cosine(j) # -Cosine(j)
  BY SineParts
<1>2. CASE RvvCosMiss(j)
  BY <1>1, <1>2, RvvCosSign
<1>3. CASE ~RvvCosMiss(j)
  BY <1>3, RvvCosSign
<1>4. QED
  BY <1>2, <1>3

(* A tangent turns its sign with that of the sine and that of the cosine.  *)
LEMMA TanOfSigns ==
  ASSUME NEW s \in Int, NEW c \in Int, s # 0, c # 0, Size(s) + Size(c) = HalfPi
  PROVE  /\ TanOf(-s, c) = -TanOf(s, c) /\ TanOf(s, -c) = -TanOf(s, c)
         /\ TanOf(s, c) \in Int /\ TanOf(s, c) # 0
  BY SMTT(60) DEF TanOf, Size, HalfPi

(* The RVV tangent is wrong where either of them is: never both are.       *)
LEMMA RvvTanMissed ==
  ASSUME NEW j, Odd(j)
  PROVE  (RvvTan(j) = Tangent(j)) # (RvvSinMiss(j) \/ RvvCosMiss(j))
<1>1. ~(RvvSinMiss(j) /\ RvvCosMiss(j))
  BY SMT DEF RvvSinMiss, RvvCosMiss
<1>2. QED
  BY <1>1, RvvSinSign, RvvCosSign, SineParts, TanOfSigns DEF RvvTan, Tangent

(* The octants of the x86 tangent: its cosine is right, its sine right up  *)
(* to the sign that the two masks have still to give.                      *)
LEMMA X86Signs ==
  ASSUME NEW j, Odd(j)
  PROVE  LET q == CutOff(Size(j), QuarterPi)
         IN  /\ OctantCosine(j, q) = Cosine(j)
             /\ OctantSine(j, q) = IF Bit(q, 4) # (j < 0) THEN -Sine(j) ELSE Sine(j)
  BY SMTT(60)
     DEF Odd, OctantSine, OctantCosine, OctantRest, CutOff, Sine, Cosine, Bit,
         Size, HalfPi, QuarterPi

(* Comparing the masks as floats turns the sign where both are set, too:   *)
(* the x86 tangent is wrong there and at no other argument.                *)
LEMMA X86TanMissed ==
  ASSUME NEW j, Odd(j)
  PROVE  (X86Tan(j) = Tangent(j)) # (j < 0 /\ Bit(CutOff(-j, QuarterPi), 4))
<1> DEFINE q == CutOff(Size(j), QuarterPi)
<1>1. /\ OctantCosine(j, q) = Cosine(j)
      /\ OctantSine(j, q) = IF Bit(q, 4) # (j < 0) THEN -Sine(j) ELSE Sine(j)
  BY X86Signs
<1>0. Sine(j) \in Int /\ -(-Sine(j)) = Sine(j)
  BY SineParts
<1>2. j < 0 => q = CutOff(-j, QuarterPi)
  BY DEF Size
<1>3. X86Tan(j) = TanOf(IF Bit(q, 4) \/ j < 0 THEN -OctantSine(j, q)
                      ELSE OctantSine(j, q), Cosine(j))
  BY <1>1 DEF X86Tan
<1> HIDE DEF q
<1>4. X86Tan(j) = IF Bit(q, 4) /\ j < 0 THEN TanOf(-Sine(j), Cosine(j))
                 ELSE TanOf(Sine(j), Cosine(j))
  <2>1. CASE Bit(q, 4) /\ j < 0
    BY <1>1, <1>3, <2>1
  <2>2. CASE Bit(q, 4) /\ ~(j < 0)
    BY <1>1, <1>3, <2>2, <1>0 DEF Bit
  <2>3. CASE ~Bit(q, 4) /\ j < 0
    BY <1>1, <1>3, <2>3, <1>0 DEF Bit
  <2>4. CASE ~Bit(q, 4) /\ ~(j < 0)
    BY <1>1, <1>3, <2>4 DEF Bit
  <2>5. QED
    BY <2>1, <2>2, <2>3, <2>4
<1>5. /\ TanOf(-Sine(j), Cosine(j)) = -TanOf(Sine(j), Cosine(j))
      /\ TanOf(Sine(j), Cosine(j)) \in Int \ {0}
  BY SineParts, TanOfSigns
<1>6. (X86Tan(j) = Tangent(j)) # (Bit(q, 4) /\ j < 0)
  BY <1>4, <1>5 DEF Tangent
<1>7. QED
  BY <1>2, <1>6

(* The signs that NEON gives its two polynomials are those of sine and     *)
(* cosine.                                                                 *)
LEMMA NeonSigns ==
  ASSUME NEW j, Odd(j)
  PROVE  LET e == 2 * ((CutOff(Size(j), QuarterPi) + 1) \div 2)
             r == Size(j) - QuarterPi * e
             s == IF Bit(e, 2) THEN CosPoly(r) ELSE SinPoly(r)
             c == IF Bit(e, 2) THEN SinPoly(r) ELSE CosPoly(r)
         IN  /\ (IF (j < 0) # Bit(e, 4) THEN -s ELSE s) = Sine(j)
             /\ (IF Bit(e - 2, 4) THEN c ELSE -c) = Cosine(j)
  BY SMTT(60)
     DEF Odd, CutOff, SinPoly, CosPoly, Sine, Cosine, Bit, Size, HalfPi, QuarterPi,
         Off

(* The NEON tangent is right at every argument.                            *)
LEMMA NeonTanRight ==
  ASSUME NEW j, Odd(j)
  PROVE  NeonTan(j) = Tangent(j)
  BY NeonSigns DEF NeonTan, Tangent

-----------------------------------------------------------------------------
(* The arguments of asin and acos.                                         *)
ArcArguments == {2 * a : a \in 0 .. 13} \cup {Nan}

(* asin undoes sin, with NaN for an argument above 1, in both ranges.      *)
LEMMA AsinSame ==
  ASSUME NEW x \in SignedOf(ArcArguments)
  PROVE  /\ x.mag = Nan => ScalarAsin(x) = x /\ VectorAsin(x) = x
         /\ x.mag = Outside => ScalarAsin(x) = CopySign(Nan, x) /\ VectorAsin(x) = CopySign(Nan, x)
         /\ x.mag \notin {Nan, Outside} => ScalarAsin(x) = x /\ VectorAsin(x) = x
<1> USE DEF ScalarAsin, VectorAsin, CopySign, ArcsinPoly, ArcsinLarge, HalfRoot, Signed,
      IsNan, Outside, HalfPi, Nan, Off
<1>1. x = [neg |-> x.neg, mag |-> x.mag] /\ x.mag \in ArcArguments
  BY DEF SignedOf
<1>2. x.mag = Nan => ScalarAsin(x) = x /\ VectorAsin(x) = x
  BY <1>1
<1>3. x.mag = Outside => ScalarAsin(x) = CopySign(Nan, x) /\ VectorAsin(x) = CopySign(Nan, x)
  BY <1>1
<1>4. ASSUME x.mag \notin {Nan, Outside}
      PROVE  ScalarAsin(x) = x /\ VectorAsin(x) = x
  <2>1. PICK a \in 0 .. 12 : x.mag = 2 * a
    BY <1>1, <1>4 DEF ArcArguments
  <2>2. x.mag > 8 => ArcsinLarge(x.mag) = x.mag
    BY <1>4, <2>1
  <2>3. QED
    BY <1>1, <2>1, <2>2
<1>5. QED
  BY <1>2, <1>3, <1>4

(* Both versions of asin are right ...                                     *)
LEMMA AsinRight ==
  ASSUME NEW x \in SignedOf(ArcArguments)
  PROVE  LET w == IF x.mag = Outside THEN NotANumber ELSE x
         IN  SameAngle(ScalarAsin(x), w) /\ SameAngle(VectorAsin(x), w)
<1>1. CASE x.mag = Outside
  <2>1. SameAngle(CopySign(Nan, x), NotANumber)
    BY DEF SameAngle, CopySign, Signed, NotANumber
  <2>2. QED
    BY <1>1, <2>1, AsinSame
<1>2. CASE x.mag # Outside
  BY <1>2, AsinSame DEF SameAngle
<1>3. QED
  BY <1>1, <1>2

(* ... and both of acos, which is pi/2 less asin.                          *)
LEMMA AcosRight ==
  ASSUME NEW x \in SignedOf(ArcArguments)
  PROVE  LET w == IF x.mag = Outside THEN NotANumber ELSE SubSigned(Signed(FALSE, HalfPi), x)
         IN  SameAngle(ScalarAcos(x), w) /\ SameAngle(VectorAcos(x), w)
<1>1. x.mag = Outside => ScalarAcos(x) = NotANumber /\ VectorAcos(x) = NotANumber
  <2>1. SubSigned(Signed(FALSE, HalfPi), CopySign(Nan, x)) = NotANumber
    BY SMT DEF SubSigned, AddSigned, Negative, CopySign, Signed, IsNan
  <2>2. QED
    BY <2>1, AsinSame DEF ScalarAcos, VectorAcos
<1>2. x.mag # Outside =>
        /\ ScalarAcos(x) = SubSigned(Signed(FALSE, HalfPi), x)
        /\ VectorAcos(x) = SubSigned(Signed(FALSE, HalfPi), x)
  BY AsinSame DEF ScalarAcos, VectorAcos
<1>3. QED
  BY <1>1, <1>2 DEF SameAngle

(* Above pi/4 atan(x) is pi/2 less that of the inverse.                     *)
LEMMA AtanInverted ==
  ASSUME NEW x \in SignedOf(QuarterPi .. HalfPi)
  PROVE  SubSigned(CopySign(HalfPi, x), ArctanPoly(Inverted(x))) = x
<1>1. x = Signed(x.neg, x.mag) /\ x.neg \in BOOLEAN /\ x.mag \in 12 .. 24
  BY DEF SignedOf, Signed, HalfPi, QuarterPi
<1>2. Inverted(x) = Signed(x.neg, 24 - x.mag)
  BY <1>1 DEF Inverted, IsNan, Nan, CopySign, Signed, HalfPi
<1>3. ArctanPoly(Inverted(x)) = Signed(x.neg, 24 - x.mag)
  BY <1>1, <1>2 DEF ArctanPoly, IsNan, Nan, Signed, QuarterPi
<1>4. Negative(ArctanPoly(Inverted(x))) = Signed(~x.neg, 24 - x.mag)
  BY <1>3 DEF Negative, Signed
<1>5. AddSigned(Signed(x.neg, 24), Signed(~x.neg, 24 - x.mag)) = Signed(x.neg, x.mag)
  <2> DEFINE a == Signed(x.neg, 24)
             b == Signed(~x.neg, 24 - x.mag)
  <2>1. a.neg = x.neg /\ a.mag = 24 /\ b.neg = (~x.neg) /\ b.mag = 24 - x.mag
    BY Zenon DEF Signed
  <2>2. (~x.neg) # x.neg
    BY <1>1
  <2>3. a.mag # b.mag /\ a.mag > b.mag /\ a.mag - b.mag = x.mag /\ ~IsNan(a) /\ ~IsNan(b)
    <3> HIDE DEF a, b
    <3>1. QED
      BY <1>1, <2>1 DEF IsNan, Nan
  <2>4. a.neg # b.neg
    <3> HIDE DEF a, b
    <3>1. QED
      BY Zenon, <2>1, <2>2
  <2> HIDE DEF a, b
  <2>5. AddSigned(a, b) = Signed(x.neg, x.mag)
    BY <2>1, <2>3, <2>4 DEF AddSigned
  <2>6. QED
    BY <2>5 DEF a, b
<1>6. QED
  BY <1>1, <1>4, <1>5 DEF SubSigned, CopySign, HalfPi

(* Both versions of atan are right, also at infinity and at NaN.           *)
LEMMA AtanRight ==
  ASSUME NEW x \in SignedOf(0 .. HalfPi \cup {Nan})
  PROVE  SameAngle(ScalarAtan(x), x) /\ SameAngle(VectorAtan(x), x)
<1>0. x = Signed(x.neg, x.mag) /\ x.mag \in 0 .. 24 \cup {999}
  BY DEF SignedOf, Signed, HalfPi, Nan
<1>1. CASE x.mag = 999
  <2>1. ScalarAtan(x) = x /\ VectorAtan(x) = NotANumber
    BY <1>1 DEF ScalarAtan, VectorAtan, ArctanPoly, IsNan, Nan
  <2>2. QED
    BY <1>1, <2>1 DEF SameAngle, NotANumber, Signed, Nan
<1>2. CASE x.mag \in QuarterPi .. HalfPi
  <2>1. SubSigned(CopySign(HalfPi, x), ArctanPoly(Inverted(x))) = x
    <3>1. x \in SignedOf(QuarterPi .. HalfPi)
      BY <1>2 DEF SignedOf
    <3>2. QED
      BY <3>1, AtanInverted
  <2>2. ~IsNan(x) /\ ~(x.mag < QuarterPi)
    BY <1>2 DEF IsNan, Nan, QuarterPi, HalfPi
  <2>3. ScalarAtan(x) = x
    <3>1. x.mag = HalfPi => CopySign(HalfPi, x) = x
      BY <1>0 DEF CopySign
    <3>2. QED
      BY <2>1, <2>2, <3>1 DEF ScalarAtan
  <2>4. VectorAtan(x) = x
    <3>1. CopySign(HalfPi, Inverted(x)) = CopySign(HalfPi, x)
      BY <2>2 DEF CopySign, Inverted, Signed
    <3>2. ~(x.mag > QuarterPi) => ArctanPoly(x) = x
      BY <1>2, <2>2 DEF ArctanPoly, QuarterPi, HalfPi
    <3>3. QED
      BY <2>1, <2>2, <3>1, <3>2 DEF VectorAtan
  <2>5. QED
    BY <2>3, <2>4 DEF SameAngle
<1>3. CASE x.mag \in 0 .. QuarterPi - 1
  <2>1. ~IsNan(x) /\ x.mag < QuarterPi /\ x.mag # HalfPi /\ ArctanPoly(x) = x
    BY <1>3 DEF IsNan, Nan, QuarterPi, HalfPi, ArctanPoly
  <2>2. ScalarAtan(x) = x /\ VectorAtan(x) = x
    BY <1>3, <2>1 DEF ScalarAtan, VectorAtan, QuarterPi
  <2>3. QED
    BY <2>2 DEF SameAngle
<1>4. QED
  <2>1. x.mag = 999 \/ x.mag \in QuarterPi .. HalfPi \/ x.mag \in 0 .. QuarterPi - 1
    BY <1>0 DEF QuarterPi, HalfPi
  <2>2. QED
    BY <1>1, <1>2, <1>3, <2>1

-----------------------------------------------------------------------------

(* The sizes of the finite parts of a point.                               *)
Finite == 0 .. Huge

(* The angle between the nearer axis and the point, in 0 .. 12.            *)
Between(y, x) == AngleOfSizes(Least(x.mag, y.mag), Most(x.mag, y.mag))
First(y, x) == IF y.mag > x.mag THEN HalfPi - Between(y, x) ELSE Between(y, x)

(* The polynomial is only given quotients up to 1, and a quotient vanishes *)
(* if its numerator does or if it underflows.                              *)
LEMMA AngleBounds ==
  ASSUME NEW n \in Finite, NEW d \in Finite, n <= d, d # 0
  PROVE  /\ AngleOfSizes(n, d) \in 0 .. QuarterPi
         /\ AngleOfSizes(n, d) = 0 <=> n = 0 \/ (n = Tiny /\ d = Huge)
<1>1. n \in 0 .. 4 /\ d \in 0 .. 4
  BY DEF Finite, Huge
<1>2. Nan \notin {n, d} /\ n # Inf
  BY <1>1 DEF Nan, Inf
<1>3. QED
  BY <1>1, <1>2, SMTT(30)
     DEF AngleOfSizes, Tiny, One, Root3, Huge, Inf, Slight, Nan, QuarterPi

(* The same for the parts of a point that is not the origin.               *)
LEMMA BetweenBounds ==
  ASSUME NEW y \in SignedOf(Finite), NEW x \in SignedOf(Finite), y.mag # 0 \/ x.mag # 0
  PROVE  /\ Between(y, x) \in 0 .. QuarterPi
         /\ Between(y, x) = 0 <=> \/ y.mag = 0 \/ x.mag = 0
                                  \/ x.mag = Tiny /\ y.mag = Huge
                                  \/ x.mag = Huge /\ y.mag = Tiny
         /\ First(y, x) \in 0 .. HalfPi
<1>1. x.mag \in 0 .. 4 /\ y.mag \in 0 .. 4
  BY DEF SignedOf, Finite, Huge
<1> DEFINE n == Least(x.mag, y.mag)
           d == Most(x.mag, y.mag)
<1>5. n \in Finite /\ d \in Finite /\ n <= d /\ d # 0
  BY <1>1 DEF Least, Most, Finite, Huge
<1>2. Between(y, x) \in 0 .. QuarterPi
  BY <1>5, AngleBounds DEF Between
<1>3. Between(y, x) = 0 <=> \/ y.mag = 0 \/ x.mag = 0
                            \/ x.mag = Tiny /\ y.mag = Huge
                            \/ x.mag = Huge /\ y.mag = Tiny
  <2>1. Between(y, x) = 0 <=> n = 0 \/ (n = Tiny /\ d = Huge)
    BY <1>5, AngleBounds DEF Between
  <2>2. QED
    BY <1>1, <2>1 DEF Least, Most, Tiny, Huge
<1>4. QED
  BY <1>2, <1>3 DEF First, HalfPi, QuarterPi

(* What atan2 is at finite points, by the two angles above.                *)
LEMMA FiniteAtan2 ==
  ASSUME NEW y \in SignedOf(Finite), NEW x \in SignedOf(Finite)
  PROVE  Atan2(y, x) =
           Signed(y.neg, LET m == IF y.mag = 0 /\ x.mag = 0 THEN 0 ELSE First(y, x)
                         IN  IF x.neg THEN 2 * HalfPi - m ELSE m)
<1>1. x.mag \in 0 .. 4 /\ y.mag \in 0 .. 4
  BY DEF SignedOf, Finite, Huge
<1>2. ~IsNan(x) /\ ~IsNan(y)
  BY <1>1 DEF IsNan, Nan
<1>3. CASE y.mag = 0 /\ x.mag = 0
  <2>1. Between(y, x) = Nan
    BY <1>3 DEF Between, AngleOfSizes, Least, Most
  <2>2. QED
    BY <1>2, <1>3, <2>1 DEF Atan2, Between, CopySign
<1>4. CASE ~(y.mag = 0 /\ x.mag = 0)
  <2>1. Between(y, x) # Nan
    BY <1>1, <1>4, BetweenBounds DEF QuarterPi, Nan
  <2>2. QED
    BY <1>2, <1>4, <2>1 DEF Atan2, Between, CopySign, First
<1>5. QED
  BY <1>3, <1>4

(* Sums of signed angles: unlike signs take the smaller from the greater.  *)
LEMMA AddParts ==
  ASSUME NEW s \in BOOLEAN, NEW t \in BOOLEAN, NEW a \in 0 .. 48, NEW b \in 0 .. 48, a < b
  PROVE  /\ s # t => /\ AddSigned(Signed(s, a), Signed(t, b)) = Signed(t, b - a)
                     /\ AddSigned(Signed(t, b), Signed(s, a)) = Signed(t, b - a)
         /\ AddSigned(Signed(s, a), Signed(s, b)) = Signed(s, a + b)
<1>1. /\ Signed(s, a).neg = s /\ Signed(s, a).mag = a
      /\ Signed(t, b).neg = t /\ Signed(t, b).mag = b
      /\ Signed(s, b).neg = s /\ Signed(s, b).mag = b
  BY DEF Signed
<1>2. ~IsNan(Signed(s, a)) /\ ~IsNan(Signed(t, b)) /\ ~IsNan(Signed(s, b))
  BY <1>1 DEF IsNan, Nan
<1>3. a # b /\ ~(a > b) /\ b > a
  OBVIOUS
<1>4. QED
  BY <1>1, <1>2, <1>3, Zenon DEF AddSigned

(* The two corrections of atan2: from pi/2, and by pi in the left half.    *)
LEMMA Sums ==
  ASSUME NEW s \in BOOLEAN, NEW t \in BOOLEAN, s # t, NEW a \in 0 .. 24
  PROVE  /\ a # 24 => SubSigned(Signed(s, 24), Signed(s, a)) = Signed(s, 24 - a)
         /\ AddSigned(Signed(t, a), Signed(s, 48)) = Signed(s, 48 - a)
         /\ AddSigned(Signed(s, a), Signed(s, 48)) = Signed(s, a + 48)
<1>1. /\ a \in 0 .. 48 /\ 24 \in 0 .. 48 /\ 48 \in 0 .. 48
      /\ a < 48 /\ (a # 24 => a < 24)
  OBVIOUS
<1>2. /\ AddSigned(Signed(t, a), Signed(s, 48)) = Signed(s, 48 - a)
      /\ AddSigned(Signed(s, a), Signed(s, 48)) = Signed(s, a + 48)
  BY <1>1, AddParts
<1>3. ASSUME a # 24
      PROVE  SubSigned(Signed(s, 24), Signed(s, a)) = Signed(s, 24 - a)
  <2>1. Negative(Signed(s, a)) = Signed(t, a)
    BY DEF Negative, Signed
  <2>2. AddSigned(Signed(s, 24), Signed(t, a)) = Signed(s, 24 - a)
    BY <1>1, <1>3, AddParts
  <2>3. QED
    BY <2>1, <2>2 DEF SubSigned
<1>4. QED
  BY <1>2, <1>3

(* The quotient that is formed, with the smaller part above.               *)
LEMMA OverSizes ==
  ASSUME NEW y \in SignedOf(Finite), NEW x \in SignedOf(Finite), y.mag # 0 \/ x.mag # 0
  PROVE  /\ x.mag < y.mag  => Over(x, y) = Signed(y.neg # x.neg, Between(y, x))
         /\ ~(x.mag < y.mag) => Over(y, x) = Signed(y.neg # x.neg, Between(y, x))
<1>1. x.mag \in 0 .. 4 /\ y.mag \in 0 .. 4 /\ x.neg \in BOOLEAN /\ y.neg \in BOOLEAN
  BY DEF SignedOf, Finite, Huge
<1>2. QED
  BY <1>1 DEF Over, Between, Least, Most, Signed

(* On [-1, 1] the polynomial is the arc tangent.                           *)
LEMMA PolySame ==
  ASSUME NEW s \in BOOLEAN, NEW a \in 0 .. QuarterPi
  PROVE  ArctanPoly(Signed(s, a)) = Signed(s, a)
  BY DEF ArctanPoly, Signed, IsNan, QuarterPi, Nan

(* The values set for infinite parts are those of atan2.                   *)
LEMMA InfiniteRight ==
  ASSUME NEW y \in SignedOf(Sizes), NEW x \in SignedOf(Sizes),
         ~IsNan(x), ~IsNan(y), Inf \in {x.mag, y.mag}
  PROVE  OfInfinite(y, x) = Atan2(y, x)
<1> DEFINE b == AngleOfSizes(Least(x.mag, y.mag), Most(x.mag, y.mag))
<1>1. /\ x.neg \in BOOLEAN /\ y.neg \in BOOLEAN
      /\ x.mag \in 0 .. 5 /\ y.mag \in 0 .. 5
  BY DEF SignedOf, Sizes, Inf, IsNan
<1>2. b = IF x.mag = y.mag THEN Nan ELSE 0
  <2>1. /\ Most(x.mag, y.mag) = 5
        /\ Least(x.mag, y.mag) \in 0 .. 5
        /\ Least(x.mag, y.mag) = 5 <=> x.mag = y.mag
    BY <1>1 DEF Least, Most, Inf
  <2>2. AngleOfSizes(5, 5) = Nan
    BY DEF AngleOfSizes, Inf
  <2>3. ASSUME NEW n \in 0 .. 5, n # 5
        PROVE  AngleOfSizes(n, 5) = 0
    BY <2>3 DEF AngleOfSizes, Inf, Nan, Root3
  <2>4. QED
    BY <2>1, <2>2, <2>3
<1>3. Atan2(y, x) = LET first == IF x.mag = y.mag THEN 12 ELSE IF y.mag > x.mag THEN 24 ELSE 0
                    IN  CopySign(IF x.neg THEN 48 - first ELSE first, y)
  BY <1>1, <1>2 DEF Atan2, HalfPi, QuarterPi, Inf, Nan
<1>4. QED
  BY <1>1, <1>3 DEF OfInfinite, Inf, HalfPi, IsNan

(* volk_atan2 is right but at (0, -0), and where the quotient underflows   *)
(* with its sign lost.                                                     *)
LEMMA ScalarRight ==
  ASSUME NEW y \in SignedOf(Sizes), NEW x \in SignedOf(Sizes)
  PROVE  SameAngle(ScalarAtan2(y, x), Atan2(y, x)) #
           \/ x = Signed(TRUE, 0) /\ y.mag = 0
           \/ x.mag = Tiny /\ y.mag = Huge /\ y.neg # x.neg
<1> DEFINE miss == \/ x = Signed(TRUE, 0) /\ y.mag = 0
                   \/ x.mag = Tiny /\ y.mag = Huge /\ y.neg # x.neg
<1>1. /\ x = Signed(x.neg, x.mag) /\ y = Signed(y.neg, y.mag)
      /\ x.neg \in BOOLEAN /\ y.neg \in BOOLEAN
      /\ x.mag \in 0 .. 5 \cup {Nan} /\ y.mag \in 0 .. 5 \cup {Nan}
  BY DEF SignedOf, Sizes, Inf, Signed
<1>2. CASE IsNan(x) \/ IsNan(y)
  <2>1. ScalarAtan2(y, x) = NotANumber /\ Atan2(y, x) = NotANumber
    BY <1>2 DEF ScalarAtan2, Atan2
  <2>2. ~miss
    BY <1>1, <1>2 DEF IsNan, Nan, Tiny, Huge, Signed
  <2>3. QED
    BY <2>1, <2>2 DEF SameAngle
<1>3. CASE ~IsNan(x) /\ ~IsNan(y) /\ Inf \in {x.mag, y.mag}
  <2>1. ScalarAtan2(y, x) = OfInfinite(y, x)
    BY <1>3 DEF ScalarAtan2
  <2>2. ~miss
    BY <1>3 DEF Inf, Tiny, Huge, Signed
  <2>3. OfInfinite(y, x) = Atan2(y, x)
    BY <1>1, <1>3, InfiniteRight
  <2>4. QED
    BY <2>1, <2>2, <2>3 DEF SameAngle
<1>4. CASE /\ x \in SignedOf(Finite) /\ y \in SignedOf(Finite)
  <2> DEFINE s == y.neg # x.neg
             b == Between(y, x)
  <2>1. ~IsNan(x) /\ ~IsNan(y) /\ Inf \notin {x.mag, y.mag}
    BY <1>4 DEF SignedOf, Finite, Huge, Inf, IsNan, Nan
  <2>2. CASE x.mag = 0
    <3>1. ScalarAtan2(y, x) = Signed(y.neg, IF y.mag = 0 THEN 0 ELSE 24)
      BY <2>1, <2>2 DEF ScalarAtan2, CopySign, HalfPi
    <3>2. Atan2(y, x) = Signed(y.neg, IF y.mag = 0 THEN IF x.neg THEN 48 ELSE 0 ELSE 24)
      <4>1. y.mag # 0 => Between(y, x) = 0 /\ y.mag > x.mag
        BY <1>4, <2>2, BetweenBounds DEF SignedOf, Finite, Huge
      <4>2. QED
        BY <1>4, <2>2, <4>1, FiniteAtan2 DEF First, HalfPi
    <3>3. miss <=> x.neg /\ y.mag = 0
      BY <1>1, <2>2 DEF Signed, Tiny
    <3>4. SameAngle(ScalarAtan2(y, x), Atan2(y, x)) <=> ~(x.neg /\ y.mag = 0)
      <4>1. \A t \in BOOLEAN : SameAngle(Signed(t, 24), Signed(t, 24))
                              /\ SameAngle(Signed(t, 0), Signed(t, 0))
                              /\ ~SameAngle(Signed(t, 0), Signed(t, 48))
        BY DEF SameAngle, Signed, Nan
      <4>2. QED
        BY <1>1, <3>1, <3>2, <4>1
    <3>5. QED
      BY <3>3, <3>4, Zenon
  <2>3. CASE x.mag # 0
    <3>1. b \in 0 .. 12 /\ s \in BOOLEAN /\ b \in 0 .. 24 /\ 24 - b \in 0 .. 24 /\ b # 24
      BY <1>1, <1>4, <2>3, BetweenBounds DEF QuarterPi
    <3>2. s = y.neg <=> ~x.neg
      BY <1>1
    <3>3. /\ x.neg => s = ~y.neg /\ (\A a \in 0 .. 24 :
                       AddSigned(Signed(s, a), Signed(y.neg, 48)) = Signed(y.neg, 48 - a))
          /\ ~x.neg => s = y.neg
      BY <1>1, Sums
    <3>4. CASE ~(x.mag < y.mag)
      <4>1. ScalarAtan2(y, x) = IF x.neg THEN AddSigned(Signed(s, b), Signed(y.neg, 48))
                                ELSE Signed(s, b)
        <5>1. Over(y, x) = Signed(s, b) /\ ArctanPoly(Signed(s, b)) = Signed(s, b)
          BY <1>4, <2>3, <3>1, <3>4, OverSizes, PolySame DEF QuarterPi
        <5>2. CopySign(2 * HalfPi, y) = Signed(y.neg, 48)
          BY DEF CopySign, HalfPi
        <5>3. QED
          BY <2>1, <2>3, <3>4, <5>1, <5>2, Zenon DEF ScalarAtan2
      <4>2. Atan2(y, x) = Signed(y.neg, IF x.neg THEN 48 - b ELSE b)
        BY <1>1, <1>4, <2>3, <3>4, FiniteAtan2 DEF First, HalfPi, SignedOf, Finite, Huge
      <4>3. ~miss
        BY <2>3, <3>4 DEF Signed, Tiny, Huge
      <4>4. ScalarAtan2(y, x) = Atan2(y, x)
        BY <3>1, <3>3, <4>1, <4>2
      <4>5. QED
        BY <4>3, <4>4 DEF SameAngle
    <3>5. CASE x.mag < y.mag
      <4>1. Over(x, y) = Signed(s, b) /\ (b = 0 <=> x.mag = Tiny /\ y.mag = Huge)
        BY <1>1, <1>4, <2>3, <3>5, OverSizes, BetweenBounds
           DEF Tiny, Huge, SignedOf, Finite
      <4>2. ScalarAtan2(y, x) =
              LET turned == SubSigned(Signed(s /\ b # 0, 24), Signed(s, b))
              IN  IF x.neg THEN AddSigned(turned, Signed(y.neg, 48)) ELSE turned
        <5>1. /\ ArctanPoly(Signed(s, b)) = Signed(s, b)
              /\ Signed(s, b).neg = s /\ Signed(s, b).mag = b
          BY <3>1, PolySame DEF QuarterPi, Signed
        <5>2. CopySign(2 * HalfPi, y) = Signed(y.neg, 48) /\ HalfPi = 24
          BY DEF CopySign, HalfPi
        <5>3. QED
          BY <2>1, <2>3, <3>5, <4>1, <5>1, <5>2, Zenon DEF ScalarAtan2
      <4>3. Atan2(y, x) = Signed(y.neg, IF x.neg THEN 24 + b ELSE 24 - b)
        <5>1. y.mag # 0
          BY <1>1, <1>4, <3>5 DEF SignedOf, Finite, Huge
        <5>2. First(y, x) = 24 - b /\ 48 - (24 - b) = 24 + b
          BY <3>1, <3>5 DEF First, HalfPi
        <5>3. QED
          BY <1>4, <5>1, <5>2, FiniteAtan2 DEF HalfPi
      <4>4. miss <=> b = 0 /\ s
        <5>1. x # Signed(TRUE, 0)
          BY <2>3 DEF Signed
        <5>2. QED
          BY <4>1, <5>1, Zenon
      <4>5. CASE b # 0
        <5>1. SubSigned(Signed(s /\ b # 0, 24), Signed(s, b)) = Signed(s, 24 - b)
          BY <3>1, <4>5, Sums
        <5>2. ScalarAtan2(y, x) = Atan2(y, x)
          BY <3>1, <3>3, <4>2, <4>3, <5>1
        <5>3. QED
          BY <4>4, <4>5, <5>2 DEF SameAngle
      <4>6. CASE b = 0
        <5>1. SubSigned(Signed(FALSE, 24), Signed(s, 0)) = Signed(FALSE, 24)
          BY <3>1 DEF SubSigned, AddSigned, Negative, Signed, IsNan, Nan
        <5>2. ScalarAtan2(y, x) = IF x.neg THEN AddSigned(Signed(FALSE, 24), Signed(y.neg, 48))
                                  ELSE Signed(FALSE, 24)
          BY <4>2, <4>6, <5>1
        <5>3. Atan2(y, x) = Signed(y.neg, 24)
          BY <4>3, <4>6
        <5>4. AddSigned(Signed(FALSE, 24), Signed(y.neg, 48)) =
                IF y.neg THEN Signed(TRUE, 24) ELSE Signed(FALSE, 72)
          <6>1. /\ AddSigned(Signed(FALSE, 24), Signed(TRUE, 48)) = Signed(TRUE, 24)
                /\ AddSigned(Signed(FALSE, 24), Signed(FALSE, 48)) = Signed(FALSE, 72)
            BY DEF AddSigned, Signed, IsNan, Nan
          <6>2. CASE y.neg = TRUE
            BY <6>1, <6>2
          <6>3. CASE y.neg = FALSE
            BY <6>1, <6>3
          <6>4. QED
            BY <1>1, <6>2, <6>3
        <5>5. SameAngle(ScalarAtan2(y, x), Atan2(y, x)) <=> ~s
          <6>1. \A t \in BOOLEAN : /\ SameAngle(Signed(t, 24), Signed(t, 24))
                                   /\ ~SameAngle(Signed(~t, 24), Signed(t, 24))
                                   /\ ~SameAngle(Signed(FALSE, 72), Signed(t, 24))
            BY DEF SameAngle, Signed, Nan
          <6>2. CASE x.neg /\ y.neg
            BY <1>1, <6>1, <6>2, <5>2, <5>3, <5>4
          <6>3. CASE x.neg /\ ~y.neg
            BY <1>1, <6>1, <6>3, <5>2, <5>3, <5>4
          <6>4. CASE ~x.neg /\ y.neg
            BY <1>1, <6>1, <6>4, <5>2, <5>3
          <6>5. CASE ~x.neg /\ ~y.neg
            BY <1>1, <6>1, <6>5, <5>2, <5>3
          <6>6. QED
            BY <6>2, <6>3, <6>4, <6>5
        <5>6. QED
          BY <4>4, <4>6, <5>5, Zenon
      <4>7. QED
        BY <4>5, <4>6
    <3>6. QED
      BY <3>4, <3>5
  <2>4. QED
    BY <2>2, <2>3
<1>5. QED
  <2>1. ASSUME NEW z \in SignedOf(Sizes), ~IsNan(z), z.mag # Inf
        PROVE  z \in SignedOf(Finite)
    BY <2>1 DEF IsNan, SignedOf, Sizes, Finite, Inf, Huge
  <2>2. QED
    BY <1>2, <1>3, <1>4, <2>1
(* What is known of the parts of a point.                                  *)
LEMMA Parts ==
  ASSUME NEW y \in SignedOf(Sizes), NEW x \in SignedOf(Sizes)
  PROVE  /\ x.neg \in BOOLEAN /\ y.neg \in BOOLEAN
         /\ x.mag \in 0 .. 5 \cup {Nan} /\ y.mag \in 0 .. 5 \cup {Nan}
         /\ x.mag \notin {Nan, Inf} => x \in SignedOf(Finite)
         /\ y.mag \notin {Nan, Inf} => y \in SignedOf(Finite)
  BY DEF SignedOf, Sizes, Finite, Inf, Huge

(* The vector versions before their correction for the left half: right    *)
(* for points with x > 0, the y itself at the origin.                      *)
LEMMA VectorBaseFinite ==
  ASSUME NEW y \in SignedOf(Finite), NEW x \in SignedOf(Finite)
  PROVE  VectorBase(y, x) = IF y.mag = 0 /\ x.mag = 0 THEN y
                            ELSE Signed(y.neg # x.neg, First(y, x))
<1> DEFINE s == y.neg # x.neg
           b == Between(y, x)
<1>1. /\ x.mag \in 0 .. 4 /\ y.mag \in 0 .. 4 /\ s \in BOOLEAN
      /\ ~IsNan(x) /\ ~IsNan(y)
  BY DEF SignedOf, Finite, Huge, IsNan, Nan
<1>2. Exceeds(y, x) <=> x.mag < y.mag
  BY <1>1 DEF Exceeds
<1>3. CASE y.mag = 0 /\ x.mag = 0
  <2>1. IsNan(Over(y, x)) /\ ~(x.mag < y.mag)
    BY <1>3 DEF Over, AngleOfSizes, IsNan, Signed
  <2>2. ArctanPoly(y) = y
    BY <1>1, <1>3 DEF ArctanPoly, QuarterPi
  <2>3. VectorBase(y, x) = y
    BY <1>1, <1>2, <2>1, <2>2, Zenon DEF VectorBase
  <2>4. QED
    BY <1>3, <2>3
<1>4. CASE ~(y.mag = 0 /\ x.mag = 0)
  <2>1. b \in 0 .. 12 /\ b \in 0 .. 24 /\ b # 24
    BY <1>4, BetweenBounds DEF QuarterPi
  <2>2. /\ ArctanPoly(Signed(s, b)) = Signed(s, b) /\ ~IsNan(Signed(s, b))
        /\ CopySign(HalfPi, Signed(s, b)) = Signed(s, 24)
    <3>1. ArctanPoly(Signed(s, b)) = Signed(s, b)
      BY <1>1, <2>1, PolySame DEF QuarterPi
    <3>2. Signed(s, b).neg = s /\ Signed(s, b).mag = b
      BY DEF Signed
    <3>3. QED
      BY <2>1, <3>1, <3>2 DEF HalfPi, Nan, IsNan, CopySign
  <2>3. CASE x.mag < y.mag
    <3>1. Over(x, y) = Signed(s, b)
      BY <1>4, <2>3, OverSizes
    <3>2. SubSigned(Signed(s, 24), Signed(s, b)) = Signed(s, 24 - b)
      <4>1. PICK t \in BOOLEAN : s # t
        OBVIOUS
      <4>2. QED
        BY <1>1, <2>1, <4>1, Sums
    <3>3. VectorBase(y, x) = Signed(s, 24 - b)
      BY <1>2, <2>2, <2>3, <3>1, <3>2, Zenon DEF VectorBase
    <3>4. First(y, x) = 24 - b
      BY <1>1, <2>3 DEF First, HalfPi
    <3>5. QED
      BY <1>4, <3>3, <3>4, Zenon
  <2>4. CASE ~(x.mag < y.mag)
    <3>1. Over(y, x) = Signed(s, b)
      BY <1>4, <2>4, OverSizes
    <3>2. VectorBase(y, x) = Signed(s, b)
      BY <1>2, <2>2, <2>4, <3>1, Zenon DEF VectorBase
    <3>3. First(y, x) = b
      BY <1>1, <2>4 DEF First
    <3>4. QED
      BY <1>4, <3>2, <3>3, Zenon
  <2>5. QED
    BY <2>3, <2>4
<1>5. QED
  BY <1>3, <1>4

(* With a NaN the vector versions answer NaN unless the other part is      *)
(* infinite.                                                               *)
LEMMA VectorOfNan ==
  ASSUME NEW y \in SignedOf(Sizes), NEW x \in SignedOf(Sizes), IsNan(x) \/ IsNan(y),
         NEW left \in BOOLEAN
  PROVE  SameAngle(VectorAtan2(y, x, left), Atan2(y, x)) # ({y.mag, x.mag} = {Nan, Inf})
<1>1. Atan2(y, x) = NotANumber
  BY DEF Atan2
<1>2. {y.mag, x.mag} = {Nan, Inf} <=> Inf \in {x.mag, y.mag}
  BY SMT DEF IsNan, Nan, Inf
<1>3. CASE Inf \in {x.mag, y.mag}
  <2>1. VectorAtan2(y, x, left) = OfInfinite(y, x)
    BY <1>3 DEF VectorAtan2
  <2>2. OfInfinite(y, x).mag # Nan
    BY DEF OfInfinite, CopySign, Signed, Nan, HalfPi
  <2>3. ~SameAngle(VectorAtan2(y, x, left), Atan2(y, x))
    <3>1. NotANumber.mag = Nan
      BY DEF NotANumber, Signed
    <3>2. QED
      BY <1>1, <2>1, <2>2, <3>1 DEF SameAngle
  <2>4. QED
    BY <1>2, <1>3, <2>3
<1>4. CASE Inf \notin {x.mag, y.mag}
  <2>1. ~Exceeds(y, x)
    BY DEF Exceeds
  <2>2. IsNan(Over(y, x))
    BY DEF Over, AngleOfSizes, IsNan, Signed
  <2>3. VectorBase(y, x) = NotANumber
    BY <2>1, <2>2, Zenon DEF VectorBase, ArctanPoly
  <2>4. AddSigned(NotANumber, CopySign(2 * HalfPi, y)) = NotANumber
    BY DEF AddSigned, IsNan, NotANumber, Signed
  <2>5. VectorAtan2(y, x, left) = NotANumber
    BY <1>4, <2>3, <2>4, Zenon DEF VectorAtan2
  <2>6. QED
    BY <1>1, <1>2, <1>4, <2>5 DEF SameAngle
<1>5. QED
  BY <1>3, <1>4

(* At finite points they are right whenever the left half is recognised.   *)
LEMMA VectorFinite ==
  ASSUME NEW y \in SignedOf(Finite), NEW x \in SignedOf(Finite), NEW left \in BOOLEAN,
         left => x.neg, x.neg /\ x.mag # 0 => left
  PROVE  SameAngle(VectorAtan2(y, x, left), Atan2(y, x)) # (x.neg /\ ~left)
<1> DEFINE s == y.neg # x.neg
           m == IF y.mag = 0 /\ x.mag = 0 THEN 0 ELSE First(y, x)
<1>1. /\ x.neg \in BOOLEAN /\ y.neg \in BOOLEAN /\ s \in BOOLEAN
      /\ m \in 0 .. 24 /\ Inf \notin {x.mag, y.mag}
  BY BetweenBounds DEF SignedOf, Finite, Huge, Inf, HalfPi
<1>2. Atan2(y, x) = Signed(y.neg, IF x.neg THEN 48 - m ELSE m)
  BY FiniteAtan2 DEF HalfPi
<1>3. VectorBase(y, x) = IF y.mag = 0 /\ x.mag = 0 THEN Signed(y.neg, 0) ELSE Signed(s, m)
  <2>1. y.mag = 0 => y = Signed(y.neg, 0)
    BY DEF SignedOf, Signed
  <2>2. QED
    BY <2>1, VectorBaseFinite, Zenon
<1>4. CopySign(2 * HalfPi, y) = Signed(y.neg, 48)
  BY DEF CopySign, HalfPi
<1> HIDE DEF m
<1>5. CASE left
  <2>1. VectorAtan2(y, x, left) = AddSigned(VectorBase(y, x), Signed(y.neg, 48))
    BY <1>1, <1>4, <1>5, Zenon DEF VectorAtan2
  <2>2. AddSigned(Signed(y.neg, 0), Signed(y.neg, 48)) = Signed(y.neg, 48)
    BY <1>1, AddParts
  <2>3. AddSigned(Signed(s, m), Signed(y.neg, 48)) = Signed(y.neg, 48 - m)
    BY <1>1, <1>5, Sums
  <2>4. VectorAtan2(y, x, left) = Atan2(y, x)
    <3>1. CASE y.mag = 0 /\ x.mag = 0
      <4>1. m = 0 /\ 48 - m = 48
        BY <3>1 DEF m
      <4>2. QED
        BY <1>2, <1>3, <1>5, <2>1, <2>2, <3>1, <4>1
    <3>2. CASE ~(y.mag = 0 /\ x.mag = 0)
      BY <1>2, <1>3, <1>5, <2>1, <2>3, <3>2
    <3>3. QED
      BY <3>1, <3>2
  <2>5. QED
    BY <1>5, <2>4 DEF SameAngle
<1>6. CASE ~left
  <2>1. VectorAtan2(y, x, left) = VectorBase(y, x)
    BY <1>1, <1>6, Zenon DEF VectorAtan2
  <2>2. CASE ~x.neg
    <3>1. s = y.neg
      BY <1>1, <2>2
    <3>2. VectorAtan2(y, x, left) = Atan2(y, x)
      BY <1>2, <1>3, <2>1, <2>2, <3>1 DEF m
    <3>3. QED
      BY <2>2, <3>2 DEF SameAngle
  <2>3. CASE x.neg
    <3>1. x.mag = 0
      BY <1>6, <2>3
    <3>2. m = IF y.mag = 0 THEN 0 ELSE 24
      BY <3>1, <1>1, BetweenBounds DEF m, First, HalfPi, SignedOf, Finite, Huge
    <3>3. s = ~y.neg
      BY <1>1, <2>3
    <3>4. QED
      <4>1. CASE y.mag = 0
        BY <1>2, <1>3, <2>1, <2>3, <3>1, <3>2, <4>1, <1>6 DEF SameAngle, Signed, Nan
      <4>2. CASE y.mag # 0
        <5>1. Atan2(y, x) = Signed(y.neg, 24)
          BY <1>2, <2>3, <3>2, <4>2
        <5>2. VectorAtan2(y, x, left) = Signed(s, 24)
          BY <1>3, <2>1, <3>2, <4>2
        <5>3. ASSUME NEW t \in BOOLEAN, NEW u \in BOOLEAN, t # u
              PROVE  ~SameAngle(Signed(t, 24), Signed(u, 24))
          BY <5>3 DEF SameAngle, Signed, Nan
        <5>4. s # y.neg
          BY <1>1, <2>3
        <5>5. ~SameAngle(VectorAtan2(y, x, left), Atan2(y, x))
          BY <1>1, <5>1, <5>2, <5>3, <5>4
        <5>6. QED
          BY <1>6, <2>3, <5>5
      <4>3. QED
        BY <4>1, <4>2
  <2>4. QED
    BY <2>2, <2>3
<1>7. QED
  BY <1>5, <1>6
(* The vector versions at every point, for both ways to recognise the left *)
(* half: all that can be missed is x = -0.                                 *)
LEMMA VectorRight ==
  ASSUME NEW y \in SignedOf(Sizes), NEW x \in SignedOf(Sizes), NEW left \in BOOLEAN,
         left => x.neg, x.neg /\ x.mag \notin {0, Nan} => left
  PROVE  SameAngle(VectorAtan2(y, x, left), Atan2(y, x)) #
           \/ {y.mag, x.mag} = {Nan, Inf}
           \/ x = Signed(TRUE, 0) /\ ~left /\ y.mag \notin {Nan, Inf}
<1>1. CASE IsNan(x) \/ IsNan(y)
  <2>1. ~(x = Signed(TRUE, 0) /\ y.mag \notin {Nan, Inf})
    BY <1>1 DEF IsNan, Signed, Nan
  <2>2. QED
    BY <1>1, <2>1, VectorOfNan
<1>2. CASE ~IsNan(x) /\ ~IsNan(y) /\ Inf \in {x.mag, y.mag}
  <2>1. VectorAtan2(y, x, left) = Atan2(y, x)
    BY <1>2, InfiniteRight DEF VectorAtan2
  <2>2. ~(x = Signed(TRUE, 0) /\ y.mag \notin {Nan, Inf})
    BY <1>2 DEF Signed, Inf
  <2>3. {y.mag, x.mag} # {Nan, Inf}
    BY <1>2 DEF IsNan
  <2>4. QED
    BY <2>1, <2>2, <2>3 DEF SameAngle
<1>3. CASE ~IsNan(x) /\ ~IsNan(y) /\ Inf \notin {x.mag, y.mag}
  <2>1. x \in SignedOf(Finite) /\ y \in SignedOf(Finite)
    BY <1>3, Parts DEF IsNan
  <2>2. SameAngle(VectorAtan2(y, x, left), Atan2(y, x)) # (x.neg /\ ~left)
    BY <1>3, <2>1, VectorFinite DEF IsNan
  <2>3. x = Signed(TRUE, 0) <=> x.neg /\ x.mag = 0
    BY DEF SignedOf, Signed
  <2>4. /\ {y.mag, x.mag} # {Nan, Inf} /\ y.mag \notin {Nan, Inf}
        /\ x.neg /\ ~left => x.mag = 0
    BY <1>3 DEF IsNan
  <2>5. QED
    BY <2>2, <2>3, <2>4
<1>4. QED
  BY <1>1, <1>2, <1>3

(* x86 and RVV, which look at the sign bit, miss nothing but NaN with      *)
(* infinity.                                                               *)
LEMMA SignBitRight ==
  ASSUME NEW y \in SignedOf(Sizes), NEW x \in SignedOf(Sizes)
  PROVE  SameAngle(SignBitAtan2(y, x), Atan2(y, x)) # ({y.mag, x.mag} = {Nan, Inf})
<1>1. x = Signed(TRUE, 0) => x.neg
  BY DEF Signed
<1>2. x.neg \in BOOLEAN /\ SignBitAtan2(y, x) = VectorAtan2(y, x, x.neg)
  BY Parts DEF SignBitAtan2
<1>3. PICK left \in BOOLEAN : left = x.neg
  BY <1>2
<1>4. SameAngle(VectorAtan2(y, x, left), Atan2(y, x)) #
        \/ {y.mag, x.mag} = {Nan, Inf}
        \/ x = Signed(TRUE, 0) /\ ~left /\ y.mag \notin {Nan, Inf}
  BY <1>3, VectorRight
<1>5. QED
  BY <1>1, <1>2, <1>3, <1>4

(* NEON compares with zero, and so misses -0 as well.                      *)
LEMMA NeonRight ==
  ASSUME NEW y \in SignedOf(Sizes), NEW x \in SignedOf(Sizes)
  PROVE  SameAngle(NeonAtan2(y, x), Atan2(y, x)) #
           \/ {y.mag, x.mag} = {Nan, Inf}
           \/ x = Signed(TRUE, 0) /\ y.mag \notin {Nan, Inf}
<1> DEFINE left == x.neg /\ x.mag # 0 /\ ~IsNan(x)
<1>1. left \in BOOLEAN /\ (left => x.neg) /\ (x.neg /\ x.mag \notin {0, Nan} => left)
  BY Parts DEF IsNan
<1>2. NeonAtan2(y, x) = VectorAtan2(y, x, left)
  BY DEF NeonAtan2
<1>3. x = Signed(TRUE, 0) => ~left
  BY DEF Signed
<1> HIDE DEF left
<1>4. QED
  BY <1>1, <1>2, <1>3, VectorRight
-----------------------------------------------------------------------------
(* Each step of the specification leads to a state with AngleRight: sin,   *)
(* cos and tan ...                                                         *)
LEMMA TurnSteps ==
  ASSUME NEW j \in Arguments, Sin(j) \/ Cos(j) \/ Tan(j)
  PROVE  AngleRight'
<1>1. Odd(j)
  BY ArgumentsAssumption DEF Odd
<1>2. CASE Sin(j)
  <2>1. /\ asked' = [func |-> "sin", args |-> <<j>>]
        /\ answers' = [quadrant |-> QuadrantSin(j), rvv |-> RvvSin(j)]
    BY <1>2 DEF Sin, Answer, Question
  <2>2. Wanted' = Sine(j)
    BY <2>1 DEF Wanted
  <2>3. \A way : Misses(way)' <=> way = "rvv" /\ RvvSinMiss(j)
    BY <2>1 DEF Misses
  <2>4. \A way : IsRight(way)' <=> answers'[way] = Sine(j)
    BY <2>1, <2>2 DEF IsRight
  <2>5. DOMAIN answers' = {"quadrant", "rvv"}
    BY <2>1
  <2>6. ASSUME NEW way \in {"quadrant", "rvv"}
        PROVE  IsRight(way)' # Misses(way)'
    <3>1. CASE way = "quadrant"
      BY <1>1, <2>1, <2>2, <2>3, <2>4, <3>1, QuadrantSinRight
    <3>2. CASE way = "rvv"
      <4>1. IsRight(way)' <=> RvvSin(j) = Sine(j)
        BY <2>1, <2>2, <2>4, <3>2
      <4>2. Misses(way)' <=> RvvSinMiss(j)
        BY <2>3, <3>2
      <4>3. RvvSin(j) = Sine(j) <=> ~RvvSinMiss(j)
        BY <1>1, RvvSinMissed
      <4>4. QED
        BY <4>1, <4>2, <4>3
    <3>3. QED
      BY <3>1, <3>2
  <2>7. QED
    BY <2>5, <2>6 DEF AngleRight
<1>3. CASE Cos(j)
  <2>1. /\ asked' = [func |-> "cos", args |-> <<j>>]
        /\ answers' = [quadrant |-> QuadrantCos(j), rvv |-> RvvCos(j)]
    BY <1>3 DEF Cos, Answer, Question
  <2>2. Wanted' = Cosine(j)
    BY <2>1 DEF Wanted
  <2>3. \A way : Misses(way)' <=> way = "rvv" /\ RvvCosMiss(j)
    BY <2>1 DEF Misses
  <2>4. \A way : IsRight(way)' <=> answers'[way] = Cosine(j)
    BY <2>1, <2>2 DEF IsRight
  <2>5. DOMAIN answers' = {"quadrant", "rvv"}
    BY <2>1
  <2>6. ASSUME NEW way \in {"quadrant", "rvv"}
        PROVE  IsRight(way)' # Misses(way)'
    <3>1. CASE way = "quadrant"
      BY <1>1, <2>1, <2>2, <2>3, <2>4, <3>1, QuadrantCosRight
    <3>2. CASE way = "rvv"
      <4>1. IsRight(way)' <=> RvvCos(j) = Cosine(j)
        BY <2>1, <2>2, <2>4, <3>2
      <4>2. Misses(way)' <=> RvvCosMiss(j)
        BY <2>3, <3>2
      <4>3. RvvCos(j) = Cosine(j) <=> ~RvvCosMiss(j)
        BY <1>1, RvvCosMissed
      <4>4. QED
        BY <4>1, <4>2, <4>3
    <3>3. QED
      BY <3>1, <3>2
  <2>7. QED
    BY <2>5, <2>6 DEF AngleRight
<1>4. CASE Tan(j)
  <2>1. /\ asked' = [func |-> "tan", args |-> <<j>>]
        /\ answers' = [x86 |-> X86Tan(j), neon |-> NeonTan(j), rvv |-> RvvTan(j)]
    BY <1>4 DEF Tan, Answer, Question
  <2>2. Wanted' = Tangent(j)
    BY <2>1 DEF Wanted
  <2>3. \A way : Misses(way)' <=>
        \/ way = "rvv" /\ (RvvSinMiss(j) \/ RvvCosMiss(j))
        \/ way = "x86" /\ j < 0 /\ Bit(CutOff(-j, QuarterPi), 4)
    BY <2>1 DEF Misses
  <2>4. \A way : IsRight(way)' <=> answers'[way] = Tangent(j)
    BY <2>1, <2>2 DEF IsRight
  <2>5. DOMAIN answers' = {"x86", "neon", "rvv"}
    BY <2>1
  <2>6. ASSUME NEW way \in {"x86", "neon", "rvv"}
        PROVE  IsRight(way)' # Misses(way)'
    <3>1. CASE way = "x86"
      BY <1>1, <2>1, <2>2, <2>3, <2>4, <3>1, X86TanMissed
    <3>2. CASE way = "neon"
      BY <1>1, <2>1, <2>2, <2>3, <2>4, <3>2, NeonTanRight
    <3>3. CASE way = "rvv"
      <4>1. IsRight(way)' <=> RvvTan(j) = Tangent(j)
        BY <2>1, <2>2, <2>4, <3>3
      <4>2. Misses(way)' <=> (RvvSinMiss(j) \/ RvvCosMiss(j))
        BY <2>3, <3>3
      <4>3. (RvvTan(j) = Tangent(j)) # (RvvSinMiss(j) \/ RvvCosMiss(j))
        BY <1>1, RvvTanMissed
      <4>4. QED
        BY <4>1, <4>2, <4>3, Zenon
    <3>4. QED
      BY <3>1, <3>2, <3>3
  <2>7. QED
    BY <2>5, <2>6 DEF AngleRight
<1>5. QED
  BY <1>2, <1>3, <1>4

(* ... asin, acos and atan ...                                             *)
LEMMA ArcSteps ==
  ASSUME NEW x, \/ x \in SignedOf(ArcArguments) /\ (Asin(x) \/ Acos(x))
                \/ x \in SignedOf(0 .. HalfPi \cup {Nan}) /\ Atan(x)
  PROVE  AngleRight'
<1>1. CASE x \in SignedOf(ArcArguments) /\ Asin(x)
  <2>1. /\ asked' = [func |-> "asin", args |-> <<x>>]
        /\ answers' = [scalar |-> ScalarAsin(x), vector |-> VectorAsin(x)]
    BY <1>1 DEF Asin, Answer, Question
  <2>2. Wanted' = IF x.mag = Outside THEN NotANumber ELSE x
    BY <2>1 DEF Wanted
  <2>3. \A way : Misses(way)' <=> FALSE
    BY <2>1 DEF Misses
  <2>4. \A way : IsRight(way)' <=> SameAngle(answers'[way], Wanted')
    BY <2>1, <2>2 DEF IsRight
  <2>5. DOMAIN answers' = {"scalar", "vector"}
    BY <2>1
  <2>6. QED
    BY <1>1, <2>1, <2>2, <2>3, <2>4, <2>5, AsinRight DEF AngleRight
<1>2. CASE x \in SignedOf(ArcArguments) /\ Acos(x)
  <2>1. /\ asked' = [func |-> "acos", args |-> <<x>>]
        /\ answers' = [scalar |-> ScalarAcos(x), vector |-> VectorAcos(x)]
    BY <1>2 DEF Acos, Answer, Question
  <2>2. Wanted' = IF x.mag = Outside THEN NotANumber
                ELSE SubSigned(Signed(FALSE, HalfPi), x)
    BY <2>1 DEF Wanted
  <2>3. \A way : Misses(way)' <=> FALSE
    BY <2>1 DEF Misses
  <2>4. \A way : IsRight(way)' <=> SameAngle(answers'[way], Wanted')
    BY <2>1, <2>2 DEF IsRight
  <2>5. DOMAIN answers' = {"scalar", "vector"}
    BY <2>1
  <2>6. ASSUME NEW way \in {"scalar", "vector"}
        PROVE  IsRight(way)' # Misses(way)'
    <3>1. CASE way = "scalar"
      BY <1>2, <2>1, <2>2, <2>3, <2>4, <3>1, AcosRight
    <3>2. CASE way = "vector"
      BY <1>2, <2>1, <2>2, <2>3, <2>4, <3>2, AcosRight
    <3>3. QED
      BY <3>1, <3>2
  <2>7. QED
    BY <2>5, <2>6 DEF AngleRight
<1>3. CASE x \in SignedOf(0 .. HalfPi \cup {Nan}) /\ Atan(x)
  <2>1. /\ asked' = [func |-> "atan", args |-> <<x>>]
        /\ answers' = [scalar |-> ScalarAtan(x), vector |-> VectorAtan(x)]
    BY <1>3 DEF Atan, Answer, Question
  <2>2. Wanted' = x
    BY <2>1 DEF Wanted
  <2>3. \A way : Misses(way)' <=> FALSE
    BY <2>1 DEF Misses
  <2>4. \A way : IsRight(way)' <=> SameAngle(answers'[way], Wanted')
    BY <2>1, <2>2 DEF IsRight
  <2>5. DOMAIN answers' = {"scalar", "vector"}
    BY <2>1
  <2>6. QED
    BY <1>3, <2>1, <2>2, <2>3, <2>4, <2>5, AtanRight DEF AngleRight
<1>4. QED
  BY <1>1, <1>2, <1>3

(* ... and atan2.                                                          *)
LEMMA ArcTan2Step ==
  ASSUME NEW y \in SignedOf(Sizes), NEW x \in SignedOf(Sizes), ArcTan2(y, x)
  PROVE  AngleRight'
<1>1. /\ asked' = [func |-> "atan2", args |-> <<y, x>>]
      /\ answers' = [scalar |-> ScalarAtan2(y, x), sign_bit |-> SignBitAtan2(y, x),
                     neon |-> NeonAtan2(y, x)]
  BY DEF ArcTan2, Answer, Question
<1>2. Wanted' = Atan2(y, x)
  BY <1>1 DEF Wanted
<1>3. \A way : Misses(way)' <=>
        \/ way # "scalar" /\ {y.mag, x.mag} = {Nan, Inf}
        \/ way = "neon" /\ x = Signed(TRUE, 0) /\ y.mag \notin {Nan, Inf}
        \/ way = "scalar" /\ x = Signed(TRUE, 0) /\ y.mag = 0
        \/ way = "scalar" /\ x.mag = Tiny /\ y.mag = Huge /\ y.neg # x.neg
  BY <1>1 DEF Misses
<1>4. \A way : IsRight(way)' <=> SameAngle(answers'[way], Wanted')
  BY <1>1 DEF IsRight
<1>5. DOMAIN answers' = {"scalar", "sign_bit", "neon"}
  BY <1>1
<1>6. ASSUME NEW way \in {"scalar", "sign_bit", "neon"}
      PROVE  IsRight(way)' # Misses(way)'
  <2>1. CASE way = "scalar"
    BY <1>1, <1>2, <1>3, <1>4, <2>1, ScalarRight
  <2>2. CASE way = "sign_bit"
    BY <1>1, <1>2, <1>3, <1>4, <2>2, SignBitRight
  <2>3. CASE way = "neon"
    BY <1>1, <1>2, <1>3, <1>4, <2>3, NeonRight
  <2>4. QED
    BY <2>1, <2>2, <2>3
<1>7. QED
  BY <1>5, <1>6 DEF AngleRight

-----------------------------------------------------------------------------
(* The points of tanh are what they should be, up to the sign of NaN and   *)
(* of zero: a fraction where it is not steep, the series' value always.    *)
LEMMA TanhValues ==
  ASSUME NEW x \in SignedOf(TanhSizes)
  PROVE  /\ SameAngle(ContinuedFraction(x), Tanh(x)) <=> ~Steep(x)
         /\ SameAngle(SeriesOf(x), Tanh(x))
         /\ Steep(x) => SeriesOf(x) = Tanh(x)
<1> USE DEF SameAngle, Tanh, SeriesOf, ContinuedFraction, Steep, CopySign, Signed, NotANumber,
      Limit, Off, Nan, Huge, Inf
<1>1. CASE x.mag = Inf
  BY <1>1
<1>2. CASE x.mag = Huge
  BY <1>2
<1>3. CASE x.mag \notin {Huge, Inf}
  BY <1>3
<1>4. QED
  BY <1>1, <1>2, <1>3

(* Two points that follow each other: the series keeps to the first if it  *)
(* is steep, the vectors leave tanh where either is.                       *)
LEMMA TanhStep ==
  ASSUME NEW x \in SignedOf(TanhSizes), NEW y \in SignedOf(TanhSizes), TanhOfTwo(x, y)
  PROVE  AngleRight'
<1>1. /\ asked' = [func |-> "tanh", args |-> <<x, y>>]
      /\ answers' = [series |-> SeriesTanh(x, y), vector |-> VectorTanh(x, y)]
  BY DEF TanhOfTwo, Answer, Question
<1>2. Wanted' = <<Tanh(x), Tanh(y)>>
  BY <1>1 DEF Wanted
<1>3. \A way : Misses(way)' <=>
        \/ way = "series" /\ Steep(x) /\ ~SameAngle(Tanh(x), Tanh(y))
        \/ way = "vector" /\ (Steep(x) \/ Steep(y))
  BY <1>1 DEF Misses
<1>4. \A way : IsRight(way)' <=> \A p \in 1 .. 2 : SameAngle(answers'[way][p], Wanted'[p])
  BY <1>1 DEF IsRight
<1>5. DOMAIN answers' = {"series", "vector"}
  BY <1>1
<1>6. IsRight("series")' # Misses("series")'
  <2> DEFINE second == SeriesOf(IF Steep(x) THEN x ELSE y)
  <2>1. answers'["series"] = <<SeriesOf(x), second>>
    BY <1>1 DEF SeriesTanh
  <2>2. IsRight("series")' <=> SameAngle(SeriesOf(x), Tanh(x)) /\ SameAngle(second, Tanh(y))
    <3> HIDE DEF second
    <3>1. QED
      BY <1>2, <1>4, <2>1
  <2>3. IsRight("series")' <=> ~Steep(x) \/ SameAngle(Tanh(x), Tanh(y))
    BY <2>2, TanhValues
  <2>4. QED
    BY <1>3, <2>3
<1>7. IsRight("vector")' # Misses("vector")'
  <2>1. IsRight("vector")' <=>
          SameAngle(ContinuedFraction(x), Tanh(x)) /\ SameAngle(ContinuedFraction(y), Tanh(y))
    BY <1>1, <1>2, <1>4 DEF VectorTanh
  <2>2. QED
    BY <1>3, <2>1, TanhValues
<1>8. QED
  BY <1>5, <1>6, <1>7 DEF AngleRight

(* At every argument, however large, each implementation of the            *)
(* trigonometric kernels and of tanh gives the right quadrant, sign and    *)
(* special value, but for the arguments that Misses names, and there it    *)
(* never does.                                                             *)
THEOREM AnglesRight == AngleSpec => []AngleRight
<1>1. AngleInit => AngleRight
  BY DEF AngleInit, AngleRight
<1>2. AngleRight /\ [AngleNext]_angleVars => AngleRight'
  <2> SUFFICES ASSUME AngleRight, [AngleNext]_angleVars
               PROVE  AngleRight'
    OBVIOUS
  <2>1. ASSUME NEW j \in Arguments, Sin(j) \/ Cos(j) \/ Tan(j)
        PROVE  AngleRight'
    BY <2>1, TurnSteps
  <2>2. ASSUME NEW x \in SignedOf(ArcArguments), Asin(x) \/ Acos(x)
        PROVE  AngleRight'
    BY <2>2, ArcSteps
  <2>3. ASSUME NEW x \in SignedOf(0 .. HalfPi \cup {Nan}), Atan(x)
        PROVE  AngleRight'
    BY <2>3, ArcSteps
  <2>4. ASSUME NEW y \in SignedOf(Sizes), NEW x \in SignedOf(Sizes), ArcTan2(y, x)
        PROVE  AngleRight'
    BY <2>4, ArcTan2Step
  <2>5. ASSUME NEW x \in SignedOf(TanhSizes), NEW y \in SignedOf(TanhSizes), TanhOfTwo(x, y)
        PROVE  AngleRight'
    BY <2>5, TanhStep
  <2>6. CASE NextQuestion
    BY <2>6 DEF NextQuestion, AngleRight
  <2>7. CASE UNCHANGED angleVars
    <3>1. asked' = asked /\ answers' = answers
      BY <2>7 DEF angleVars
    <3>2. Wanted' = Wanted
      BY <3>1 DEF Wanted
    <3>3. \A way : Misses(way)' <=> Misses(way)
      BY <3>1 DEF Misses
    <3>4. \A way : IsRight(way)' <=> IsRight(way)
      BY <3>1, <3>2 DEF IsRight
    <3>5. QED
      BY <3>1, <3>3, <3>4 DEF AngleRight
  <2>8. QED
    BY <2>1, <2>2, <2>3, <2>4, <2>5, <2>6, <2>7 DEF AngleNext, ArcArguments
<1>3. QED
  BY <1>1, <1>2, PTL DEF AngleSpec
===============================================================================
