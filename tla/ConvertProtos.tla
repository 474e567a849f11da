---------------------------- MODULE ConvertProtos -----------------------------
(***************************************************************************)
(* The proto-kernels between floats and integers: what generic computes    *)
(* for a point, what the vectors hold, and one definition per C function,  *)
(* named like it.                                                          *)
(*                                                                         *)
(* Nearest is to the nearest integer of the output's range: which one is   *)
(* taken in the middle between two (the even one, or for some NEON vectors *)
(* the one farther from zero) is left out, and so is that kernels whose    *)
(* generic does not clip differ outside the range.                         *)
(***************************************************************************)
EXTENDS MoveProtos

(* packs narrows two vectors, in every 128 bits, which are g of their      *)
(* lanes each, on its own; permute4x64 puts the quarters of the result in  *)
(* order.  srli_si128 moves the lanes down by n.  The 128-bit registers    *)
(* are whole vectors here.                                                 *)
Pack(x, y, g) ==
  [l \in 1 .. 2 * Len(x) |->
     LET k == (l - 1) % (2 * g)
     IN  (IF k < g THEN x ELSE y)[((l - 1) \div (2 * g)) * g + (k % g) + 1]]
PackInOrder(x, y, g) == Quarters(Pack(x, y, g), <<0, 2, 1, 3>>)
Down(x, n) == [l \in DOMAIN x |-> IF l + n <= Len(x) THEN x[l + n] ELSE Zero]
First(x, n) == SubSeq(x, 1, n)
(* The nearest integer.                                                    *)
Nearest(x) == Apply("nearest", <<x>>)
Converted(x) == Nearest(x ** Scalar)
Integers16 == Unary(Converted)
Integers16V(w) == UnaryV(Converted, w)
Integers16Avx2(w) ==
  LET h == w \div 2
  IN  <<PackInOrder(Each(Converted, Load(1, 0, h)), Each(Converted, Load(1, h, h)), 4)>>
Integers16Avx(w) ==
  LET x == Each(Converted, Load(1, 0, w)) IN <<Pack(Low(x), High(x), 4)>>
Integers16Sse2(w) ==
  LET h == w \div 2
  IN  <<Pack(Each(Converted, Load(1, 0, h)), Each(Converted, Load(1, h, h)), 4)>>
volk_32f_s32f_convert_16i_u_avx2 == Vec(Integers16, Integers16Avx2, 16)
volk_32f_s32f_convert_16i_u_avx512 == Vec(Integers16, Integers16V, 16)
volk_32f_s32f_convert_16i_u_avx == Vec(Integers16, Integers16Avx, 8)
volk_32f_s32f_convert_16i_u_sse2 == Vec(Integers16, Integers16Sse2, 8)
volk_32f_s32f_convert_16i_u_sse == Vec(Integers16, Integers16V, 4)
volk_32f_s32f_convert_16i_generic == Generic(Integers16)
volk_32f_s32f_convert_16i_a_avx2 == Vec(Integers16, Integers16Avx2, 16)
volk_32f_s32f_convert_16i_a_avx512 == Vec(Integers16, Integers16V, 16)
volk_32f_s32f_convert_16i_a_avx == Vec(Integers16, Integers16Avx, 8)
volk_32f_s32f_convert_16i_a_sse2 == Vec(Integers16, Integers16Sse2, 8)
volk_32f_s32f_convert_16i_a_sse == Vec(Integers16, Integers16V, 4)
volk_32f_s32f_convert_16i_neon == Vec(Integers16, Integers16V, 8)
volk_32f_s32f_convert_16i_neonv8 == Vec(Integers16, Integers16V, 16)
volk_32f_s32f_convert_16i_rvv == Rvv(Integers16, Integers16V)

(* Four vectors to one of 8-bit integers.                                  *)
FourAvx2(Op(_), w) ==
  LET q == w \div 4
      x(k) == Each(Op, Load(1, k * q, q))
  IN  <<PackInOrder(PackInOrder(x(0), x(1), 4), PackInOrder(x(2), x(3), 4), 8)>>
FourSse2(Op(_), w) ==
  LET q == w \div 4
      x(k) == Each(Op, Load(1, k * q, q))
  IN  <<Pack(Pack(x(0), x(1), 4), Pack(x(2), x(3), 4), 8)>>
Integers8Avx2(w) == FourAvx2(Converted, w)
Integers8Sse2(w) == FourSse2(Converted, w)
volk_32f_s32f_convert_8i_generic == Generic(Integers16)
volk_32f_s32f_convert_8i_u_avx2 == Vec(Integers16, Integers8Avx2, 32)
volk_32f_s32f_convert_8i_u_avx512 == Vec(Integers16, Integers16V, 32)
volk_32f_s32f_convert_8i_u_sse2 == Vec(Integers16, Integers8Sse2, 16)
volk_32f_s32f_convert_8i_u_sse == Vec(Integers16, Integers16V, 4)
volk_32f_s32f_convert_8i_a_avx2 == Vec(Integers16, Integers8Avx2, 32)
volk_32f_s32f_convert_8i_a_avx512 == Vec(Integers16, Integers16V, 32)
volk_32f_s32f_convert_8i_a_sse2 == Vec(Integers16, Integers8Sse2, 16)
volk_32f_s32f_convert_8i_a_sse == Vec(Integers16, Integers16V, 4)
volk_32f_s32f_convert_8i_neon == Vec(Integers16, Integers16V, 16)
volk_32f_s32f_convert_8i_neonv8 == Vec(Integers16, Integers16V, 32)
volk_32f_s32f_convert_8i_rvv == Rvv(Integers16, Integers16V)

(* Scale and bias.  (The vectors of the neon kernel convert towards zero:  *)
(* they have no definition here.)                                          *)
Biased(x) == Nearest(x ** Scalar ++ Atom(<<"bias", <<>>>>))
Bytes == Unary(Biased)
BytesV(w) == UnaryV(Biased, w)
BytesPackedAvx2(w) == FourAvx2(Biased, w)
BytesPackedSse2(w) == FourSse2(Biased, w)
volk_32f_s32f_x2_convert_8u_generic == Generic(Bytes)
volk_32f_s32f_x2_convert_8u_u_avx2_fma == Vec(Bytes, BytesPackedAvx2, 32)
volk_32f_s32f_x2_convert_8u_u_avx2 == Vec(Bytes, BytesPackedAvx2, 32)
volk_32f_s32f_x2_convert_8u_u_sse2 == Vec(Bytes, BytesPackedSse2, 16)
volk_32f_s32f_x2_convert_8u_u_sse == Vec(Bytes, BytesV, 4)
volk_32f_s32f_x2_convert_8u_a_avx2_fma == Vec(Bytes, BytesPackedAvx2, 32)
volk_32f_s32f_x2_convert_8u_a_avx2 == Vec(Bytes, BytesPackedAvx2, 32)
volk_32f_s32f_x2_convert_8u_a_sse2 == Vec(Bytes, BytesPackedSse2, 16)
volk_32f_s32f_x2_convert_8u_a_sse == Vec(Bytes, BytesV, 4)
volk_32f_s32f_x2_convert_8u_neonv8 == Vec(Bytes, BytesV, 16)
volk_32f_s32f_x2_convert_8u_rvv == Rvv(Bytes, BytesV)

(* Integers to floats, divided by a scalar.                                *)
Floating == Unary(Fraction)
FloatingV(w) == UnaryV(Fraction, w)
FloatingHalves(w) ==
  LET x == Load(1, 0, w)
      h == w \div 2
  IN  <<Each(Fraction, First(x, h)) \o Each(Fraction, First(Down(x, h), h))>>
FloatingNeon(w) ==
  <<Weave(<<Each(Fraction, Every(Load(1, 0, w), 2, 0)), Each(Fraction, Every(Load(1, 0, w), 2, 1))>>)>>
volk_16i_s32f_convert_32f_u_avx2 == Vec(Floating, FloatingV, 8)
volk_16i_s32f_convert_32f_u_avx512 == Vec(Floating, FloatingV, 16)
volk_16i_s32f_convert_32f_u_avx == Vec(Floating, FloatingHalves, 8)
volk_16i_s32f_convert_32f_u_sse4_1 == Vec(Floating, FloatingHalves, 8)
volk_16i_s32f_convert_32f_u_sse == Vec(Floating, FloatingV, 4)
volk_16i_s32f_convert_32f_generic == Generic(Floating)
volk_16i_s32f_convert_32f_neon == Vec(Floating, FloatingNeon, 8)
volk_16i_s32f_convert_32f_neonv8 == Vec2(Floating, FloatingV, 8, 4)
volk_16i_s32f_convert_32f_a_avx2 == Vec(Floating, FloatingV, 8)
volk_16i_s32f_convert_32f_a_avx512 == Vec(Floating, FloatingV, 16)
volk_16i_s32f_convert_32f_a_avx == Vec(Floating, FloatingHalves, 8)
volk_16i_s32f_convert_32f_a_sse4_1 == Vec(Floating, FloatingHalves, 8)
volk_16i_s32f_convert_32f_a_sse == Vec(Floating, FloatingV, 4)
volk_16i_s32f_convert_32f_rvv == Rvv(Floating, FloatingV)

FloatingQuarters(w) ==
  LET q == w \div 4
      x0 == Load(1, 0, w)
      x1 == Down(x0, q)
      x2 == Down(x1, q)
      x3 == Down(x2, q)
      F(x) == Each(Fraction, First(x, q))
  IN  <<F(x0) \o F(x1) \o F(x2) \o F(x3)>>
volk_8i_s32f_convert_32f_u_avx2 == Vec(Floating, FloatingHalves, 16)
volk_8i_s32f_convert_32f_u_avx512 == Vec(Floating, FloatingV, 16)
volk_8i_s32f_convert_32f_u_sse4_1 == Vec(Floating, FloatingQuarters, 16)
volk_8i_s32f_convert_32f_generic == Generic(Floating)
volk_8i_s32f_convert_32f_a_avx2 == Vec(Floating, FloatingHalves, 16)
volk_8i_s32f_convert_32f_a_avx512 == Vec(Floating, FloatingV, 16)
volk_8i_s32f_convert_32f_a_sse4_1 == Vec(Floating, FloatingQuarters, 16)
volk_8i_s32f_convert_32f_neon == Vec(Floating, FloatingV, 16)
volk_8i_s32f_convert_32f_neonv8 == Vec(Floating, FloatingV, 32)
volk_8i_s32f_convert_32f_rvv == Rvv(Floating, FloatingV)

volk_32i_s32f_convert_32f_u_avx512f == Vec(Floating, FloatingV, 16)
volk_32i_s32f_convert_32f_u_avx2 == Vec(Floating, FloatingV, 8)
volk_32i_s32f_convert_32f_u_sse2 == Vec(Floating, FloatingV, 4)
volk_32i_s32f_convert_32f_generic == Generic(Floating)
volk_32i_s32f_convert_32f_a_avx512f == Vec(Floating, FloatingV, 16)
volk_32i_s32f_convert_32f_a_avx2 == Vec(Floating, FloatingV, 8)
volk_32i_s32f_convert_32f_a_sse2 == Vec(Floating, FloatingV, 4)
volk_32i_s32f_convert_32f_neon == Vec(Floating, FloatingV, 4)
volk_32i_s32f_convert_32f_neonv8 == Vec(Floating, FloatingV, 8)
volk_32i_s32f_convert_32f_rvv == Rvv(Floating, FloatingV)

(* Complex numbers to 16-bit parts and back.                               *)
NearestParts == EachPoint(LAMBDA p : << <<Nearest(In(1, 2 * p)), Nearest(In(1, 2 * p + 1))>> >>)
NearestPartsV(w) == <<Each(Nearest, Points(1, w))>>
NearestPartsAvx2(w) ==
  <<PackInOrder(Each(Nearest, Load(1, 0, w)), Each(Nearest, Load(1, w, w)), 4)>>
NearestPartsSse2(w) ==
  <<Pack(Each(Nearest, Load(1, 0, w)), Each(Nearest, Load(1, w, w)), 4)>>
volk_32fc_convert_16ic_a_avx2 == Vec(NearestParts, NearestPartsAvx2, 8)
volk_32fc_convert_16ic_a_avx512 == Vec(NearestParts, NearestPartsV, 8)
volk_32fc_convert_16ic_a_sse2 == Vec(NearestParts, NearestPartsSse2, 4)
volk_32fc_convert_16ic_neon == Vec(NearestParts, NearestPartsV, 4)
volk_32fc_convert_16ic_neonv8 == Vec(NearestParts, NearestPartsV, 4)
volk_32fc_convert_16ic_generic == Generic(NearestParts)
volk_32fc_convert_16ic_u_avx2 == Vec(NearestParts, NearestPartsAvx2, 8)
volk_32fc_convert_16ic_u_avx512 == Vec(NearestParts, NearestPartsV, 8)
volk_32fc_convert_16ic_u_sse2 == Vec(NearestParts, NearestPartsSse2, 4)
volk_32fc_convert_16ic_rvv == Rvv(NearestParts, NearestPartsV)

Floated(x) == Apply("float", <<x>>)
FloatedParts == EachPoint(LAMBDA p : << <<Floated(In(1, 2 * p)), Floated(In(1, 2 * p + 1))>> >>)
FloatedPartsV(w) == <<Each(Floated, Points(1, w))>>
volk_16ic_convert_32fc_a_avx2 == Vec(FloatedParts, FloatedPartsV, 4)
volk_16ic_convert_32fc_a_avx512 == Vec(FloatedParts, FloatedPartsV, 8)
volk_16ic_convert_32fc_generic == Generic(FloatedParts)
volk_16ic_convert_32fc_a_sse2 == Vec(FloatedParts, FloatedPartsV, 2)
volk_16ic_convert_32fc_a_avx == Vec(FloatedParts, FloatedPartsV, 4)
volk_16ic_convert_32fc_neon == Vec(FloatedParts, FloatedPartsV, 8)
volk_16ic_convert_32fc_neonv8 == Vec(FloatedParts, FloatedPartsV, 8)
volk_16ic_convert_32fc_u_avx2 == Vec(FloatedParts, FloatedPartsV, 4)
volk_16ic_convert_32fc_u_avx512 == Vec(FloatedParts, FloatedPartsV, 8)
volk_16ic_convert_32fc_u_sse2 == Vec(FloatedParts, FloatedPartsV, 2)
volk_16ic_convert_32fc_u_avx == Vec(FloatedParts, FloatedPartsV, 4)
volk_16ic_convert_32fc_rvv == Rvv(FloatedParts, FloatedPartsV)

(* Two inputs, scaled, to complex numbers of 16-bit parts.                 *)
JoinedScaled == EachPoint(LAMBDA p : << <<Converted(In(1, p)), Converted(In(2, p))>> >>)
JoinedScaledPlanes(w) ==
  <<Weave(<<Each(Converted, Load(1, 0, w)), Each(Converted, Load(2, 0, w))>>)>>
JoinedScaledAvx2(w) ==
  LET x == Load(1, 0, w)
      y == Load(2, 0, w)
  IN  <<Pack(Each(Converted, UnpackLow(x, y, 4)), Each(Converted, UnpackHigh(x, y, 4)), 4)>>
JoinedScaledSse(w) == <<Each(Converted, JoinedSse(w)[1])>>
volk_32f_x2_s32f_interleave_16ic_a_avx2 == Vec(JoinedScaled, JoinedScaledAvx2, 8)
volk_32f_x2_s32f_interleave_16ic_a_sse2 == Vec(JoinedScaled, JoinedScaledAvx2, 4)
volk_32f_x2_s32f_interleave_16ic_a_sse == Vec(JoinedScaled, JoinedScaledSse, 4)
volk_32f_x2_s32f_interleave_16ic_generic == Generic(JoinedScaled)
volk_32f_x2_s32f_interleave_16ic_u_avx2 == Vec(JoinedScaled, JoinedScaledAvx2, 8)
volk_32f_x2_s32f_interleave_16ic_neon == Vec(JoinedScaled, JoinedScaledPlanes, 4)
volk_32f_x2_s32f_interleave_16ic_neonv8 == Vec(JoinedScaled, JoinedScaledPlanes, 8)
volk_32f_x2_s32f_interleave_16ic_rvv == Rvv(JoinedScaled, JoinedScaledPlanes)
volk_32f_x2_s32f_interleave_16ic_rvvseg == Rvv(JoinedScaled, JoinedScaledPlanes)

(* A vector packed with itself; permutevar8x32 brings both copies of its   *)
(* low parts, two lanes at a time, to the front.                           *)
PackSelf(x) == Low(Gather(Pack(x, x, 4), Wide(<<0, 4, 1, 5, 3, 3, 3, 3>>, 2)))
RealScaled == EachPoint(LAMBDA p : << <<Converted(In(1, 2 * p))>> >>)
RealScaledPlane(w) == <<Each(Converted, Reals(1, w))>>
RealScaledAvx2(w) ==
  <<PackSelf(Each(Converted, Picked(Load(1, 0, w), Load(1, w, w), 0)))>>
RealScaledSse(w) == <<Each(Converted, Picked(Load(1, 0, w), Load(1, w, w), 0))>>
volk_32fc_s32f_deinterleave_real_16i_a_avx2 == Vec(RealScaled, RealScaledAvx2, 8)
volk_32fc_s32f_deinterleave_real_16i_a_sse == Vec(RealScaled, RealScaledSse, 4)
volk_32fc_s32f_deinterleave_real_16i_generic == Generic(RealScaled)
volk_32fc_s32f_deinterleave_real_16i_u_avx2 == Vec(RealScaled, RealScaledAvx2, 8)
volk_32fc_s32f_deinterleave_real_16i_neon == Vec(RealScaled, RealScaledPlane, 4)
volk_32fc_s32f_deinterleave_real_16i_neonv8 == Vec(RealScaled, RealScaledPlane, 8)
volk_32fc_s32f_deinterleave_real_16i_rvv == Rvv(RealScaled, RealScaledPlane)

(* Magnitudes of complex numbers of 16-bit parts, and as 16-bit integers.  *)
MagnitudeFraction == EachPoint(LAMBDA p : << <<Root(AbsSquared(<<Fraction(In(1, 2 * p)), Fraction(In(1, 2 * p + 1))>>))>> >>)
MagnitudeFractionAvx2(w) ==
  LET x == Each(Fraction, Points(1, w))
  IN  <<Each(Root, magnitudesquared_ps_avx2(Low(x), High(x)))>>
MagnitudeFractionSse3(w) ==
  LET x == Each(Fraction, Points(1, w))
  IN  <<Each(Root, magnitudesquared_ps_sse3(Low(x), High(x)))>>
MagnitudeFractionSse(w) ==
  LET x(k) == Each(Fraction, Picked(Load(1, 0, w), Load(1, w, w), k))
  IN  <<Each(Root, Plus(Each(Square, x(0)), Each(Square, x(1))))>>
MagnitudeFractionPlanes(w) ==
  LET x(y) == Each(Square, Each(Fraction, y))
  IN  <<Each(Root, Plus(x(Reals(1, w)), x(Imags(1, w))))>>
volk_16ic_s32f_magnitude_32f_a_avx2 == Vec(MagnitudeFraction, MagnitudeFractionAvx2, 8)
volk_16ic_s32f_magnitude_32f_a_sse3 == Vec(MagnitudeFraction, MagnitudeFractionSse3, 4)
volk_16ic_s32f_magnitude_32f_a_sse == Vec(MagnitudeFraction, MagnitudeFractionSse, 4)
volk_16ic_s32f_magnitude_32f_generic == Generic(MagnitudeFraction)
volk_16ic_s32f_magnitude_32f_u_avx2 == Vec(MagnitudeFraction, MagnitudeFractionAvx2, 8)
volk_16ic_s32f_magnitude_32f_neon == Vec(MagnitudeFraction, MagnitudeFractionPlanes, 4)
volk_16ic_s32f_magnitude_32f_neonv8 == Vec(MagnitudeFraction, MagnitudeFractionPlanes, 8)
volk_16ic_s32f_magnitude_32f_rvv == Rvv(MagnitudeFraction, MagnitudeFractionPlanes)
volk_16ic_s32f_magnitude_32f_rvvseg == Rvv(MagnitudeFraction, MagnitudeFractionPlanes)

SHRT_MAX == Number(32767)
ShortFraction(x) == x ** Quotient(Number(1), SHRT_MAX)
ShortRoot(x) == Nearest(Root(x) ** SHRT_MAX)
Magnitude16 ==
  EachPoint(LAMBDA p : << <<ShortRoot(AbsSquared(<<ShortFraction(In(1, 2 * p)), ShortFraction(In(1, 2 * p + 1))>>))>> >>)
Magnitude16Avx2(w) ==
  LET x == Each(ShortFraction, Points(1, w))
  IN  <<PackSelf(Each(ShortRoot, magnitudesquared_ps_sse3(Low(x), High(x))))>>
Magnitude16Sse3(w) ==
  LET x == Each(ShortFraction, Points(1, w))
  IN  <<Each(ShortRoot, magnitudesquared_ps_sse3(Low(x), High(x)))>>
Magnitude16Sse(w) ==
  LET x == Each(ShortFraction, Points(1, w))
  IN  <<Each(ShortRoot, magnitudesquared_ps_sse(Low(x), High(x)))>>
Magnitude16Planes(w) ==
  LET x(y) == Each(Square, Each(ShortFraction, y))
  IN  <<Each(ShortRoot, Plus(x(Reals(1, w)), x(Imags(1, w))))>>
volk_16ic_magnitude_16i_a_avx2 == Vec(Magnitude16, Magnitude16Avx2, 8)
volk_16ic_magnitude_16i_a_sse3 == Vec(Magnitude16, Magnitude16Sse3, 4)
volk_16ic_magnitude_16i_a_sse == Vec(Magnitude16, Magnitude16Sse, 4)
volk_16ic_magnitude_16i_generic == Generic(Magnitude16)
volk_16ic_magnitude_16i_u_avx2 == Vec(Magnitude16, Magnitude16Avx2, 8)
volk_16ic_magnitude_16i_neonv7 == Vec(Magnitude16, Magnitude16Planes, 4)
volk_16ic_magnitude_16i_neonv8 == Vec(Magnitude16, Magnitude16Planes, 4)
volk_16ic_magnitude_16i_rvv == Rvv(Magnitude16, Magnitude16Planes)
volk_16ic_magnitude_16i_rvvseg == Rvv(Magnitude16, Magnitude16Planes)

ScaledRoot(x) == Converted(Root(x))
ScaledMagnitude == EachPoint(LAMBDA p : << <<ScaledRoot(AbsSquared(Complex(1, p)))>> >>)
ScaledMagnitudeAvx2(w) ==
  <<PackSelf(Each(ScaledRoot, magnitudesquared_ps_sse3(Load(1, 0, w), Load(1, w, w))))>>
ScaledMagnitudeSse3(w) ==
  <<Each(ScaledRoot, magnitudesquared_ps_sse3(Load(1, 0, w), Load(1, w, w)))>>
ScaledMagnitudeSse(w) ==
  <<Each(ScaledRoot, magnitudesquared_ps_sse(Load(1, 0, w), Load(1, w, w)))>>
ScaledMagnitudePlanes(w) ==
  <<Each(ScaledRoot, Plus(Each(Square, Reals(1, w)), Each(Square, Imags(1, w))))>>
volk_32fc_s32f_magnitude_16i_generic == Generic(ScaledMagnitude)
volk_32fc_s32f_magnitude_16i_a_avx2 == Vec(ScaledMagnitude, ScaledMagnitudeAvx2, 8)
volk_32fc_s32f_magnitude_16i_a_sse3 == Vec(ScaledMagnitude, ScaledMagnitudeSse3, 4)
volk_32fc_s32f_magnitude_16i_a_sse == Vec(ScaledMagnitude, ScaledMagnitudeSse, 4)
volk_32fc_s32f_magnitude_16i_u_avx2 == Vec(ScaledMagnitude, ScaledMagnitudeAvx2, 8)
volk_32fc_s32f_magnitude_16i_neon == Vec(ScaledMagnitude, ScaledMagnitudePlanes, 4)
volk_32fc_s32f_magnitude_16i_neonv8 == Vec(ScaledMagnitude, ScaledMagnitudePlanes, 8)
volk_32fc_s32f_magnitude_16i_rvv == Rvv(ScaledMagnitude, ScaledMagnitudePlanes)
volk_32fc_s32f_magnitude_16i_rvvseg == Rvv(ScaledMagnitude, ScaledMagnitudePlanes)
==============================================================================
