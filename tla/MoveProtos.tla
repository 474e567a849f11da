------------------------------ MODULE MoveProtos ------------------------------
(***************************************************************************)
(* The proto-kernels that take apart and put together complex numbers, and *)
(* scale or widen the parts on the way: what generic computes for a point, *)
(* what the vectors hold, and one definition per C function, named like    *)
(* it.                                                                     *)
(***************************************************************************)
EXTENDS ComplexProtos

(* Lane numbers for shuffle_epi8 in groups of g lanes: the even (k = 0) or *)
(* odd (k = 1) lanes to the first or to the last half of the group, the    *)
(* rest cleared; and the even lanes followed by the odd ones.              *)
ToFirst(g, k) == [l \in 1 .. g |-> IF 2 * l <= g THEN 2 * (l - 1) + k ELSE -1]
ToLast(g, k) == [l \in 1 .. g |-> IF 2 * l > g THEN 2 * (l - 1) - g + k ELSE -1]
Sorted(g) == [l \in 1 .. g |-> IF 2 * l <= g THEN 2 * (l - 1) ELSE 2 * (l - 1) - g + 1]

(* or of vectors of which one is cleared in every lane.                    *)
Filled(x, y) == Lanewise(LAMBDA s, t : IF s = Zero THEN t ELSE IF t = Zero THEN s ELSE Apply("or", <<s, t>>), x, y)
(* Two vectors of complex numbers to one of real (k = 0) or imaginary (k = *)
(* 1) parts: shuffle_ps, whose result permutevar8x32 puts in order if the  *)
(* vectors are of 8 lanes; permute2f128 before shuffle_ps; two shuffles    *)
(* with cleared lanes.                                                     *)
Picked(x, y, k) == ShufflePair(x, y, <<k, k + 2, k, k + 2>>)
PickedInOrder(x, y, k) == Gather(Picked(x, y, k), <<0, 1, 4, 5, 2, 3, 6, 7>>)
PickedOfHalves(x, y, k) == Picked(Halves(x, y, <<0, 2>>), Halves(x, y, <<1, 3>>), k)
Packed(x, y, g, k) == Filled(Shuffle(x, ToFirst(g, k)), Shuffle(y, ToLast(g, k)))
PackedInOrder(x, y, g) == Quarters(Packed(x, y, g, 0), <<0, 2, 1, 3>>)

(* Real and imaginary parts to two outputs.                                *)
Parts == EachPoint(LAMBDA p : << <<In(1, 2 * p)>>, <<In(1, 2 * p + 1)>> >>)
PartsPlanes(w) == <<Reals(1, w), Imags(1, w)>>
PartsGathered(w) ==
  <<Gather(Points(1, w), [l \in 1 .. w |-> 2 * (l - 1)]), Gather(Points(1, w), [l \in 1 .. w |-> 2 * l - 1])>>
PartsAvx(w) == [k \in 1 .. 2 |-> PickedOfHalves(Load(1, 0, w), Load(1, w, w), k - 1)]
PartsSse(w) == [k \in 1 .. 2 |-> Picked(Load(1, 0, w), Load(1, w, w), k - 1)]
volk_32fc_deinterleave_32f_x2_generic == Generic(Parts)
volk_32fc_deinterleave_32f_x2_a_avx512f == Vec(Parts, PartsGathered, 8)
volk_32fc_deinterleave_32f_x2_a_avx == Vec(Parts, PartsAvx, 8)
volk_32fc_deinterleave_32f_x2_a_sse == Vec(Parts, PartsSse, 4)
volk_32fc_deinterleave_32f_x2_neon == Vec(Parts, PartsPlanes, 4)
volk_32fc_deinterleave_32f_x2_neonv8 == Vec(Parts, PartsPlanes, 8)
volk_32fc_deinterleave_32f_x2_u_avx512f == Vec(Parts, PartsGathered, 8)
volk_32fc_deinterleave_32f_x2_u_avx == Vec(Parts, PartsAvx, 8)
volk_32fc_deinterleave_32f_x2_rvv == Rvv(Parts, PartsPlanes)
volk_32fc_deinterleave_32f_x2_rvvseg == Rvv(Parts, PartsPlanes)

PartsWide == EachPoint(LAMBDA p : << <<Widened(In(1, 2 * p))>>, <<Widened(In(1, 2 * p + 1))>> >>)
PartsWideAvx(w) == [k \in 1 .. 2 |-> Each(Widened, Picked(Low(Points(1, w)), High(Points(1, w)), k - 1))]
PartsWideSse2(w) == [k \in 1 .. 2 |-> Each(Widened, Low(Picked(Points(1, w), Points(1, w), k - 1)))]
PartsWidePlanes(w) == <<Each(Widened, Reals(1, w)), Each(Widened, Imags(1, w))>>
volk_32fc_deinterleave_64f_x2_u_avx == Vec(PartsWide, PartsWideAvx, 4)
volk_32fc_deinterleave_64f_x2_u_sse2 == Vec(PartsWide, PartsWideSse2, 2)
volk_32fc_deinterleave_64f_x2_generic == Generic(PartsWide)
volk_32fc_deinterleave_64f_x2_a_avx == Vec(PartsWide, PartsWideAvx, 4)
volk_32fc_deinterleave_64f_x2_a_sse2 == Vec(PartsWide, PartsWideSse2, 2)
volk_32fc_deinterleave_64f_x2_neon == Vec(PartsWide, PartsWidePlanes, 2)
volk_32fc_deinterleave_64f_x2_rvv == Rvv(PartsWide, PartsWidePlanes)
volk_32fc_deinterleave_64f_x2_rvvseg == Rvv(PartsWide, PartsWidePlanes)

(* One part only.                                                          *)
RealPart == EachPoint(LAMBDA p : << <<In(1, 2 * p)>> >>)
RealPlane(w) == <<Reals(1, w)>>
RealAvx2(w) == <<PickedInOrder(Load(1, 0, w), Load(1, w, w), 0)>>
RealSse(w) == <<Picked(Load(1, 0, w), Load(1, w, w), 0)>>
volk_32fc_deinterleave_real_32f_a_avx2 == Vec(RealPart, RealAvx2, 8)
volk_32fc_deinterleave_real_32f_a_sse == Vec(RealPart, RealSse, 4)
volk_32fc_deinterleave_real_32f_generic == Generic(RealPart)
volk_32fc_deinterleave_real_32f_neon == Vec(RealPart, RealPlane, 4)
volk_32fc_deinterleave_real_32f_neonv8 == Vec(RealPart, RealPlane, 8)
volk_32fc_deinterleave_real_32f_u_avx2 == Vec(RealPart, RealAvx2, 8)
volk_32fc_deinterleave_real_32f_rvv == Rvv(RealPart, RealPlane)

ImagPart == EachPoint(LAMBDA p : << <<In(1, 2 * p + 1)>> >>)
ImagPlane(w) == <<Imags(1, w)>>
ImagAvx(w) == <<PickedOfHalves(Load(1, 0, w), Load(1, w, w), 1)>>
ImagSse(w) == <<Picked(Load(1, 0, w), Load(1, w, w), 1)>>
volk_32fc_deinterleave_imag_32f_a_avx == Vec(ImagPart, ImagAvx, 8)
volk_32fc_deinterleave_imag_32f_a_sse == Vec(ImagPart, ImagSse, 4)
volk_32fc_deinterleave_imag_32f_neon == Vec(ImagPart, ImagPlane, 4)
volk_32fc_deinterleave_imag_32f_neonv8 == Vec(ImagPart, ImagPlane, 8)
volk_32fc_deinterleave_imag_32f_generic == Generic(ImagPart)
volk_32fc_deinterleave_imag_32f_u_avx == Vec(ImagPart, ImagAvx, 8)
volk_32fc_deinterleave_imag_32f_rvv == Rvv(ImagPart, ImagPlane)

RealWide == EachPoint(LAMBDA p : << <<Widened(In(1, 2 * p))>> >>)
RealWideAvx2(w) == <<Each(Widened, Gather(Points(1, w), <<0, 2, 4, 6>>))>>
RealWideSse2(w) == <<Each(Widened, Low(Picked(Points(1, w), Points(1, w), 0)))>>
RealWideNeon(w) ==
  <<Weave(<<Each(Widened, Every(Points(1, w), 4, 0)), Each(Widened, Every(Points(1, w), 4, 2))>>)>>
RealWidePlane(w) == <<Each(Widened, Reals(1, w))>>
volk_32fc_deinterleave_real_64f_a_avx2 == Vec(RealWide, RealWideAvx2, 4)
volk_32fc_deinterleave_real_64f_a_sse2 == Vec(RealWide, RealWideSse2, 2)
volk_32fc_deinterleave_real_64f_generic == Generic(RealWide)
volk_32fc_deinterleave_real_64f_neon == Vec(RealWide, RealWideNeon, 4)
volk_32fc_deinterleave_real_64f_u_avx2 == Vec(RealWide, RealWideAvx2, 4)
volk_32fc_deinterleave_real_64f_rvv == Rvv(RealWide, RealWidePlane)

(* Two inputs to complex numbers.                                          *)
Joined == EachPoint(LAMBDA p : << <<In(1, p), In(2, p)>> >>)
JoinedPlanes(w) == <<Weave(<<Load(1, 0, w), Load(2, 0, w)>>)>>
JoinedAvx(w) ==
  LET low == UnpackLow(Load(1, 0, w), Load(2, 0, w), 4)
      high == UnpackHigh(Load(1, 0, w), Load(2, 0, w), 4)
  IN  <<Halves(low, high, <<0, 2>>) \o Halves(low, high, <<1, 3>>)>>
JoinedSse(w) ==
  <<UnpackLow(Load(1, 0, w), Load(2, 0, w), 4) \o UnpackHigh(Load(1, 0, w), Load(2, 0, w), 4)>>
volk_32f_x2_interleave_32fc_a_avx == Vec(Joined, JoinedAvx, 8)
volk_32f_x2_interleave_32fc_a_sse == Vec(Joined, JoinedSse, 4)
volk_32f_x2_interleave_32fc_neon == Vec(Joined, JoinedPlanes, 4)
volk_32f_x2_interleave_32fc_neonv8 == Vec(Joined, JoinedPlanes, 8)
volk_32f_x2_interleave_32fc_generic == Generic(Joined)
volk_32f_x2_interleave_32fc_u_avx == Vec(Joined, JoinedAvx, 8)
volk_32f_x2_interleave_32fc_rvv == Rvv(Joined, JoinedPlanes)
volk_32f_x2_interleave_32fc_rvvseg == Rvv(Joined, JoinedPlanes)

(* 16-bit parts.                                                           *)
PartsAvx2(w) ==
  LET a == Shuffle(Load(1, 0, w), Sorted(8))
      b == Shuffle(Load(1, w, w), Sorted(8))
  IN  <<Halves(Quarters(a, <<0, 2, 0, 0>>), Quarters(b, <<0, 0, 0, 2>>), <<0, 3>>),
        Halves(Quarters(a, <<1, 3, 0, 0>>), Quarters(b, <<0, 0, 1, 3>>), <<0, 3>>)>>
PartsSsse3(w) == [k \in 1 .. 2 |-> Packed(Load(1, 0, w), Load(1, w, w), 8, k - 1)]
PartSse2(w, words) ==
  LET a == Shuffle(Load(1, 0, w), words)
      b == Shuffle(Load(1, w, w), words)
  IN  Low(Shuffle(a, Wide(<<0, 2, 1, 3>>, 2))) \o High(Shuffle(b, Wide(<<1, 3, 0, 2>>, 2)))
PartsSse2(w) == <<PartSse2(w, <<0, 2, 1, 3>>), PartSse2(w, <<1, 3, 0, 2>>)>>
volk_16ic_deinterleave_16i_x2_a_avx2 == Vec(Parts, PartsAvx2, 16)
volk_16ic_deinterleave_16i_x2_a_ssse3 == Vec(Parts, PartsSsse3, 8)
volk_16ic_deinterleave_16i_x2_a_sse2 == Vec(Parts, PartsSse2, 8)
volk_16ic_deinterleave_16i_x2_generic == Generic(Parts)
volk_16ic_deinterleave_16i_x2_neon == Vec(Parts, PartsPlanes, 8)
volk_16ic_deinterleave_16i_x2_neonv8 == Vec(Parts, PartsPlanes, 16)
volk_16ic_deinterleave_16i_x2_u_avx2 == Vec(Parts, PartsAvx2, 16)
volk_16ic_deinterleave_16i_x2_rvv == Rvv(Parts, PartsPlanes)
volk_16ic_deinterleave_16i_x2_rvvseg == Rvv(Parts, PartsPlanes)

RealPackedAvx2(w) == <<PackedInOrder(Load(1, 0, w), Load(1, w, w), 8)>>
RealPacked(w) == <<Packed(Load(1, 0, w), Load(1, w, w), 8, 0)>>
RealSse2(w) == <<PartSse2(w, <<0, 2, 1, 3>>)>>
volk_16ic_deinterleave_real_16i_a_avx2 == Vec(RealPart, RealPackedAvx2, 16)
volk_16ic_deinterleave_real_16i_a_ssse3 == Vec(RealPart, RealPacked, 8)
volk_16ic_deinterleave_real_16i_a_sse2 == Vec(RealPart, RealSse2, 8)
volk_16ic_deinterleave_real_16i_generic == Generic(RealPart)
volk_16ic_deinterleave_real_16i_neon == Vec(RealPart, RealPlane, 8)
volk_16ic_deinterleave_real_16i_neonv8 == Vec(RealPart, RealPlane, 16)
volk_16ic_deinterleave_real_16i_u_avx2 == Vec(RealPart, RealPackedAvx2, 16)
volk_16ic_deinterleave_real_16i_rvv == Rvv(RealPart, RealPlane)

(* The high byte of 16 bits.  packs narrows two vectors, each 128 bits of  *)
(* them on its own.                                                        *)
HighByte(x) == Apply(">> 8", <<x>>)
RealHigh == EachPoint(LAMBDA p : << <<HighByte(In(1, 2 * p))>> >>)
RealHighAvx2(w) ==
  LET h == w \div 2
      a == Each(HighByte, PackedInOrder(Load(1, 0, h), Load(1, h, h), 8))
      b == Each(HighByte, PackedInOrder(Load(1, 2 * h, h), Load(1, 3 * h, h), 8))
  IN  <<Quarters(Low(a) \o Low(b) \o High(a) \o High(b), <<0, 2, 1, 3>>)>>
RealHighSsse3(w) ==
  LET h == w \div 2
  IN  <<Each(HighByte, Packed(Load(1, 0, h), Load(1, h, h), 8, 0)
                       \o Packed(Load(1, 2 * h, h), Load(1, 3 * h, h), 8, 0))>>
RealHighPlane(w) == <<Each(HighByte, Reals(1, w))>>
volk_16ic_deinterleave_real_8i_a_avx2 == Vec(RealHigh, RealHighAvx2, 32)
volk_16ic_deinterleave_real_8i_a_ssse3 == Vec(RealHigh, RealHighSsse3, 16)
volk_16ic_deinterleave_real_8i_generic == Generic(RealHigh)
volk_16ic_deinterleave_real_8i_neon == Vec(RealHigh, RealHighPlane, 8)
volk_16ic_deinterleave_real_8i_neonv8 == Vec(RealHigh, RealHighPlane, 16)
volk_16ic_deinterleave_real_8i_u_avx2 == Vec(RealHigh, RealHighAvx2, 32)
volk_16ic_deinterleave_real_8i_rvv == Rvv(RealHigh, RealHighPlane)

(* Parts as floats, divided by a scalar.                                   *)
Fraction(x) == x ** Quotient(Number(1), Scalar)
Fractions == EachPoint(LAMBDA p : << <<Fraction(In(1, 2 * p))>>, <<Fraction(In(1, 2 * p + 1))>> >>)
FractionsAvx2(w) ==
  LET x == Each(Fraction, Points(1, w))
  IN  [k \in 1 .. 2 |-> PickedInOrder(Low(x), High(x), k - 1)]
FractionsSse(w) ==
  LET x == Each(Fraction, Points(1, w))
  IN  [k \in 1 .. 2 |-> Picked(Low(x), High(x), k - 1)]
FractionsPlanes(w) == <<Each(Fraction, Reals(1, w)), Each(Fraction, Imags(1, w))>>
volk_16ic_s32f_deinterleave_32f_x2_a_avx2 == Vec(Fractions, FractionsAvx2, 8)
volk_16ic_s32f_deinterleave_32f_x2_a_sse == Vec(Fractions, FractionsSse, 4)
volk_16ic_s32f_deinterleave_32f_x2_generic == Generic(Fractions)
volk_16ic_s32f_deinterleave_32f_x2_neon == Vec(Fractions, FractionsPlanes, 4)
volk_16ic_s32f_deinterleave_32f_x2_neonv8 == Vec(Fractions, FractionsPlanes, 8)
volk_16ic_s32f_deinterleave_32f_x2_u_avx2 == Vec(Fractions, FractionsAvx2, 8)
volk_16ic_s32f_deinterleave_32f_x2_rvv == Rvv(Fractions, FractionsPlanes)
volk_16ic_s32f_deinterleave_32f_x2_rvvseg == Rvv(Fractions, FractionsPlanes)

RealFraction == EachPoint(LAMBDA p : << <<Fraction(In(1, 2 * p))>> >>)
RealFractionAvx2(w) ==
  <<Each(Fraction, Low(Quarters(Shuffle(Points(1, w), ToFirst(8, 0)), <<0, 2, 1, 3>>)))>>
RealFractionSse41(w) == <<Each(Fraction, Low(Shuffle(Points(1, w), ToFirst(8, 0))))>>
RealFractionPlane(w) == <<Each(Fraction, Reals(1, w))>>
volk_16ic_s32f_deinterleave_real_32f_a_avx2 == Vec(RealFraction, RealFractionAvx2, 8)
volk_16ic_s32f_deinterleave_real_32f_a_sse4_1 == Vec(RealFraction, RealFractionSse41, 4)
volk_16ic_s32f_deinterleave_real_32f_a_sse == Vec(RealFraction, RealFractionPlane, 4)
volk_16ic_s32f_deinterleave_real_32f_generic == Generic(RealFraction)
volk_16ic_s32f_deinterleave_real_32f_u_avx2 == Vec(RealFraction, RealFractionAvx2, 8)
volk_16ic_s32f_deinterleave_real_32f_neon == Vec(RealFraction, RealFractionPlane, 4)
volk_16ic_s32f_deinterleave_real_32f_rvv == Rvv(RealFraction, RealFractionPlane)

(* 8-bit parts, shifted to 16 bits; the two 128-bit halves together or one *)
(* by one.                                                                 *)
Times256(x) == Number(256) ** x
PartsShifted == EachPoint(LAMBDA p : << <<Times256(In(1, 2 * p))>>, <<Times256(In(1, 2 * p + 1))>> >>)
PartsShiftedAvx2(w) ==
  LET x == Quarters(Shuffle(Points(1, w), Sorted(16)), <<0, 2, 1, 3>>)
  IN  <<Each(Times256, Low(x)), Each(Times256, High(x))>>
PartsShiftedSse41(w) ==
  [k \in 1 .. 2 |-> Each(Times256, Low(Shuffle(Points(1, w), ToFirst(16, k - 1))))]
PartsShiftedAvx(w) ==
  LET Half(x, k) == Each(Times256, Low(Shuffle(x, ToFirst(16, k))))
  IN  [k \in 1 .. 2 |-> Half(Low(Points(1, w)), k - 1) \o Half(High(Points(1, w)), k - 1)]
PartsShiftedPlanes(w) == <<Each(Times256, Reals(1, w)), Each(Times256, Imags(1, w))>>
volk_8ic_deinterleave_16i_x2_a_avx2 == Vec(PartsShifted, PartsShiftedAvx2, 16)
volk_8ic_deinterleave_16i_x2_a_sse4_1 == Vec(PartsShifted, PartsShiftedSse41, 8)
volk_8ic_deinterleave_16i_x2_a_avx == Vec(PartsShifted, PartsShiftedAvx, 16)
volk_8ic_deinterleave_16i_x2_generic == Generic(PartsShifted)
volk_8ic_deinterleave_16i_x2_u_avx2 == Vec(PartsShifted, PartsShiftedAvx2, 16)
volk_8ic_deinterleave_16i_x2_neon == Vec(PartsShifted, PartsShiftedPlanes, 8)
volk_8ic_deinterleave_16i_x2_rvv == Rvv(PartsShifted, PartsShiftedPlanes)

Times128(x) == Number(128) ** x
RealShifted == EachPoint(LAMBDA p : << <<Times128(In(1, 2 * p))>> >>)
RealShiftedAvx2(w) ==
  <<Each(Times128, Low(Quarters(Shuffle(Points(1, w), ToFirst(16, 0)), <<0, 2, 1, 3>>)))>>
RealShiftedSse41(w) == <<Each(Times128, Low(Shuffle(Points(1, w), ToFirst(16, 0))))>>
RealShiftedAvx(w) ==
  LET Half(x) == Each(Times128, Low(Shuffle(x, ToFirst(16, 0))))
  IN  <<Half(Low(Points(1, w))) \o Half(High(Points(1, w)))>>
RealShiftedPlane(w) == <<Each(Times128, Reals(1, w))>>
volk_8ic_deinterleave_real_16i_a_avx2 == Vec(RealShifted, RealShiftedAvx2, 16)
volk_8ic_deinterleave_real_16i_a_sse4_1 == Vec(RealShifted, RealShiftedSse41, 8)
volk_8ic_deinterleave_real_16i_a_avx == Vec(RealShifted, RealShiftedAvx, 16)
volk_8ic_deinterleave_real_16i_generic == Generic(RealShifted)
volk_8ic_deinterleave_real_16i_u_avx2 == Vec(RealShifted, RealShiftedAvx2, 16)
volk_8ic_deinterleave_real_16i_neon == Vec(RealShifted, RealShiftedPlane, 8)
volk_8ic_deinterleave_real_16i_rvv == Rvv(RealShifted, RealShiftedPlane)

RealBytesAvx2(w) == <<PackedInOrder(Load(1, 0, w), Load(1, w, w), 16)>>
RealBytesSsse3(w) == <<Packed(Load(1, 0, w), Load(1, w, w), 16, 0)>>
RealBytesAvx(w) ==
  LET Quarter(o) == Packed(Low(Load(1, o, w)), High(Load(1, o, w)), 16, 0)
  IN  <<Quarter(0) \o Quarter(w)>>
volk_8ic_deinterleave_real_8i_a_avx2 == Vec(RealPart, RealBytesAvx2, 32)
volk_8ic_deinterleave_real_8i_a_ssse3 == Vec(RealPart, RealBytesSsse3, 16)
volk_8ic_deinterleave_real_8i_a_avx == Vec(RealPart, RealBytesAvx, 32)
volk_8ic_deinterleave_real_8i_generic == Generic(RealPart)
volk_8ic_deinterleave_real_8i_neon == Vec(RealPart, RealPlane, 16)
volk_8ic_deinterleave_real_8i_neonv8 == Vec(RealPart, RealPlane, 32)
volk_8ic_deinterleave_real_8i_u_avx2 == Vec(RealPart, RealBytesAvx2, 32)
volk_8ic_deinterleave_real_8i_rvv == Rvv(RealPart, RealPlane)

(* cvtepi8_epi32 takes the first lanes; a permutation or a shift brings    *)
(* the next ones there.                                                    *)
BytesAvx2(x) ==
  LET First(y) == SubSeq(y, 1, Len(y) \div 4)
  IN  Each(Fraction, First(x)) \o Each(Fraction, First(Quarters(x, <<2, 1, 0, 3>>)))
FractionBytesAvx2(w) == [k \in 1 .. 2 |-> BytesAvx2(Shuffle(Points(1, w), ToFirst(16, k - 1)))]
FractionBytesUAvx2(w) ==
  LET x == Quarters(Shuffle(Points(1, w), Sorted(16)), <<0, 2, 1, 3>>)
      shifted == Shuffle(x, [l \in 1 .. 16 |-> IF l <= 8 THEN l + 7 ELSE -1])
      First(y) == Each(Fraction, SubSeq(y, 1, 8))
  IN  <<First(Low(x)) \o First(Low(shifted)), First(High(x)) \o First(High(shifted))>>
BytesSse41(x) ==
  LET shifted == Gather(x, [l \in 1 .. 16 |-> IF l <= 12 THEN l + 3 ELSE -1])
  IN  Each(Fraction, SubSeq(x, 1, 4)) \o Each(Fraction, SubSeq(shifted, 1, 4))
FractionBytesSse41(w) == [k \in 1 .. 2 |-> BytesSse41(Shuffle(Points(1, w), ToFirst(16, k - 1)))]
volk_8ic_s32f_deinterleave_32f_x2_a_sse4_1 == Vec(Fractions, FractionBytesSse41, 8)
volk_8ic_s32f_deinterleave_32f_x2_a_sse == Vec(Fractions, FractionsSse, 4)
volk_8ic_s32f_deinterleave_32f_x2_a_avx2 == Vec(Fractions, FractionBytesAvx2, 16)
volk_8ic_s32f_deinterleave_32f_x2_generic == Generic(Fractions)
volk_8ic_s32f_deinterleave_32f_x2_u_avx2 == Vec(Fractions, FractionBytesUAvx2, 16)
volk_8ic_s32f_deinterleave_32f_x2_neon == Vec(Fractions, FractionsPlanes, 8)
volk_8ic_s32f_deinterleave_32f_x2_rvv == Rvv(Fractions, FractionsPlanes)

RealBytesFractionAvx2(w) == <<BytesAvx2(Shuffle(Points(1, w), ToFirst(16, 0)))>>
RealBytesFractionUAvx2(w) ==
  LET x == Shuffle(Points(1, w), ToFirst(16, 0))
  IN  <<Each(Fraction, SubSeq(Low(x), 1, 8)) \o Each(Fraction, SubSeq(High(x), 1, 8))>>
RealBytesFractionSse41(w) == <<BytesSse41(Shuffle(Points(1, w), ToFirst(16, 0)))>>
volk_8ic_s32f_deinterleave_real_32f_a_avx2 == Vec(RealFraction, RealBytesFractionAvx2, 16)
volk_8ic_s32f_deinterleave_real_32f_a_sse4_1 == Vec(RealFraction, RealBytesFractionSse41, 8)
volk_8ic_s32f_deinterleave_real_32f_a_sse == Vec(RealFraction, RealFractionPlane, 4)
volk_8ic_s32f_deinterleave_real_32f_generic == Generic(RealFraction)
volk_8ic_s32f_deinterleave_real_32f_u_avx2 == Vec(RealFraction, RealBytesFractionUAvx2, 16)
volk_8ic_s32f_deinterleave_real_32f_neon == Vec(RealFraction, RealFractionPlane, 8)
volk_8ic_s32f_deinterleave_real_32f_rvv == Rvv(RealFraction, RealFractionPlane)
==============================================================================
