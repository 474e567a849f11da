------------------------------ MODULE MathProtos ------------------------------
(***************************************************************************)
(* The proto-kernels of mathematical functions, to integers of 32 bits, on *)
(* the bits of integers, and those of 16 bits that turbo decoders use:     *)
(* what generic computes for a point, what the vectors hold, and one       *)
(* definition per C function, named like it.                               *)
(*                                                                         *)
(* An approximation, which is the same code for every lane, stands for the *)
(* function that it approximates, over the arguments for which it does;    *)
(* how good it is, and what becomes of infinities, NaNs and arguments      *)
(* outside, is left out.                                                   *)
(***************************************************************************)
EXTENDS ConvertProtos, SumProtos

LOCAL INSTANCE SequencesExt    (* FoldLeft *)

(* The vectors compute the power by a logarithm and an exponential.        *)
Power == Binary(LAMBDA x, y : Apply("exp", <<y ** Apply("log", <<x>>)>>))
PowerV(w) ==
  <<Each(LAMBDA t : Apply("exp", <<t>>),
         Times(Load(2, 0, w), Each(LAMBDA x : Apply("log", <<x>>), Load(1, 0, w))))>>
volk_32f_x2_pow_32f_a_avx2_fma == Vec(Power, PowerV, 8)
volk_32f_x2_pow_32f_a_avx2 == Vec(Power, PowerV, 8)
volk_32f_x2_pow_32f_a_sse4_1 == Vec(Power, PowerV, 4)
volk_32f_x2_pow_32f_generic == Generic(Power)
volk_32f_x2_pow_32f_neon == Vec(Power, PowerV, 4)
volk_32f_x2_pow_32f_neonv8 == Vec(Power, PowerV, 4)
volk_32f_x2_pow_32f_u_sse4_1 == Vec(Power, PowerV, 4)
volk_32f_x2_pow_32f_u_avx2_fma == Vec(Power, PowerV, 8)
volk_32f_x2_pow_32f_u_avx2 == Vec(Power, PowerV, 8)
volk_32f_x2_pow_32f_rvv == Rvv(Power, PowerV)

Log2Of(x) == Apply("log2", <<x>>)
Log2 == Unary(Log2Of)
Log2V(w) == UnaryV(Log2Of, w)
volk_32f_log2_32f_generic == Generic(Log2)
volk_32f_log2_32f_u_sse4_1 == Vec(Log2, Log2V, 4)
volk_32f_log2_32f_a_sse4_1 == Vec(Log2, Log2V, 4)
volk_32f_log2_32f_u_avx2 == Vec(Log2, Log2V, 8)
volk_32f_log2_32f_a_avx2 == Vec(Log2, Log2V, 8)
volk_32f_log2_32f_u_avx2_fma == Vec(Log2, Log2V, 8)
volk_32f_log2_32f_a_avx2_fma == Vec(Log2, Log2V, 8)
volk_32f_log2_32f_u_avx512 == Vec(Log2, Log2V, 16)
volk_32f_log2_32f_a_avx512 == Vec(Log2, Log2V, 16)
volk_32f_log2_32f_u_avx512dq == Vec(Log2, Log2V, 16)
volk_32f_log2_32f_a_avx512dq == Vec(Log2, Log2V, 16)
volk_32f_log2_32f_neon == Vec(Log2, Log2V, 4)
volk_32f_log2_32f_neonv8 == Vec(Log2, Log2V, 4)
volk_32f_log2_32f_rvv == Rvv(Log2, Log2V)

ExponentialOf(x) == Apply("exp", <<x>>)
Exponential == Unary(ExponentialOf)
ExponentialV(w) == UnaryV(ExponentialOf, w)
volk_32f_exp_32f_a_sse2 == Vec(Exponential, ExponentialV, 4)
volk_32f_exp_32f_a_avx2 == Vec(Exponential, ExponentialV, 8)
volk_32f_exp_32f_u_sse2 == Vec(Exponential, ExponentialV, 4)
volk_32f_exp_32f_u_avx2 == Vec(Exponential, ExponentialV, 8)
volk_32f_exp_32f_generic == Generic(Exponential)
volk_32f_exp_32f_neon == Vec(Exponential, ExponentialV, 4)
volk_32f_exp_32f_neonv8 == Vec(Exponential, ExponentialV, 8)
volk_32f_exp_32f_rvv == Rvv(Exponential, ExponentialV)

volk_32f_expfast_32f_a_avx_fma == Vec(Exponential, ExponentialV, 8)
volk_32f_expfast_32f_a_avx == Vec(Exponential, ExponentialV, 8)
volk_32f_expfast_32f_a_sse4_1 == Vec(Exponential, ExponentialV, 4)
volk_32f_expfast_32f_u_avx_fma == Vec(Exponential, ExponentialV, 8)
volk_32f_expfast_32f_u_avx == Vec(Exponential, ExponentialV, 8)
volk_32f_expfast_32f_u_sse4_1 == Vec(Exponential, ExponentialV, 4)
volk_32f_expfast_32f_generic == Generic(Exponential)
volk_32f_expfast_32f_neon == Vec(Exponential, ExponentialV, 4)
volk_32f_expfast_32f_neonv8 == Vec(Exponential, ExponentialV, 8)
volk_32f_expfast_32f_rvv == Rvv(Exponential, ExponentialV)

InverseRootOf(x) == Quotient(Number(1), Root(x))
InverseRoot == Unary(InverseRootOf)
InverseRootV(w) == UnaryV(InverseRootOf, w)
volk_32f_invsqrt_32f_generic == Generic(InverseRoot)
volk_32f_invsqrt_32f_recip_sqrt == Generic(InverseRoot)
volk_32f_invsqrt_32f_Q_rsqrt == Generic(InverseRoot)
volk_32f_invsqrt_32f_a_sse == Vec(InverseRoot, InverseRootV, 4)
volk_32f_invsqrt_32f_a_avx == Vec(InverseRoot, InverseRootV, 8)
volk_32f_invsqrt_32f_a_avx2 == Vec(InverseRoot, InverseRootV, 8)
volk_32f_invsqrt_32f_a_avx512f == Vec(InverseRoot, InverseRootV, 16)
volk_32f_invsqrt_32f_u_sse == Vec(InverseRoot, InverseRootV, 4)
volk_32f_invsqrt_32f_u_avx == Vec(InverseRoot, InverseRootV, 8)
volk_32f_invsqrt_32f_u_avx2 == Vec(InverseRoot, InverseRootV, 8)
volk_32f_invsqrt_32f_u_avx512f == Vec(InverseRoot, InverseRootV, 16)
volk_32f_invsqrt_32f_neon == Vec(InverseRoot, InverseRootV, 4)
volk_32f_invsqrt_32f_neonv8 == Vec(InverseRoot, InverseRootV, 4)
volk_32f_invsqrt_32f_rvv == Rvv(InverseRoot, InverseRootV)

(* The continued fraction of tanh (that is how far tanhf, in generic, is   *)
(* followed).  Arguments are within the 4.97 on either side where it       *)
(* holds; others are in module Angles.                                     *)
HyperbolicTangentOf(x) ==
  LET sq == Square(x)
  IN  Quotient(x ** (Number(135135) ++ sq ** (Number(17325) ++ sq ** (Number(378) ++ sq))),
               Number(135135) ++ sq ** (Number(62370) ++ sq ** (Number(3150) ++ sq ** Number(28))))
HyperbolicTangent == Unary(HyperbolicTangentOf)
HyperbolicTangentV(w) == UnaryV(HyperbolicTangentOf, w)
volk_32f_tanh_32f_generic == Generic(HyperbolicTangent)
volk_32f_tanh_32f_series == Generic(HyperbolicTangent)
volk_32f_tanh_32f_a_sse == Vec(HyperbolicTangent, HyperbolicTangentV, 4)
volk_32f_tanh_32f_a_avx == Vec(HyperbolicTangent, HyperbolicTangentV, 8)
volk_32f_tanh_32f_a_avx_fma == Vec(HyperbolicTangent, HyperbolicTangentV, 8)
volk_32f_tanh_32f_neon == Vec(HyperbolicTangent, HyperbolicTangentV, 4)
volk_32f_tanh_32f_neonv8 == Vec(HyperbolicTangent, HyperbolicTangentV, 8)
volk_32f_tanh_32f_u_sse == Vec(HyperbolicTangent, HyperbolicTangentV, 4)
volk_32f_tanh_32f_u_avx == Vec(HyperbolicTangent, HyperbolicTangentV, 8)
volk_32f_tanh_32f_u_avx_fma == Vec(HyperbolicTangent, HyperbolicTangentV, 8)
volk_32f_tanh_32f_rvv == Rvv(HyperbolicTangent, HyperbolicTangentV)

(* As the kernels of module ConvertProtos; again, what is outside the      *)
(* range of the integers is left out.                                      *)
volk_32f_s32f_convert_32i_u_avx == Vec(Integers16, Integers16V, 8)
volk_32f_s32f_convert_32i_u_sse2 == Vec(Integers16, Integers16V, 4)
volk_32f_s32f_convert_32i_u_sse == Vec(Integers16, Integers16V, 4)
volk_32f_s32f_convert_32i_generic == Generic(Integers16)
volk_32f_s32f_convert_32i_a_avx == Vec(Integers16, Integers16V, 8)
volk_32f_s32f_convert_32i_a_sse2 == Vec(Integers16, Integers16V, 4)
volk_32f_s32f_convert_32i_a_sse == Vec(Integers16, Integers16V, 4)
volk_32f_s32f_convert_32i_neon == Vec(Integers16, Integers16V, 4)
volk_32f_s32f_convert_32i_neonv8 == Vec(Integers16, Integers16V, 8)
volk_32f_s32f_convert_32i_rvv == Rvv(Integers16, Integers16V)

(* Decibels: the power is divided by the square of a scalar, or the        *)
(* numbers by the scalar before.  generic calls four kernels, one after    *)
(* the other, on its own output.                                           *)
OneByScalar == Quotient(Number(1), Scalar)
Decibels(x) == Apply("log2", <<x>>) ** Atom(<<"log2 to 10", <<>>>>)
Spectrum == EachPoint(LAMBDA p : << <<Decibels(AbsSquared(Complex(1, p)) ** Square(OneByScalar))>> >>)
SpectrumNeon(w) ==
  LET Divided(x) == Each(LAMBDA t : t ** OneByScalar, x)
  IN  <<Lanewise(LAMBDA x, y : Decibels(AbsSquared(<<x, y>>)), Divided(Reals(1, w)), Divided(Imags(1, w)))>>
SpectrumV(w) ==
  <<Lanewise(LAMBDA x, y : Decibels(AbsSquared(<<x, y>>) ** Square(OneByScalar)), Reals(1, w), Imags(1, w))>>
volk_32fc_s32f_power_spectrum_32f_generic == Generic(Spectrum)
volk_32fc_s32f_power_spectrum_32f_neon == Vec(Spectrum, SpectrumNeon, 4)
volk_32fc_s32f_power_spectrum_32f_rvv == Rvv(Spectrum, SpectrumV)
volk_32fc_s32f_power_spectrum_32f_rvvseg == Rvv(Spectrum, SpectrumV)

(* Into a range, by adding or subtracting its width.  The value of a point *)
(* is three terms: for an argument below, above and within the range.      *)
(* Masked lanes are multiplied by 1 or 0.                                  *)
Lowest == Atom(<<"lower bound", <<>>>>)
Highest == Atom(<<"upper bound", <<>>>>)
Widths(excess) == Apply("integer part", <<Quotient(excess, Highest -- Lowest)>>) ++ Number(1)
ModRange ==
  EachPoint(LAMBDA p :
    LET x == In(1, p)
    IN  << <<x ++ Widths(Lowest -- x) ** (Highest -- Lowest),
             x -- Widths(x -- Highest) ** (Highest -- Lowest), x>> >>)
ByCase(Op(_, _, _), w) ==
  <<Weave(<<Each(LAMBDA x : Op(x, 1, 0), Load(1, 0, w)), Each(LAMBDA x : Op(x, 0, 1), Load(1, 0, w)),
            Each(LAMBDA x : Op(x, 0, 0), Load(1, 0, w))>>)>>
ModRangeOf(x, smaller, bigger) ==
  LET excess == Number(smaller) ** (Lowest -- x) ++ Number(bigger) ** (x -- Highest)
      adj == Number(smaller) -- Number(bigger)
  IN  x ++ (Widths(excess) ** adj) ** (Highest -- Lowest)
ModRangeRvv(x, smaller, bigger) ==
  LET width == Highest -- Lowest
      count == Widths(IF smaller = 1 THEN Lowest -- x ELSE x -- Highest)
  IN  IF smaller + bigger = 0 THEN x
      ELSE x ++ count ** (IF smaller = 1 THEN width ELSE Negated(width))
ModRangeV(w) == ByCase(ModRangeOf, w)
volk_32f_s32f_s32f_mod_range_32f_generic == Generic(ModRange)
volk_32f_s32f_s32f_mod_range_32f_u_avx == Vec(ModRange, ModRangeV, 8)
volk_32f_s32f_s32f_mod_range_32f_a_avx == Vec(ModRange, ModRangeV, 8)
volk_32f_s32f_s32f_mod_range_32f_u_sse2 == Vec(ModRange, ModRangeV, 4)
volk_32f_s32f_s32f_mod_range_32f_a_sse2 == Vec(ModRange, ModRangeV, 4)
volk_32f_s32f_s32f_mod_range_32f_u_sse == Vec(ModRange, ModRangeV, 4)
volk_32f_s32f_s32f_mod_range_32f_a_sse == Vec(ModRange, ModRangeV, 4)
volk_32f_s32f_s32f_mod_range_32f_neon == Vec(ModRange, ModRangeV, 4)
volk_32f_s32f_s32f_mod_range_32f_neonv8 == Vec(ModRange, ModRangeV, 8)
volk_32f_s32f_s32f_mod_range_32f_rvv == Rvv(ModRange, LAMBDA w : ByCase(ModRangeRvv, w))

(* The sum of all points, from which comes a limit, and in a second pass   *)
(* over the same blocks the sum and the number of the points that are not  *)
(* above it.  (The quotient of these, or the limit if no point counts, is  *)
(* the same in all.)                                                       *)
Low32f(x) == Apply("if not above", <<x>>)
OneUpTo(x) == Apply("1 if not above", <<x>>)
NoiseFloor == EachPoint(LAMBDA p : <<In(1, p), Low32f(In(1, p)), OneUpTo(In(1, p))>>)
ThreeOf(m, w) ==
  OfVectors(Elements, m, w) \o OfVectors(LAMBDA k, v : Each(Low32f, Elements(k, v)), m, w)
    \o OfVectors(LAMBDA k, v : Each(OneUpTo, Elements(k, v)), m, w)
ThreeSums(x) ==
  LET m == Len(x) \div 3
  IN  [o \in 1 .. 3 |-> Total(PlusAll(SubSeq(x, (o - 1) * m + 1, o * m)))]
volk_32f_s32f_calc_spectral_noise_floor_32f_a_avx == VecSum(NoiseFloor, ThreeOf(1, 8), ThreeSums, 8)
volk_32f_s32f_calc_spectral_noise_floor_32f_a_sse == VecSum(NoiseFloor, ThreeOf(1, 4), ThreeSums, 4)
volk_32f_s32f_calc_spectral_noise_floor_32f_generic == GenericSum(NoiseFloor)
volk_32f_s32f_calc_spectral_noise_floor_32f_neon == VecSum(NoiseFloor, ThreeOf(1, 4), ThreeSums, 4)
volk_32f_s32f_calc_spectral_noise_floor_32f_neonv8 == VecSum(NoiseFloor, ThreeOf(2, 4), ThreeSums, 8)
volk_32f_s32f_calc_spectral_noise_floor_32f_u_avx == VecSum(NoiseFloor, ThreeOf(1, 8), ThreeSums, 8)
volk_32f_s32f_calc_spectral_noise_floor_32f_rvv == RvvSum(NoiseFloor, ThreeOf(1, VL), ThreeSums)

(* The bits of a point are its 32 elements, the lowest first: In(1, 32 k + *)
(* b) is bit b of point k.  Sums of bits that have no carry are unions of  *)
(* bits.                                                                   *)
BitsOf32(w) == Load(1, 0, 32 * w)
Backwards == EachPoint(LAMBDA p : << [b \in 1 .. 32 |-> In(1, 32 * p + 32 - b)] >>)
(* The bytes in reverse order; the bits of each byte in reverse order, by  *)
(* a table of bytes, or by tables of half bytes (RVV).                     *)
BytesBackwards(x) == Shuffle(x, Wide(<<3, 2, 1, 0>>, 8))
InBytesBackwards(x) == Shuffle(x, <<7, 6, 5, 4, 3, 2, 1, 0>>)
ByBytes(w) == <<InBytesBackwards(BytesBackwards(BitsOf32(w)))>>
ByBits(w) == <<BytesBackwards(InBytesBackwards(BitsOf32(w)))>>
ByHalfBytes(w) ==
  LET x == BytesBackwards(BitsOf32(w))
  IN  <<Plus(Shuffle(x, <<-1, -1, -1, -1, 3, 2, 1, 0>>), Shuffle(x, <<7, 6, 5, 4, -1, -1, -1, -1>>))>>
(* rbit and brev.                                                          *)
Rbit(w) == <<Shuffle(BitsOf32(w), [b \in 1 .. 32 |-> 32 - b])>>
(* Pieces of m bits change places with their neighbours: masked and        *)
(* shifted up, shifted down and masked.                                    *)
Even(x, m) == [b \in DOMAIN x |-> IF ((b - 1) \div m) % 2 = 0 THEN x[b] ELSE Zero]
Upwards(x, m) == [b \in DOMAIN x |-> IF b > m THEN x[b - m] ELSE Zero]
Exchanged(x, m) == Plus(Upwards(Even(x, m), m), Even(Down(x, m), m))
TopDown(w) == <<FoldLeft(Exchanged, BitsOf32(w), <<16, 8, 4, 2, 1>>)>>
BottomUp(w) == <<FoldLeft(Exchanged, BitsOf32(w), <<1, 2, 4, 8, 16>>)>>
(* A product with the sum of the powers of 2 in ones, as w bits: every     *)
(* column is the sum of what is shifted there.  And with the mask of the   *)
(* bits in ones.                                                           *)
Multiplied(x, ones, w) ==
  [b \in 1 .. w |-> Total([s \in {t \in ones : b - t \in DOMAIN x} |-> x[b - s]])]
Masked(x, ones) == [b \in DOMAIN x |-> IF b - 1 \in ones THEN x[b] ELSE Zero]
Magic2001(byte) ==
  LET spread == Masked(Multiplied(byte, {1, 11, 21, 31}, 40), {4, 8, 13, 17, 22, 26, 31, 35})
  IN  SubSeq(Multiplied(spread, {0, 8, 16, 24, 32}, 40), 33, 40)
(* The rest of the division by 1023 is the sum of the digits to the base   *)
(* 1024.                                                                   *)
Magic1972(byte) ==
  LET spread == Masked(Multiplied(byte, {1, 9, 17, 25, 33}, 48), {4, 13, 17, 22, 26, 31, 35, 40})
  IN  [b \in 1 .. 8 |-> Total([d \in {e \in DOMAIN spread : (e - 1) % 10 = b - 1} |-> spread[d]])]
ByteByByte(Op(_), p) ==
  LET byte(j) == [b \in 1 .. 8 |-> In(1, 32 * p + 8 * j + b - 1)]
  IN  <<Op(byte(3)) \o Op(byte(2)) \o Op(byte(1)) \o Op(byte(0))>>
volk_32u_reverse_32u_generic == Generic(Backwards)
volk_32u_reverse_32u_byte_shuffle == Storing(Backwards, <<Block(1, ByteByByte(InBytesBackwards, 0))>>)
volk_32u_reverse_32u_lut == Storing(Backwards, <<Block(1, ByBytes(1))>>)
volk_32u_reverse_32u_2001magic == Storing(Backwards, <<Block(1, ByteByByte(Magic2001, 0))>>)
volk_32u_reverse_32u_1972magic == Storing(Backwards, <<Block(1, ByteByByte(Magic1972, 0))>>)
volk_32u_reverse_32u_bintree_permute_top_down == Storing(Backwards, <<Block(1, TopDown(1))>>)
volk_32u_reverse_32u_bintree_permute_bottom_up == Storing(Backwards, <<Block(1, BottomUp(1))>>)
volk_32u_reverse_32u_neonv8 == Vec(Backwards, ByBits, 4)
volk_32u_reverse_32u_arm == Vec(Backwards, Rbit, 8)
volk_32u_reverse_32u_rvv == Rvv(Backwards, ByHalfBytes)
volk_32u_reverse_32u_rva23 == Rvv(Backwards, Rbit)

(* Of 16 bits.  Sums of one input with four others; the larger of two, by  *)
(* a comparison of their difference with 0, which takes either if they are *)
(* equal (and is left out where the difference is 2^15 and wraps).         *)
FourSums == EachPoint(LAMBDA p : [o \in 1 .. 4 |-> <<In(1, p) ++ In(o + 1, p)>>])
FourSumsV(w) == [o \in 1 .. 4 |-> Plus(Load(1, 0, w), Load(o + 1, 0, w))]
volk_16i_x5_add_quad_16i_x4_a_sse2 == Vec(FourSums, FourSumsV, 8)
volk_16i_x5_add_quad_16i_x4_neon == Vec(FourSums, FourSumsV, 8)
volk_16i_x5_add_quad_16i_x4_generic == Generic(FourSums)

MaxStar(x, y) == Apply("larger", <<{x, y}>>)
QuadMaxStar == EachPoint(LAMBDA p : << <<MaxStar(MaxStar(In(1, p), In(2, p)), MaxStar(In(3, p), In(4, p)))>> >>)
QuadMaxStarV(w) ==
  LET Of(x, y) == Lanewise(MaxStar, x, y)
  IN  <<Of(Of(Load(1, 0, w), Load(2, 0, w)), Of(Load(3, 0, w), Load(4, 0, w)))>>
volk_16i_x4_quad_max_star_16i_a_sse2 == Vec(QuadMaxStar, QuadMaxStarV, 8)
volk_16i_x4_quad_max_star_16i_neon == Vec(QuadMaxStar, QuadMaxStarV, 8)
volk_16i_x4_quad_max_star_16i_generic == Generic(QuadMaxStar)

(* A point is a pair of neighbours (calls with an odd num_points, of which *)
(* all functions read one point more, are left out).  hsub of two vectors; *)
(* each is shuffled to one half of the output.                             *)
OfPair == EachPoint(LAMBDA p : << <<MaxStar(In(1, 2 * p), In(1, 2 * p + 1))>> >>)
OfPairs(x) == [l \in 1 .. Len(x) \div 2 |-> MaxStar(x[2 * l - 1], x[2 * l])]
OfPairsV(w) ==
  LET Half(k) == OfPairs(Load(1, k, 8))
      cleared == Splat(Zero, 4)
  IN  <<IF w = 4 THEN Half(0) ELSE Plus(Half(0) \o cleared, cleared \o Half(8))>>
OfPlanes(w) == LET x == Load(1, 0, 2 * w) IN <<Lanewise(MaxStar, Every(x, 2, 0), Every(x, 2, 1))>>
volk_16i_max_star_horizontal_16i_a_ssse3 == Vec2(OfPair, OfPairsV, 8, 4)
volk_16i_max_star_horizontal_16i_neon == Vec(OfPair, OfPlanes, 8)
volk_16i_max_star_horizontal_16i_generic == Generic(OfPair)

(* What the index of the point points to, and four masks, each of them     *)
(* with a scalar.  Scalars are broadcast by two shuffles; points are       *)
(* inserted into one of four vectors each.                                 *)
PointedTo(p) == Apply("point of input 1", <<In(2, p)>>)
OfScalars(j) == Atom(<<"scalars", <<j>>>>)
AndScalar(t, s) == Apply("and", <<t, s>>)
PermuteAndAdd ==
  EachPoint(LAMBDA p :
    << <<PointedTo(p) ++ Total([j \in 0 .. 3 |-> AndScalar(In(3 + j, p), OfScalars(j))])>> >>)
BroadcastScalar(j) ==
  Shuffle(Shuffle([l \in 1 .. 8 |-> OfScalars(l - 1)], <<j, j, j, j, 4, 5, 6, 7>>), <<0, 1, 0, 1, 0, 1, 0, 1>>)
InsertedEvery4th(j) == [l \in 1 .. 8 |-> IF (l - 1) % 4 = j THEN PointedTo(l - 1) ELSE Zero]
PermuteAndAddV(w) ==
  LET Masks(j) == Lanewise(AndScalar, Load(3 + j, 0, w), BroadcastScalar(j))
  IN  <<PlusAll([j \in 1 .. 8 |-> IF j <= 4 THEN InsertedEvery4th(j - 1) ELSE Masks(j - 5)])>>
volk_16i_permute_and_scalar_add_a_sse2 == Vec(PermuteAndAdd, PermuteAndAddV, 8)
volk_16i_permute_and_scalar_add_generic == Generic(PermuteAndAdd)
==============================================================================
