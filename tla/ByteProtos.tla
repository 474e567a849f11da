------------------------------ MODULE ByteProtos ------------------------------
(***************************************************************************)
(* The proto-kernels on bytes and 16-bit integers: swapped bytes,          *)
(* saturated sums, signs as bytes, products of complex integers; what      *)
(* generic computes for a point, what the vectors hold, and one definition *)
(* per C function, named like it.                                          *)
(*                                                                         *)
(* Products and sums that do not fit are left out: some of these vectors   *)
(* saturate where generic wraps.                                           *)
(***************************************************************************)
EXTENDS ConvertProtos

(* The high bytes of 16 bits, and bytes as high bytes.                     *)
High8 == Unary(HighByte)
High8V(w) == UnaryV(HighByte, w)
High8Avx2(w) ==
  LET h == w \div 2
  IN  <<PackInOrder(Each(HighByte, Load(1, 0, h)), Each(HighByte, Load(1, h, h)), 8)>>
High8Sse2(w) ==
  LET h == w \div 2
  IN  <<Pack(Each(HighByte, Load(1, 0, h)), Each(HighByte, Load(1, h, h)), 8)>>
volk_16i_convert_8i_u_avx2 == Vec(High8, High8Avx2, 32)
volk_16i_convert_8i_u_avx512bw == Vec(High8, High8V, 64)
volk_16i_convert_8i_u_sse2 == Vec(High8, High8Sse2, 16)
volk_16i_convert_8i_generic == Generic(High8)
volk_16i_convert_8i_a_avx2 == Vec(High8, High8Avx2, 32)
volk_16i_convert_8i_a_avx512bw == Vec(High8, High8V, 64)
volk_16i_convert_8i_a_sse2 == Vec(High8, High8Sse2, 16)
volk_16i_convert_8i_neon == Vec(High8, High8V, 16)
volk_16i_convert_8i_neonv8 == Vec(High8, High8V, 32)
volk_16i_convert_8i_rvv == Rvv(High8, High8V)

Shifted8 == Unary(Times256)
Shifted8V(w) == UnaryV(Times256, w)
Shifted8Sse41(w) ==
  LET x == Load(1, 0, w)
      h == w \div 2
  IN  <<Each(Times256, First(x, h)) \o Each(Times256, First(Down(x, h), h))>>
volk_8i_convert_16i_u_avx2 == Vec(Shifted8, Shifted8V, 16)
volk_8i_convert_16i_u_avx512bw == Vec(Shifted8, Shifted8V, 32)
volk_8i_convert_16i_u_sse4_1 == Vec(Shifted8, Shifted8Sse41, 16)
volk_8i_convert_16i_generic == Generic(Shifted8)
volk_8i_convert_16i_a_avx2 == Vec(Shifted8, Shifted8V, 16)
volk_8i_convert_16i_a_avx512bw == Vec(Shifted8, Shifted8V, 32)
volk_8i_convert_16i_a_sse4_1 == Vec(Shifted8, Shifted8Sse41, 16)
volk_8i_convert_16i_neon == Vec(Shifted8, Shifted8V, 8)
volk_8i_convert_16i_neonv8 == Vec(Shifted8, Shifted8V, 16)
volk_8i_convert_16i_rvv == Rvv(Shifted8, Shifted8V)

(* Sums that stay in the range of their type.                              *)
SaturatedOf(x, y) == Apply("saturated", <<x ++ y>>)
Saturated == Binary(SaturatedOf)
SaturatedV(w) == BinaryV(SaturatedOf, w)
volk_8i_x2_add_saturated_8i_generic == Generic(Saturated)
volk_8i_x2_add_saturated_8i_u_sse2 == Vec(Saturated, SaturatedV, 16)
volk_8i_x2_add_saturated_8i_u_avx2 == Vec(Saturated, SaturatedV, 32)
volk_8i_x2_add_saturated_8i_u_avx512bw == Vec(Saturated, SaturatedV, 64)
volk_8i_x2_add_saturated_8i_a_sse2 == Vec(Saturated, SaturatedV, 16)
volk_8i_x2_add_saturated_8i_a_avx2 == Vec(Saturated, SaturatedV, 32)
volk_8i_x2_add_saturated_8i_a_avx512bw == Vec(Saturated, SaturatedV, 64)
volk_8i_x2_add_saturated_8i_neon == Vec(Saturated, SaturatedV, 16)
volk_8i_x2_add_saturated_8i_neonv8 == Vec(Saturated, SaturatedV, 32)
volk_8i_x2_add_saturated_8i_rvv == Rvv(Saturated, SaturatedV)

volk_8u_x2_add_saturated_8u_generic == Generic(Saturated)
volk_8u_x2_add_saturated_8u_u_sse2 == Vec(Saturated, SaturatedV, 16)
volk_8u_x2_add_saturated_8u_u_avx2 == Vec(Saturated, SaturatedV, 32)
volk_8u_x2_add_saturated_8u_u_avx512bw == Vec(Saturated, SaturatedV, 64)
volk_8u_x2_add_saturated_8u_a_sse2 == Vec(Saturated, SaturatedV, 16)
volk_8u_x2_add_saturated_8u_a_avx2 == Vec(Saturated, SaturatedV, 32)
volk_8u_x2_add_saturated_8u_a_avx512bw == Vec(Saturated, SaturatedV, 64)
volk_8u_x2_add_saturated_8u_neon == Vec(Saturated, SaturatedV, 16)
volk_8u_x2_add_saturated_8u_neonv8 == Vec(Saturated, SaturatedV, 32)
volk_8u_x2_add_saturated_8u_rvv == Rvv(Saturated, SaturatedV)

volk_16i_x2_add_saturated_16i_generic == Generic(Saturated)
volk_16i_x2_add_saturated_16i_u_sse2 == Vec(Saturated, SaturatedV, 8)
volk_16i_x2_add_saturated_16i_u_avx2 == Vec(Saturated, SaturatedV, 16)
volk_16i_x2_add_saturated_16i_u_avx512bw == Vec(Saturated, SaturatedV, 32)
volk_16i_x2_add_saturated_16i_a_sse2 == Vec(Saturated, SaturatedV, 8)
volk_16i_x2_add_saturated_16i_a_avx2 == Vec(Saturated, SaturatedV, 16)
volk_16i_x2_add_saturated_16i_a_avx512bw == Vec(Saturated, SaturatedV, 32)
volk_16i_x2_add_saturated_16i_neon == Vec(Saturated, SaturatedV, 8)
volk_16i_x2_add_saturated_16i_neonv8 == Vec(Saturated, SaturatedV, 16)
volk_16i_x2_add_saturated_16i_rvv == Rvv(Saturated, SaturatedV)

volk_16u_x2_add_saturated_16u_generic == Generic(Saturated)
volk_16u_x2_add_saturated_16u_u_sse2 == Vec(Saturated, SaturatedV, 8)
volk_16u_x2_add_saturated_16u_u_avx2 == Vec(Saturated, SaturatedV, 16)
volk_16u_x2_add_saturated_16u_u_avx512bw == Vec(Saturated, SaturatedV, 32)
volk_16u_x2_add_saturated_16u_a_sse2 == Vec(Saturated, SaturatedV, 8)
volk_16u_x2_add_saturated_16u_a_avx2 == Vec(Saturated, SaturatedV, 16)
volk_16u_x2_add_saturated_16u_a_avx512bw == Vec(Saturated, SaturatedV, 32)
volk_16u_x2_add_saturated_16u_neon == Vec(Saturated, SaturatedV, 8)
volk_16u_x2_add_saturated_16u_neonv8 == Vec(Saturated, SaturatedV, 16)
volk_16u_x2_add_saturated_16u_rvv == Rvv(Saturated, SaturatedV)

(* Floats between two bounds (which are in order), and their signs.        *)
Clamped(x) == Apply("clamp", <<x>>)
Clamp == Unary(Clamped)
ClampV(w) == UnaryV(Clamped, w)
volk_32f_s32f_x2_clamp_32f_generic == Generic(Clamp)
volk_32f_s32f_x2_clamp_32f_a_avx2 == Vec(Clamp, ClampV, 8)
volk_32f_s32f_x2_clamp_32f_a_sse4_1 == Vec(Clamp, ClampV, 4)
volk_32f_s32f_x2_clamp_32f_u_avx2 == Vec(Clamp, ClampV, 8)
volk_32f_s32f_x2_clamp_32f_u_sse4_1 == Vec(Clamp, ClampV, 4)
volk_32f_s32f_x2_clamp_32f_neon == Vec(Clamp, ClampV, 4)
volk_32f_s32f_x2_clamp_32f_neonv8 == Vec(Clamp, ClampV, 8)
volk_32f_s32f_x2_clamp_32f_rvv == Rvv(Clamp, ClampV)

NotNegative(x) == Apply(">= 0", <<x>>)
Slice == Unary(NotNegative)
SliceV(w) == UnaryV(NotNegative, w)
(* (The rvv kernel takes the sign bit, which the zero below 0 has too: it  *)
(* has no definition here.)                                                *)
volk_32f_binary_slicer_32i_generic == Generic(Slice)
volk_32f_binary_slicer_32i_generic_branchless == Generic(Slice)
volk_32f_binary_slicer_32i_a_sse2 == Vec(Slice, SliceV, 4)
volk_32f_binary_slicer_32i_a_avx == Vec(Slice, SliceV, 8)
volk_32f_binary_slicer_32i_u_sse2 == Vec(Slice, SliceV, 4)
volk_32f_binary_slicer_32i_u_avx == Vec(Slice, SliceV, 8)
volk_32f_binary_slicer_32i_neon == Vec(Slice, SliceV, 4)
volk_32f_binary_slicer_32i_neonv8 == Vec(Slice, SliceV, 8)

Slice8Avx2(w) ==
  LET q == w \div 4
      x(k) == Each(NotNegative, Load(1, k * q, q))
      packed == Quarters(Pack(Pack(x(0), x(1), 4), Pack(x(2), x(3), 4), 8), <<0, 2, 1, 3>>)
  IN  <<Shuffle(packed, Wide(<<0, 2, 1, 3>>, 4))>>
Slice8Sse2(w) == FourSse2(NotNegative, w)
Slice8Neon(w) ==
  LET h == w \div 2
      x(k) == Each(NotNegative, Every(Load(1, 0, h), 2, k) \o Every(Load(1, h, h), 2, k))
  IN  <<Weave(<<x(0), x(1)>>)>>
volk_32f_binary_slicer_8i_generic == Generic(Slice)
volk_32f_binary_slicer_8i_generic_branchless == Generic(Slice)
volk_32f_binary_slicer_8i_a_avx2 == Vec(Slice, Slice8Avx2, 32)
volk_32f_binary_slicer_8i_u_avx2 == Vec(Slice, Slice8Avx2, 32)
volk_32f_binary_slicer_8i_a_sse2 == Vec(Slice, Slice8Sse2, 16)
volk_32f_binary_slicer_8i_u_sse2 == Vec(Slice, Slice8Sse2, 16)
volk_32f_binary_slicer_8i_neon == Vec(Slice, Slice8Neon, 16)
volk_32f_binary_slicer_8i_rvv == Rvv(Slice, SliceV)

(* The bytes of a point, the lowest first, in reverse: by a permutation;   *)
(* by shifts, of which the masked results are put together; by inserting   *)
(* into the result of the round before; by table lookups in what vld4      *)
(* loads.                                                                  *)
BytesOf(b, w) == Load(1, 0, b * w)
Turned(b) == [k \in 1 .. b |-> b - k]
Swaps(b) == EachPoint(LAMBDA p : << [k \in 1 .. b |-> In(1, b * p + b - k)] >>)
Swaps16 == Swaps(2)
Swaps16V(w) == <<Shuffle(BytesOf(2, w), Turned(2))>>
Swaps16Sse2(w) ==
  <<Filled(Shuffle(BytesOf(2, w), <<-1, 0>>), Shuffle(BytesOf(2, w), <<1, -1>>))>>
Inserted(x, y, index) ==
  [l \in DOMAIN x |-> IF index[((l - 1) % 2) + 1] < 0 THEN x[l] ELSE Shuffle(y, index)[l]]
Swaps16Neon(w) ==
  LET stale == Splat(Atom(<<"output", <<>>>>), 2 * w)
  IN  <<Inserted(Inserted(stale, BytesOf(2, w), <<1, -1>>), BytesOf(2, w), <<-1, 0>>)>>
Looked(x, lookups) ==
  LET table == Every(x, 4, 0) \o Every(x, 4, 1) \o Every(x, 4, 2) \o Every(x, 4, 3)
  IN  Gather(table, lookups)
Swaps16Table(w) ==
  <<Looked(BytesOf(2, w), <<8, 0, 24, 16, 9, 1, 25, 17>> \o <<10, 2, 26, 18, 11, 3, 27, 19>>
                      \o <<12, 4, 28, 20, 13, 5, 29, 21>> \o <<14, 6, 30, 22, 15, 7, 31, 23>>)>>
volk_16u_byteswap_generic == Generic(Swaps16)
volk_16u_byteswap_a_avx2 == Vec(Swaps16, Swaps16V, 16)
volk_16u_byteswap_u_avx2 == Vec(Swaps16, Swaps16V, 16)
volk_16u_byteswap_u_sse2 == Vec(Swaps16, Swaps16Sse2, 8)
volk_16u_byteswap_a_sse2 == Vec(Swaps16, Swaps16Sse2, 8)
volk_16u_byteswap_neon == Vec(Swaps16, Swaps16Neon, 8)
volk_16u_byteswap_neon_table == Vec(Swaps16, Swaps16Table, 16)
volk_16u_byteswap_neonv8 == Vec(Swaps16, Swaps16V, 16)
volk_16u_byteswap_rvv == Rvv(Swaps16, Swaps16V)
volk_16u_byteswap_rva23 == Rvv(Swaps16, Swaps16V)

Swaps32 == Swaps(4)
Swaps32V(w) == <<Shuffle(BytesOf(4, w), Turned(4))>>
BytesTurned(x) ==
  LET byte1 == Shuffle(x, <<-1, -1, -1, 0>>)
      byte2 == Shuffle(Shuffle(x, <<-1, 0, 1, 2>>), <<-1, -1, 2, -1>>)
      byte3 == Shuffle(Shuffle(x, <<1, 2, 3, -1>>), <<-1, 1, -1, -1>>)
      byte4 == Shuffle(x, <<3, -1, -1, -1>>)
  IN  Filled(Filled(Filled(byte1, byte4), byte2), byte3)
Swaps32Sse2(w) == <<BytesTurned(BytesOf(4, w))>>
Swaps32Table(w) ==
  <<Looked(BytesOf(4, w), <<24, 16, 8, 0, 25, 17, 9, 1>> \o <<26, 18, 10, 2, 27, 19, 11, 3>>
                      \o <<28, 20, 12, 4, 29, 21, 13, 5>> \o <<30, 22, 14, 6, 31, 23, 15, 7>>)>>
volk_32u_byteswap_u_avx2 == Vec(Swaps32, Swaps32V, 8)
volk_32u_byteswap_u_sse2 == Vec(Swaps32, Swaps32Sse2, 4)
volk_32u_byteswap_neon == Vec(Swaps32, Swaps32Table, 8)
volk_32u_byteswap_neonv8 == Vec(Swaps32, Swaps32V, 8)
volk_32u_byteswap_generic == Generic(Swaps32)
volk_32u_byteswap_a_avx2 == Vec(Swaps32, Swaps32V, 8)
volk_32u_byteswap_a_sse2 == Vec(Swaps32, Swaps32Sse2, 4)
volk_32u_byteswap_rvv == Rvv(Swaps32, Swaps32V)
volk_32u_byteswap_rva23 == Rvv(Swaps32, Swaps32V)

Swaps64 == Swaps(8)
Swaps64V(w) == <<Shuffle(BytesOf(8, w), Turned(8))>>
Swaps64Sse2(w) ==
  <<Shuffle(BytesTurned(BytesOf(8, w)), Wide(<<1, 0, 3, 2>>, 4))>>
volk_64u_byteswap_u_sse2 == Vec(Swaps64, Swaps64Sse2, 2)
volk_64u_byteswap_neon == Vec(Swaps64, Swaps64V, 8)
volk_64u_byteswap_generic == Generic(Swaps64)
volk_64u_byteswap_a_avx2 == Vec(Swaps64, Swaps64V, 4)
volk_64u_byteswap_a_ssse3 == Vec(Swaps64, Swaps64V, 2)
volk_64u_byteswap_a_sse2 == Vec(Swaps64, Swaps64Sse2, 2)
volk_64u_byteswap_u_avx2 == Vec(Swaps64, Swaps64V, 4)
volk_64u_byteswap_u_ssse3 == Vec(Swaps64, Swaps64V, 2)
volk_64u_byteswap_rvv == Rvv(Swaps64, Swaps64V)
volk_64u_byteswap_rva23 == Rvv(Swaps64, Swaps64V)

(* Products of complex numbers of 16-bit parts: each part against the      *)
(* other shifted by a lane, and every second lane of it kept.              *)
ShortProduct(a, b) ==
  LET DownOne(x) == Shuffle(x, <<1, 2, 3, 4, 5, 6, 7, -1>>)
      UpOne(x) == Shuffle(x, <<-1, 0, 1, 2, 3, 4, 5, 6>>)
      c == Times(a, b)
      real == Minus(c, DownOne(c))
      imag == Plus(Times(a, UpOne(b)), Times(b, UpOne(a)))
  IN  Filled(Shuffle(real, <<0, -1>>), Shuffle(imag, <<-1, 1>>))
ShortProductV(w) == <<ShortProduct(Points(1, w), Points(2, w))>>
volk_16ic_x2_multiply_16ic_generic == Generic(CProduct)
volk_16ic_x2_multiply_16ic_a_sse2 == Vec(CProduct, ShortProductV, 4)
volk_16ic_x2_multiply_16ic_u_sse2 == Vec(CProduct, ShortProductV, 4)
volk_16ic_x2_multiply_16ic_u_avx2 == Vec(CProduct, ShortProductV, 8)
volk_16ic_x2_multiply_16ic_a_avx2 == Vec(CProduct, ShortProductV, 8)
volk_16ic_x2_multiply_16ic_neon == Vec(CProduct, CProductPlanes, 4)
volk_16ic_x2_multiply_16ic_neonv8 == Vec(CProduct, CProductPlanes, 8)
volk_16ic_x2_multiply_16ic_rvv == Rvv(CProduct, CProductPlanes)
volk_16ic_x2_multiply_16ic_rvvseg == Rvv(CProduct, CProductPlanes)

(* Products with conjugates: madd adds the products of neighbours.         *)
Madd(x, y) ==
  LET t == Times(x, y) IN Plus(Every(t, 2, 0), Every(t, 2, 1))
MaddReal(w) == Madd(Points(1, w), Points(2, w))
MaddImag(w) == Madd(Points(1, w), Swapped(SignOdd(Points(2, w))))
ConjFraction ==
  EachPoint(LAMBDA p : LET z == CTimes(Complex(1, p), Conjugated(Complex(2, p)))
                       IN  << <<Fraction(z[1]), Fraction(z[2])>> >>)
ConjFractionPlanes(w) == <<Each(Fraction, ConjProductPlanes(w)[1])>>
ConjFractionAvx2(w) ==
  LET low == Each(Fraction, UnpackLow(MaddReal(w), MaddImag(w), 4))
      high == Each(Fraction, UnpackHigh(MaddReal(w), MaddImag(w), 4))
  IN  <<Halves(low, high, <<0, 2>>) \o Halves(low, high, <<1, 3>>)>>
ConjFractionSse41(w) ==
  <<Each(Fraction, UnpackLow(MaddReal(w), MaddImag(w), 4)
                   \o UnpackHigh(MaddReal(w), MaddImag(w), 4))>>
volk_8ic_x2_s32f_multiply_conjugate_32fc_a_avx2 == Vec(ConjFraction, ConjFractionAvx2, 8)
volk_8ic_x2_s32f_multiply_conjugate_32fc_a_sse4_1 == Vec(ConjFraction, ConjFractionSse41, 4)
volk_8ic_x2_s32f_multiply_conjugate_32fc_generic == Generic(ConjFraction)
volk_8ic_x2_s32f_multiply_conjugate_32fc_neon == Vec(ConjFraction, ConjFractionPlanes, 8)
volk_8ic_x2_s32f_multiply_conjugate_32fc_u_avx2 == Vec(ConjFraction, ConjFractionAvx2, 8)
volk_8ic_x2_s32f_multiply_conjugate_32fc_rvv == Rvv(ConjFraction, ConjFractionPlanes)
volk_8ic_x2_s32f_multiply_conjugate_32fc_rvvseg == Rvv(ConjFraction, ConjFractionPlanes)

(* The same, kept in 16 bits by packs: a real part may be one too large    *)
(* for them.  (The rvv kernels wrap that one: they have no definition      *)
(* here.)                                                                  *)
InShort(x) == Apply("16 bits", <<x>>)
ConjShort ==
  EachPoint(LAMBDA p : LET z == CTimes(Complex(1, p), Conjugated(Complex(2, p)))
                       IN  << <<InShort(z[1]), InShort(z[2])>> >>)
ConjShortPlanes(w) == <<Each(InShort, ConjProductPlanes(w)[1])>>
ConjShortPacked(w) ==
  <<Pack(Each(InShort, UnpackLow(MaddReal(w), MaddImag(w), 4)),
         Each(InShort, UnpackHigh(MaddReal(w), MaddImag(w), 4)), 4)>>
volk_8ic_x2_multiply_conjugate_16ic_a_avx2 == Vec(ConjShort, ConjShortPacked, 8)
volk_8ic_x2_multiply_conjugate_16ic_a_sse4_1 == Vec(ConjShort, ConjShortPacked, 4)
volk_8ic_x2_multiply_conjugate_16ic_generic == Generic(ConjShort)
volk_8ic_x2_multiply_conjugate_16ic_neon == Vec(ConjShort, ConjShortPlanes, 8)
volk_8ic_x2_multiply_conjugate_16ic_u_avx2 == Vec(ConjShort, ConjShortPacked, 8)
==============================================================================
