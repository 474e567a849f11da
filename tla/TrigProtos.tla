------------------------------ MODULE TrigProtos ------------------------------
(***************************************************************************)
(* The proto-kernels of trigonometric functions: what generic computes for *)
(* a point, what the vectors hold, and one definition per C function,      *)
(* named like it.                                                          *)
(*                                                                         *)
(* The polynomials, which are the same code for every lane, stand for the  *)
(* functions that they approximate; the reduction of the arguments before  *)
(* them is in module Angles.                                               *)
(***************************************************************************)
EXTENDS MoveProtos

SineOf(x) == Apply("sin", <<x>>)
Sines == Unary(SineOf)
SinesV(w) == UnaryV(SineOf, w)
volk_32f_sin_32f_polynomial == Generic(Sines)
volk_32f_sin_32f_a_avx512f == Vec(Sines, SinesV, 16)
volk_32f_sin_32f_a_avx2_fma == Vec(Sines, SinesV, 8)
volk_32f_sin_32f_a_avx2 == Vec(Sines, SinesV, 8)
volk_32f_sin_32f_a_sse4_1 == Vec(Sines, SinesV, 4)
volk_32f_sin_32f_u_avx512f == Vec(Sines, SinesV, 16)
volk_32f_sin_32f_u_avx2_fma == Vec(Sines, SinesV, 8)
volk_32f_sin_32f_u_avx2 == Vec(Sines, SinesV, 8)
volk_32f_sin_32f_u_sse4_1 == Vec(Sines, SinesV, 4)
volk_32f_sin_32f_generic == Generic(Sines)
volk_32f_sin_32f_neon == Vec(Sines, SinesV, 4)
volk_32f_sin_32f_neonv8 == Vec(Sines, SinesV, 4)
volk_32f_sin_32f_rvv == Rvv(Sines, SinesV)

CosineOf(x) == Apply("cos", <<x>>)
Cosines == Unary(CosineOf)
CosinesV(w) == UnaryV(CosineOf, w)
volk_32f_cos_32f_generic == Generic(Cosines)
volk_32f_cos_32f_polynomial == Generic(Cosines)
volk_32f_cos_32f_a_avx512f == Vec(Cosines, CosinesV, 16)
volk_32f_cos_32f_a_avx2_fma == Vec(Cosines, CosinesV, 8)
volk_32f_cos_32f_a_avx2 == Vec(Cosines, CosinesV, 8)
volk_32f_cos_32f_a_sse4_1 == Vec(Cosines, CosinesV, 4)
volk_32f_cos_32f_u_avx512f == Vec(Cosines, CosinesV, 16)
volk_32f_cos_32f_u_avx2_fma == Vec(Cosines, CosinesV, 8)
volk_32f_cos_32f_u_avx2 == Vec(Cosines, CosinesV, 8)
volk_32f_cos_32f_u_sse4_1 == Vec(Cosines, CosinesV, 4)
volk_32f_cos_32f_neon == Vec(Cosines, CosinesV, 4)
volk_32f_cos_32f_neonv8 == Vec(Cosines, CosinesV, 4)
volk_32f_cos_32f_rvv == Rvv(Cosines, CosinesV)

(* Two outputs.                                                            *)
SinCos == EachPoint(LAMBDA p : << <<SineOf(In(1, p))>>, <<CosineOf(In(1, p))>> >>)
SinCosV(w) == <<Each(SineOf, Load(1, 0, w)), Each(CosineOf, Load(1, 0, w))>>
volk_32f_sincos_32f_x2_generic == Generic(SinCos)
volk_32f_sincos_32f_x2_polynomial == Generic(SinCos)
volk_32f_sincos_32f_x2_a_avx512f == Vec(SinCos, SinCosV, 16)
volk_32f_sincos_32f_x2_a_avx2_fma == Vec(SinCos, SinCosV, 8)
volk_32f_sincos_32f_x2_a_avx2 == Vec(SinCos, SinCosV, 8)
volk_32f_sincos_32f_x2_a_sse4_1 == Vec(SinCos, SinCosV, 4)
volk_32f_sincos_32f_x2_u_avx512f == Vec(SinCos, SinCosV, 16)
volk_32f_sincos_32f_x2_u_avx2_fma == Vec(SinCos, SinCosV, 8)
volk_32f_sincos_32f_x2_u_avx2 == Vec(SinCos, SinCosV, 8)
volk_32f_sincos_32f_x2_u_sse4_1 == Vec(SinCos, SinCosV, 4)
volk_32f_sincos_32f_x2_neon == Vec(SinCos, SinCosV, 4)
volk_32f_sincos_32f_x2_neonv8 == Vec(SinCos, SinCosV, 4)

SinesByCosines == Unary(LAMBDA x : Quotient(SineOf(x), CosineOf(x)))
SinesByCosinesV(w) == <<Lanewise(Quotient, Each(SineOf, Load(1, 0, w)), Each(CosineOf, Load(1, 0, w)))>>
volk_32f_tan_32f_a_avx2_fma == Vec(SinesByCosines, SinesByCosinesV, 8)
volk_32f_tan_32f_a_avx2 == Vec(SinesByCosines, SinesByCosinesV, 8)
volk_32f_tan_32f_a_sse4_1 == Vec(SinesByCosines, SinesByCosinesV, 4)
volk_32f_tan_32f_u_avx2_fma == Vec(SinesByCosines, SinesByCosinesV, 8)
volk_32f_tan_32f_u_avx2 == Vec(SinesByCosines, SinesByCosinesV, 8)
volk_32f_tan_32f_u_sse4_1 == Vec(SinesByCosines, SinesByCosinesV, 4)
volk_32f_tan_32f_generic == Generic(SinesByCosines)
volk_32f_tan_32f_neon == Vec(SinesByCosines, SinesByCosinesV, 4)
volk_32f_tan_32f_neonv8 == Vec(SinesByCosines, SinesByCosinesV, 4)
volk_32f_tan_32f_rvv == Rvv(SinesByCosines, SinesByCosinesV)

ArcsineOf(x) == Apply("asin", <<x>>)
Arcsine == Unary(ArcsineOf)
ArcsineV(w) == UnaryV(ArcsineOf, w)
volk_32f_asin_32f_generic == Generic(Arcsine)
volk_32f_asin_32f_a_sse4_1 == Vec(Arcsine, ArcsineV, 4)
volk_32f_asin_32f_a_avx == Vec(Arcsine, ArcsineV, 8)
volk_32f_asin_32f_a_avx2_fma == Vec(Arcsine, ArcsineV, 8)
volk_32f_asin_32f_a_avx512 == Vec(Arcsine, ArcsineV, 16)
volk_32f_asin_32f_u_sse4_1 == Vec(Arcsine, ArcsineV, 4)
volk_32f_asin_32f_u_avx == Vec(Arcsine, ArcsineV, 8)
volk_32f_asin_32f_u_avx2_fma == Vec(Arcsine, ArcsineV, 8)
volk_32f_asin_32f_u_avx512 == Vec(Arcsine, ArcsineV, 16)
volk_32f_asin_32f_neon == Vec(Arcsine, ArcsineV, 4)
volk_32f_asin_32f_neonv8 == Vec(Arcsine, ArcsineV, 4)

ArccosineOf(x) == Atom(<<"pi/2", <<>>>>) -- ArcsineOf(x)
Arccosine == Unary(ArccosineOf)
ArccosineV(w) == UnaryV(ArccosineOf, w)
volk_32f_acos_32f_generic == Generic(Arccosine)
volk_32f_acos_32f_a_sse4_1 == Vec(Arccosine, ArccosineV, 4)
volk_32f_acos_32f_a_avx == Vec(Arccosine, ArccosineV, 8)
volk_32f_acos_32f_a_avx2_fma == Vec(Arccosine, ArccosineV, 8)
volk_32f_acos_32f_a_avx512 == Vec(Arccosine, ArccosineV, 16)
volk_32f_acos_32f_u_sse4_1 == Vec(Arccosine, ArccosineV, 4)
volk_32f_acos_32f_u_avx == Vec(Arccosine, ArccosineV, 8)
volk_32f_acos_32f_u_avx2_fma == Vec(Arccosine, ArccosineV, 8)
volk_32f_acos_32f_u_avx512 == Vec(Arccosine, ArccosineV, 16)
volk_32f_acos_32f_neon == Vec(Arccosine, ArccosineV, 4)
volk_32f_acos_32f_neonv8 == Vec(Arccosine, ArccosineV, 4)

ArctangentOf(x) == Apply("atan", <<x>>)
Arctangent == Unary(ArctangentOf)
ArctangentV(w) == UnaryV(ArctangentOf, w)
volk_32f_atan_32f_generic == Generic(Arctangent)
volk_32f_atan_32f_polynomial == Generic(Arctangent)
volk_32f_atan_32f_a_avx512dq == Vec(Arctangent, ArctangentV, 16)
volk_32f_atan_32f_a_avx2_fma == Vec(Arctangent, ArctangentV, 8)
volk_32f_atan_32f_a_avx2 == Vec(Arctangent, ArctangentV, 8)
volk_32f_atan_32f_a_sse4_1 == Vec(Arctangent, ArctangentV, 4)
volk_32f_atan_32f_neon == Vec(Arctangent, ArctangentV, 4)
volk_32f_atan_32f_neonv8 == Vec(Arctangent, ArctangentV, 8)
volk_32f_atan_32f_u_avx512dq == Vec(Arctangent, ArctangentV, 16)
volk_32f_atan_32f_u_avx2_fma == Vec(Arctangent, ArctangentV, 8)
volk_32f_atan_32f_u_avx2 == Vec(Arctangent, ArctangentV, 8)
volk_32f_atan_32f_u_sse4_1 == Vec(Arctangent, ArctangentV, 4)
volk_32f_atan_32f_rvv == Rvv(Arctangent, ArctangentV)

(* The angle of complex numbers, whose parts come from two vectors:        *)
(* shuffle_ps and permutevar8x32, or permutex2var.                         *)
real_avx2(x, y) == PickedInOrder(x, y, 0)
imag_avx2(x, y) == PickedInOrder(x, y, 1)
real_avx512(x, y) == Gather(x \o y, [l \in 1 .. Len(x) |-> 2 * (l - 1)])
imag_avx512(x, y) == Gather(x \o y, [l \in 1 .. Len(x) |-> 2 * (l - 1) + 1])
AngleOf(x, y) == Apply("atan2", <<y, x>>) ** Quotient(Number(1), Scalar)
Angle == EachPoint(LAMBDA p : << <<AngleOf(In(1, 2 * p), In(1, 2 * p + 1))>> >>)
AngleV(w) == <<Lanewise(AngleOf, Reals(1, w), Imags(1, w))>>
AngleAvx2(w) == LET z(k) == Load(1, k, w) IN <<Lanewise(AngleOf, real_avx2(z(0), z(w)), imag_avx2(z(0), z(w)))>>
AngleAvx512(w) == LET z(k) == Load(1, k, w) IN <<Lanewise(AngleOf, real_avx512(z(0), z(w)), imag_avx512(z(0), z(w)))>>
volk_32fc_s32f_atan2_32f_generic == Generic(Angle)
volk_32fc_s32f_atan2_32f_polynomial == Generic(Angle)
volk_32fc_s32f_atan2_32f_a_avx512dq == Vec(Angle, AngleAvx512, 16)
volk_32fc_s32f_atan2_32f_a_avx2_fma == Vec(Angle, AngleAvx2, 8)
volk_32fc_s32f_atan2_32f_a_avx2 == Vec(Angle, AngleAvx2, 8)
volk_32fc_s32f_atan2_32f_neon == Vec(Angle, AngleV, 4)
volk_32fc_s32f_atan2_32f_neonv8 == Vec(Angle, AngleV, 8)
volk_32fc_s32f_atan2_32f_u_avx512dq == Vec(Angle, AngleAvx512, 16)
volk_32fc_s32f_atan2_32f_u_avx2_fma == Vec(Angle, AngleAvx2, 8)
volk_32fc_s32f_atan2_32f_u_avx2 == Vec(Angle, AngleAvx2, 8)
volk_32fc_s32f_atan2_32f_rvv == Rvv(Angle, AngleV)
volk_32fc_s32f_atan2_32f_rvvseg == Rvv(Angle, AngleV)
==============================================================================
