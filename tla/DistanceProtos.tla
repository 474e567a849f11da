---------------------------- MODULE DistanceProtos ----------------------------
(***************************************************************************)
(* The proto-kernels on the magnitudes of complex numbers: squared or not, *)
(* distances, quotients.                                                   *)
(***************************************************************************)
EXTENDS ComplexProtos

AbsSquare == EachPoint(LAMBDA p : << <<AbsSquared(Complex(1, p))>> >>)
AbsSquareV(w) == <<magnitudesquared_ps_avx(Load(1, 0, w), Load(1, w, w))>>
AbsSquareSse3(w) == <<magnitudesquared_ps_sse3(Load(1, 0, w), Load(1, w, w))>>
AbsSquareSse(w) == <<magnitudesquared_ps_sse(Load(1, 0, w), Load(1, w, w))>>
AbsSquarePlanes(w) == <<Plus(Each(Square, Reals(1, w)), Each(Square, Imags(1, w)))>>
AbsSquarePairs(w) ==
  LET x == Each(Square, Points(1, w)) IN <<Plus(Every(x, 2, 0), Every(x, 2, 1))>>
volk_32fc_magnitude_squared_32f_u_avx == Vec(AbsSquare, AbsSquareV, 8)
volk_32fc_magnitude_squared_32f_u_sse3 == Vec(AbsSquare, AbsSquareSse3, 4)
volk_32fc_magnitude_squared_32f_u_sse == Vec(AbsSquare, AbsSquareSse, 4)
volk_32fc_magnitude_squared_32f_generic == Generic(AbsSquare)
volk_32fc_magnitude_squared_32f_a_avx == Vec(AbsSquare, AbsSquareV, 8)
volk_32fc_magnitude_squared_32f_a_sse3 == Vec(AbsSquare, AbsSquareSse3, 4)
volk_32fc_magnitude_squared_32f_a_sse == Vec(AbsSquare, AbsSquareSse, 4)
volk_32fc_magnitude_squared_32f_neon == Vec(AbsSquare, AbsSquarePlanes, 4)
volk_32fc_magnitude_squared_32f_neonv8 == Vec2(AbsSquare, AbsSquarePairs, 4, 2)
volk_32fc_magnitude_squared_32f_rvv == Rvv(AbsSquare, AbsSquarePlanes)
volk_32fc_magnitude_squared_32f_rvvseg == Rvv(AbsSquare, AbsSquarePlanes)

Roots(x) == Each(Root, x)
Magnitude == EachPoint(LAMBDA p : << <<Root(AbsSquared(Complex(1, p)))>> >>)
MagnitudeV(w) == <<Roots(magnitudesquared_ps_avx(Load(1, 0, w), Load(1, w, w)))>>
MagnitudeSse3(w) == <<Roots(magnitudesquared_ps_sse3(Load(1, 0, w), Load(1, w, w)))>>
MagnitudeSse(w) == <<Roots(magnitudesquared_ps_sse(Load(1, 0, w), Load(1, w, w)))>>
MagnitudePlanes(w) == <<Roots(Plus(Each(Square, Reals(1, w)), Each(Square, Imags(1, w))))>>
MagnitudeAvx512(w) ==
  LET re == Gather(Points(1, w), [k \in 1 .. w |-> 2 * (k - 1)])
      im == Gather(Points(1, w), [k \in 1 .. w |-> 2 * (k - 1) + 1])
  IN  <<Roots(Plus(Each(Square, re), Each(Square, im)))>>
volk_32fc_magnitude_32f_generic == Generic(Magnitude)
volk_32fc_magnitude_32f_u_avx512f == Vec(Magnitude, MagnitudeAvx512, 8)
volk_32fc_magnitude_32f_u_avx == Vec(Magnitude, MagnitudeV, 8)
volk_32fc_magnitude_32f_u_sse3 == Vec(Magnitude, MagnitudeSse3, 4)
volk_32fc_magnitude_32f_u_sse == Vec(Magnitude, MagnitudeSse, 4)
volk_32fc_magnitude_32f_a_avx512f == Vec(Magnitude, MagnitudeAvx512, 8)
volk_32fc_magnitude_32f_a_avx == Vec(Magnitude, MagnitudeV, 8)
volk_32fc_magnitude_32f_a_sse3 == Vec(Magnitude, MagnitudeSse3, 4)
volk_32fc_magnitude_32f_a_sse == Vec(Magnitude, MagnitudeSse, 4)
volk_32fc_magnitude_32f_neon == Vec(Magnitude, MagnitudePlanes, 4)
volk_32fc_magnitude_32f_neonv8 == Vec(Magnitude, MagnitudePlanes, 4)
volk_32fc_magnitude_32f_rvv == Rvv(Magnitude, MagnitudePlanes)
volk_32fc_magnitude_32f_rvvseg == Rvv(Magnitude, MagnitudePlanes)

(* Distances of points to the one point of input 1, which is in all lanes. *)
Symbol(w) == Weave(<<Splat(Re, w), Splat(Im, w)>>)
Distance(p) == AbsSquared(CPlus(<<Re, Im>>, <<Negated(In(2, 2 * p)), Negated(In(2, 2 * p + 1))>>))
Differences(k, w) == Minus(Symbol(w \div 2), Load(2, k, w))
(* Of the one point two are loaded (avx2).                                 *)
LoadsTwo(proto) == [proto EXCEPT !.once = 2]

Dist == EachPoint(LAMBDA p : << <<Distance(p)>> >>)
DistAvx2(w) == <<magnitudesquared_ps_avx2(Differences(0, w), Differences(w, w))>>
DistAvx2Four ==
  LET x == Each(Square, Differences(0, 8))
  IN  <<High(Gather(HAdd(x, x), <<0, 1, 4, 5, 2, 3, 6, 7>>))>>
DistTwo == LET x == Each(Square, Differences(0, 4)) IN <<High(HAdd(x, x))>>
DistSse3(w) == <<magnitudesquared_ps_sse3(Differences(0, w), Differences(w, w))>>
DistPlanes(w) ==
  LET re == Minus(Splat(Re, w), Reals(2, w))
      im == Minus(Splat(Im, w), Imags(2, w))
  IN  <<Plus(Each(Square, re), Each(Square, im))>>
volk_32fc_x2_square_dist_32f_a_avx2 == LoadsTwo(WithTail(Dist, <<Block(8, DistAvx2(8)), Block(4, DistAvx2Four), Block(2, DistTwo)>>))
volk_32fc_x2_square_dist_32f_a_sse3 == WithTail(Dist, <<Block(4, DistSse3(4)), Block(2, DistTwo)>>)
volk_32fc_x2_square_dist_32f_neon == Vec(Dist, DistPlanes, 4)
volk_32fc_x2_square_dist_32f_neonv8 == Vec(Dist, DistPlanes, 4)
volk_32fc_x2_square_dist_32f_generic == Generic(Dist)
volk_32fc_x2_square_dist_32f_u_avx2 == LoadsTwo(WithTail(Dist, <<Block(8, DistAvx2(8)), Block(4, DistAvx2Four)>>))
volk_32fc_x2_square_dist_32f_rvv == Rvv(Dist, DistPlanes)
volk_32fc_x2_square_dist_32f_rvvseg == Rvv(Dist, DistPlanes)

Scales(x) == Each(LAMBDA t : Scalar ** t, x)
ScaledDist == EachPoint(LAMBDA p : << <<Scalar ** Distance(p)>> >>)
ScaledDistAvx2(w) == <<Scales(magnitudesquared_ps_avx2(Differences(0, w), Differences(w, w)))>>
ScaledDistAvx2Four ==
  LET x == Each(Square, Differences(0, 8))
  IN  <<High(Scales(Gather(HAdd(x, x), <<0, 1, 4, 5, 2, 3, 6, 7>>)))>>
ScaledDistTwo == LET x == Each(Square, Differences(0, 4)) IN <<High(Scales(HAdd(x, x)))>>
ScaledDistSse3(w) == <<Scales(magnitudesquared_ps_sse3(Differences(0, w), Differences(w, w)))>>
ScaledDistPlanes(w) ==
  LET re == Minus(Splat(Re, w), Reals(2, w))
      im == Minus(Splat(Im, w), Imags(2, w))
  IN  <<Scales(Plus(Each(Square, re), Each(Square, im)))>>
ScaledDistAvx(w) == <<Scales(magnitudesquared_ps_avx(Differences(0, w), Differences(w, w)))>>
ScaledDistSse(w) == <<Scales(magnitudesquared_ps_sse(Differences(0, w), Differences(w, w)))>>
volk_32fc_x2_s32f_square_dist_scalar_mult_32f_a_avx2 == WithTail(ScaledDist, <<Block(8, ScaledDistAvx2(8)), Block(4, ScaledDistAvx2Four), Block(2, ScaledDistTwo)>>)
volk_32fc_x2_s32f_square_dist_scalar_mult_32f_a_avx == Vec(ScaledDist, ScaledDistAvx, 8)
volk_32fc_x2_s32f_square_dist_scalar_mult_32f_a_sse3 == WithTail(ScaledDist, <<Block(4, ScaledDistSse3(4)), Block(2, ScaledDistTwo)>>)
volk_32fc_x2_s32f_square_dist_scalar_mult_32f_a_sse == Vec(ScaledDist, ScaledDistSse, 4)
volk_32fc_x2_s32f_square_dist_scalar_mult_32f_generic == Generic(ScaledDist)
volk_32fc_x2_s32f_square_dist_scalar_mult_32f_neon == Vec(ScaledDist, ScaledDistPlanes, 4)
volk_32fc_x2_s32f_square_dist_scalar_mult_32f_neonv8 == Vec(ScaledDist, ScaledDistPlanes, 8)
volk_32fc_x2_s32f_square_dist_scalar_mult_32f_u_avx2 == WithTail(ScaledDist, <<Block(8, ScaledDistAvx2(8)), Block(4, ScaledDistAvx2Four), Block(2, ScaledDistTwo)>>)
volk_32fc_x2_s32f_square_dist_scalar_mult_32f_u_avx == Vec(ScaledDist, ScaledDistAvx, 8)
volk_32fc_x2_s32f_square_dist_scalar_mult_32f_u_sse3 == WithTail(ScaledDist, <<Block(4, ScaledDistSse3(4)), Block(2, ScaledDistTwo)>>)
volk_32fc_x2_s32f_square_dist_scalar_mult_32f_u_sse == Vec(ScaledDist, ScaledDistSse, 4)
volk_32fc_x2_s32f_square_dist_scalar_mult_32f_rvv == Rvv(ScaledDist, ScaledDistPlanes)
volk_32fc_x2_s32f_square_dist_scalar_mult_32f_rvvseg == Rvv(ScaledDist, ScaledDistPlanes)

Quotients(x, y) == Lanewise(Quotient, x, y)
CQuotient ==
  EachPoint(LAMBDA p :
    LET c == CTimes(Complex(1, p), Conjugated(Complex(2, p)))
        d == AbsSquared(Complex(2, p))
    IN  << <<Quotient(c[1], d), Quotient(c[2], d)>> >>)
CQuotientV(w) ==
  LET d == HAdd(Each(Square, Load(2, 0, w)), Each(Square, Load(2, w, w)))
  IN  <<Quotients(complexconjugatemul_ps(Load(1, 0, w), Load(2, 0, w)), Shuffle(d, <<0, 0, 1, 1>>))
          \o Quotients(complexconjugatemul_ps(Load(1, w, w), Load(2, w, w)), Shuffle(d, <<2, 2, 3, 3>>))>>
CQuotientSse(w) ==
  LET d == magnitudesquared_ps_sse3(Load(2, 0, w), Load(2, w, w))
  IN  <<Quotients(complexconjugatemul_ps_sse3(Load(1, 0, w), Load(2, 0, w)), UnpackLow(d, d, 4))
          \o Quotients(complexconjugatemul_ps_sse3(Load(1, w, w), Load(2, w, w)), UnpackHigh(d, d, 4))>>
CQuotientAvx(w) ==
  LET b == Points(2, w)
      d == HAdd(Each(Square, b), Each(Square, b))
  IN  <<Quotients(complexconjugatemul_ps(Points(1, w), b), Shuffle(d, <<0, 2, 1, 3>>))>>
CQuotientAvx512(w) ==
  LET a(k) == Load(1, k, w)
      b(k) == Load(2, k, w)
      d(k) == Plus(Each(Square, b(k)), Each(Square, Swapped(b(k))))
      Half(k) == Quotients(complexconjugatemul_ps(a(k), b(k)), d(k))
  IN  <<Half(0) \o Half(w)>>
CQuotientPlanes(w) ==
  LET d == Plus(Each(Square, Reals(2, w)), Each(Square, Imags(2, w)))
  IN  <<Weave(<<Quotients(Plus(Times(Reals(1, w), Reals(2, w)), Times(Imags(1, w), Imags(2, w))), d),
                Quotients(Minus(Times(Imags(1, w), Reals(2, w)), Times(Reals(1, w), Imags(2, w))), d)>>)>>
volk_32fc_x2_divide_32fc_generic == Generic(CQuotient)
volk_32fc_x2_divide_32fc_u_sse3 == Vec(CQuotient, CQuotientSse, 4)
volk_32fc_x2_divide_32fc_u_avx == Vec(CQuotient, CQuotientAvx, 4)
volk_32fc_x2_divide_32fc_u_avx2_fma == Vec(CQuotient, CQuotientV, 8)
volk_32fc_x2_divide_32fc_u_avx512 == Vec(CQuotient, CQuotientAvx512, 16)
volk_32fc_x2_divide_32fc_a_sse3 == Vec(CQuotient, CQuotientSse, 4)
volk_32fc_x2_divide_32fc_a_avx == Vec(CQuotient, CQuotientV, 8)
volk_32fc_x2_divide_32fc_a_avx2_fma == Vec(CQuotient, CQuotientV, 8)
volk_32fc_x2_divide_32fc_a_avx512 == Vec(CQuotient, CQuotientAvx512, 16)
volk_32fc_x2_divide_32fc_neon == Vec(CQuotient, CQuotientPlanes, 4)
volk_32fc_x2_divide_32fc_neonv8 == Vec(CQuotient, CQuotientPlanes, 4)
volk_32fc_x2_divide_32fc_rvv == Rvv(CQuotient, CQuotientPlanes)
volk_32fc_x2_divide_32fc_rvvseg == Rvv(CQuotient, CQuotientPlanes)
==============================================================================
