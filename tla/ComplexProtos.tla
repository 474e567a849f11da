---------------------------- MODULE ComplexProtos -----------------------------
(***************************************************************************)
(* The proto-kernels on complex numbers: a point is two lanes, real and    *)
(* imaginary part; what generic computes for a point, what the vectors     *)
(* hold, and one definition per C function, named like it.  At the end the *)
(* kernels between floats and doubles.                                     *)
(***************************************************************************)
EXTENDS LaneProtos

(* Complex numbers as pairs of terms: point p of input i, and a scalar.    *)
Complex(i, p) == <<In(i, 2 * p), In(i, 2 * p + 1)>>
Re == Atom(<<"re", <<>>>>)
Im == Atom(<<"im", <<>>>>)
CPlus(x, y) == <<x[1] ++ y[1], x[2] ++ y[2]>>
CTimes(x, y) == <<x[1] ** y[1] -- x[2] ** y[2], x[1] ** y[2] ++ x[2] ** y[1]>>
Conjugated(x) == <<x[1], Negated(x[2])>>
Square(x) == x ** x
AbsSquared(x) == Square(x[1]) ++ Square(x[2])

(* Vectors of w complex numbers, as they lie in memory, and as planes of   *)
(* real and imaginary parts (vld2, vlseg2, vnsrl).                         *)
Points(i, w) == Load(i, 0, 2 * w)
Reals(i, w) == Every(Points(i, w), 2, 0)
Imags(i, w) == Every(Points(i, w), 2, 1)
Swapped(x) == Shuffle(x, <<1, 0, 3, 2>>)
Signs(x) == Each(Negated, x)

(* The helpers of include/volk.                                            *)
complexmul_ps(x, y) ==
  AddSub(Times(x, Shuffle(y, <<0, 0, 2, 2>>)), Times(Swapped(x), Shuffle(y, <<1, 1, 3, 3>>)))
complexconjugatemul_ps(x, y) ==
  Plus(Times(x, Shuffle(y, <<0, 0, 2, 2>>)), Times(Swapped(x), SignOdd(Shuffle(y, <<1, 1, 3, 3>>))))
complexconjugatemul_ps_sse3(x, y) == complexmul_ps(x, SignOdd(y))
magnitudesquared_ps_sse3(x, y) == HAdd(Each(Square, x), Each(Square, y))
magnitudesquared_ps_sse(x, y) ==
  Plus(Each(Square, ShufflePair(x, y, <<0, 2, 0, 2>>)), Each(Square, ShufflePair(x, y, <<1, 3, 1, 3>>)))
magnitudesquared_ps_avx(x, y) ==
  LET xx == Each(Square, x)
      yy == Each(Square, y)
  IN  HAdd(Halves(xx, yy, <<0, 2>>), Halves(xx, yy, <<1, 3>>))
magnitudesquared_ps_avx2(x, y) ==
  Gather(HAdd(Each(Square, x), Each(Square, y)), <<0, 1, 4, 5, 2, 3, 6, 7>>)

CSum == EachPoint(LAMBDA p : <<CPlus(Complex(1, p), Complex(2, p))>>)
CSumV(w) == <<Plus(Points(1, w), Points(2, w))>>
volk_32fc_x2_add_32fc_u_avx == Vec(CSum, CSumV, 4)
volk_32fc_x2_add_32fc_a_avx == Vec(CSum, CSumV, 4)
volk_32fc_x2_add_32fc_u_sse == Vec(CSum, CSumV, 2)
volk_32fc_x2_add_32fc_generic == Generic(CSum)
volk_32fc_x2_add_32fc_a_sse == Vec(CSum, CSumV, 2)
volk_32fc_x2_add_32fc_u_neon == Vec(CSum, CSumV, 2)
volk_32fc_x2_add_32fc_neonv8 == Vec(CSum, CSumV, 4)
volk_32fc_x2_add_32fc_rvv == Rvv(CSum, CSumV)

SumReal == EachPoint(LAMBDA p : <<CPlus(Complex(1, p), <<In(2, p), Zero>>)>>)
SumRealAvx(w) ==
  LET zeros == Splat(Zero, w)
      b1 == UnpackLow(Load(2, 0, w), zeros, 4)
      b2 == UnpackHigh(Load(2, 0, w), zeros, 4)
  IN  <<Plus(Load(1, 0, w), Halves(b1, b2, <<0, 2>>)) \o Plus(Load(1, w, w), Halves(b1, b2, <<1, 3>>))>>
SumRealNeon(w) ==
  LET a(o, k) == Every(Load(1, 2 * o, w), 4, k)
      b(o, k) == Every(Load(2, o, w \div 2), 2, k)
      Half(o) == Weave(<<Plus(a(o, 0), b(o, 0)), a(o, 1), Plus(a(o, 2), b(o, 1)), a(o, 3)>>)
  IN  <<Half(0) \o Half(w \div 2)>>
SumRealV(w) == <<Plus(Points(1, w), Weave(<<Load(2, 0, w), Splat(Zero, w)>>))>>
volk_32fc_32f_add_32fc_generic == Generic(SumReal)
volk_32fc_32f_add_32fc_u_avx == Vec(SumReal, SumRealAvx, 8)
volk_32fc_32f_add_32fc_a_avx == Vec(SumReal, SumRealAvx, 8)
volk_32fc_32f_add_32fc_neon == Vec(SumReal, SumRealNeon, 16)
volk_32fc_32f_add_32fc_neonv8 == Vec(SumReal, SumRealV, 8)
volk_32fc_32f_add_32fc_rvv == Rvv(SumReal, SumRealV)

CProduct == EachPoint(LAMBDA p : <<CTimes(Complex(1, p), Complex(2, p))>>)
CProductV(w) == <<complexmul_ps(Points(1, w), Points(2, w))>>
CProductPlanes(w) ==
  <<Weave(<<Minus(Times(Reals(1, w), Reals(2, w)), Times(Imags(1, w), Imags(2, w))),
            Plus(Times(Reals(1, w), Imags(2, w)), Times(Imags(1, w), Reals(2, w)))>>)>>
volk_32fc_x2_multiply_32fc_u_avx2_fma == Vec(CProduct, CProductV, 4)
volk_32fc_x2_multiply_32fc_u_avx == Vec(CProduct, CProductV, 4)
volk_32fc_x2_multiply_32fc_u_sse3 == Vec(CProduct, CProductV, 2)
volk_32fc_x2_multiply_32fc_generic == Generic(CProduct)
volk_32fc_x2_multiply_32fc_a_avx2_fma == Vec(CProduct, CProductV, 4)
volk_32fc_x2_multiply_32fc_a_avx == Vec(CProduct, CProductV, 4)
volk_32fc_x2_multiply_32fc_a_sse3 == Vec(CProduct, CProductV, 2)
volk_32fc_x2_multiply_32fc_neon == Vec(CProduct, CProductPlanes, 4)
volk_32fc_x2_multiply_32fc_neonv8 == Vec2(CProduct, CProductPlanes, 8, 4)
volk_32fc_x2_multiply_32fc_rvv == Rvv(CProduct, CProductPlanes)
volk_32fc_x2_multiply_32fc_rvvseg == Rvv(CProduct, CProductPlanes)

ConjProduct == EachPoint(LAMBDA p : <<CTimes(Complex(1, p), Conjugated(Complex(2, p)))>>)
ConjProductV(w) == <<complexconjugatemul_ps(Points(1, w), Points(2, w))>>
ConjProductSse(w) == <<complexconjugatemul_ps_sse3(Points(1, w), Points(2, w))>>
ConjProductNeon(w) ==
  LET i2 == Signs(Imags(2, w))
  IN  <<Weave(<<Minus(Times(Reals(1, w), Reals(2, w)), Times(Imags(1, w), i2)),
                Plus(Times(Reals(1, w), i2), Times(Imags(1, w), Reals(2, w)))>>)>>
ConjProductPlanes(w) ==
  <<Weave(<<Plus(Times(Reals(1, w), Reals(2, w)), Times(Imags(1, w), Imags(2, w))),
            Minus(Times(Imags(1, w), Reals(2, w)), Times(Reals(1, w), Imags(2, w)))>>)>>
volk_32fc_x2_multiply_conjugate_32fc_u_avx == Vec(ConjProduct, ConjProductV, 4)
volk_32fc_x2_multiply_conjugate_32fc_u_sse3 == Vec(ConjProduct, ConjProductSse, 2)
volk_32fc_x2_multiply_conjugate_32fc_generic == Generic(ConjProduct)
volk_32fc_x2_multiply_conjugate_32fc_a_avx == Vec(ConjProduct, ConjProductV, 4)
volk_32fc_x2_multiply_conjugate_32fc_a_sse3 == Vec(ConjProduct, ConjProductSse, 2)
volk_32fc_x2_multiply_conjugate_32fc_neon == Vec(ConjProduct, ConjProductNeon, 4)
volk_32fc_x2_multiply_conjugate_32fc_neonv8 == Vec(ConjProduct, ConjProductPlanes, 4)
volk_32fc_x2_multiply_conjugate_32fc_rvv == Rvv(ConjProduct, ConjProductPlanes)
volk_32fc_x2_multiply_conjugate_32fc_rvvseg == Rvv(ConjProduct, ConjProductPlanes)

Conjugate == EachPoint(LAMBDA p : <<Conjugated(Complex(1, p))>>)
ConjugateV(w) == <<SignOdd(Points(1, w))>>
ConjugateNeon(w) == <<Weave(<<Reals(1, w), Signs(Imags(1, w))>>)>>
volk_32fc_conjugate_32fc_u_avx == Vec(Conjugate, ConjugateV, 4)
volk_32fc_conjugate_32fc_u_sse3 == Vec(Conjugate, ConjugateV, 2)
volk_32fc_conjugate_32fc_generic == Generic(Conjugate)
volk_32fc_conjugate_32fc_a_avx == Vec(Conjugate, ConjugateV, 4)
volk_32fc_conjugate_32fc_a_sse3 == Vec(Conjugate, ConjugateV, 2)
volk_32fc_conjugate_32fc_a_neon == Vec(Conjugate, ConjugateNeon, 4)
volk_32fc_conjugate_32fc_neonv8 == Vec(Conjugate, ConjugateV, 4)
volk_32fc_conjugate_32fc_rvv == Rvv(Conjugate, ConjugateV)

RealProduct == EachPoint(LAMBDA p : << <<In(1, 2 * p) ** In(2, p), In(1, 2 * p + 1) ** In(2, p)>> >>)
RealProductAvx(w) ==
  LET b == Load(2, 0, w)
      Twice(h) == Gather(Halves(b, b, <<h, h>>), <<0, 0, 1, 1, 6, 6, 7, 7>>)
  IN  <<Times(Load(1, 0, w), Twice(0)) \o Times(Load(1, w, w), Twice(1))>>
RealProductSse(w) ==
  LET b == Load(2, 0, w)
  IN  <<Times(Load(1, 0, w), Shuffle(b, <<0, 0, 1, 1>>)) \o Times(Load(1, w, w), Shuffle(b, <<2, 2, 3, 3>>))>>
RealProductV(w) == <<Weave(<<Times(Reals(1, w), Load(2, 0, w)), Times(Imags(1, w), Load(2, 0, w))>>)>>
volk_32fc_32f_multiply_32fc_a_avx == Vec(RealProduct, RealProductAvx, 8)
volk_32fc_32f_multiply_32fc_a_sse == Vec(RealProduct, RealProductSse, 4)
volk_32fc_32f_multiply_32fc_generic == Generic(RealProduct)
volk_32fc_32f_multiply_32fc_neon == Vec(RealProduct, RealProductV, 4)
volk_32fc_32f_multiply_32fc_neonv8 == Vec2(RealProduct, RealProductV, 8, 4)
volk_32fc_32f_multiply_32fc_rvv == Rvv(RealProduct, RealProductV)

ScalarProduct == EachPoint(LAMBDA p : <<CTimes(Complex(1, p), <<Re, Im>>)>>)
ScalarProductV(w) ==
  LET x == Points(1, w)
  IN  <<AddSub(Times(x, Splat(Re, 2 * w)), Times(Swapped(x), Splat(Im, 2 * w)))>>
ScalarProductPlanes(w) ==
  LET re == Splat(Re, w)
      im == Splat(Im, w)
  IN  <<Weave(<<Minus(Times(Reals(1, w), re), Times(Imags(1, w), im)),
                Plus(Times(Imags(1, w), re), Times(Reals(1, w), im))>>)>>
(* Eight points written out per round in generic.                          *)
volk_32fc_s32fc_multiply2_32fc_u_avx_fma == Vec(ScalarProduct, ScalarProductV, 4)
volk_32fc_s32fc_multiply2_32fc_u_avx == Vec(ScalarProduct, ScalarProductV, 4)
volk_32fc_s32fc_multiply2_32fc_u_sse3 == Vec(ScalarProduct, ScalarProductV, 2)
volk_32fc_s32fc_multiply2_32fc_generic == Unrolled(ScalarProduct, 8)
volk_32fc_s32fc_multiply2_32fc_a_avx_fma == Vec(ScalarProduct, ScalarProductV, 4)
volk_32fc_s32fc_multiply2_32fc_a_avx == Vec(ScalarProduct, ScalarProductV, 4)
volk_32fc_s32fc_multiply2_32fc_a_sse3 == Vec(ScalarProduct, ScalarProductV, 2)
volk_32fc_s32fc_multiply2_32fc_neon == Vec(ScalarProduct, ScalarProductPlanes, 4)
volk_32fc_s32fc_multiply2_32fc_neonv8 == Vec2(ScalarProduct, ScalarProductPlanes, 8, 4)

(* All of volk_32fc_s32fc_multiply_32fc hand the address of the scalar on. *)
volk_32fc_s32fc_multiply_32fc_u_avx_fma == volk_32fc_s32fc_multiply2_32fc_u_avx_fma
volk_32fc_s32fc_multiply_32fc_u_avx == volk_32fc_s32fc_multiply2_32fc_u_avx
volk_32fc_s32fc_multiply_32fc_u_sse3 == volk_32fc_s32fc_multiply2_32fc_u_sse3
volk_32fc_s32fc_multiply_32fc_generic == volk_32fc_s32fc_multiply2_32fc_generic
volk_32fc_s32fc_multiply_32fc_a_avx_fma == volk_32fc_s32fc_multiply2_32fc_a_avx_fma
volk_32fc_s32fc_multiply_32fc_a_avx == volk_32fc_s32fc_multiply2_32fc_a_avx
volk_32fc_s32fc_multiply_32fc_a_sse3 == volk_32fc_s32fc_multiply2_32fc_a_sse3
volk_32fc_s32fc_multiply_32fc_neon == volk_32fc_s32fc_multiply2_32fc_neon
volk_32fc_s32fc_multiply_32fc_neonv8 == volk_32fc_s32fc_multiply2_32fc_neonv8

ConjProductSum == EachPoint(LAMBDA p :
  <<CPlus(Complex(1, p), CTimes(Conjugated(Complex(2, p)), <<Re, Im>>))>>)
ConjProductSumV(w) ==
  <<Plus(Points(1, w), complexconjugatemul_ps(Weave(<<Splat(Re, w), Splat(Im, w)>>), Points(2, w)))>>
ConjProductSumSse(w) ==
  <<Plus(Points(1, w), complexconjugatemul_ps_sse3(Weave(<<Splat(Re, w), Splat(Im, w)>>), Points(2, w)))>>
ConjProductSumNeon(w) ==
  LET i2 == Signs(Imags(2, w))
      re == Splat(Re, w)
      im == Splat(Im, w)
  IN  <<Weave(<<Plus(Reals(1, w), Minus(Times(Reals(2, w), re), Times(i2, im))),
                Plus(Imags(1, w), Plus(Times(i2, re), Times(Reals(2, w), im)))>>)>>
ConjProductSumPlanes(w) ==
  LET re == Splat(Re, w)
      im == Splat(Im, w)
  IN  <<Weave(<<Plus(Reals(1, w), Plus(Times(Reals(2, w), re), Times(Imags(2, w), im))),
                Plus(Imags(1, w), Minus(Times(Reals(2, w), im), Times(Imags(2, w), re)))>>)>>
volk_32fc_x2_s32fc_multiply_conjugate_add2_32fc_generic == Unrolled(ConjProductSum, 8)
volk_32fc_x2_s32fc_multiply_conjugate_add2_32fc_u_avx == Vec(ConjProductSum, ConjProductSumV, 4)
volk_32fc_x2_s32fc_multiply_conjugate_add2_32fc_u_sse3 == Vec(ConjProductSum, ConjProductSumSse, 2)
volk_32fc_x2_s32fc_multiply_conjugate_add2_32fc_a_avx == Vec(ConjProductSum, ConjProductSumV, 4)
volk_32fc_x2_s32fc_multiply_conjugate_add2_32fc_a_sse3 == Vec(ConjProductSum, ConjProductSumSse, 2)
volk_32fc_x2_s32fc_multiply_conjugate_add2_32fc_neon == Vec(ConjProductSum, ConjProductSumNeon, 4)
volk_32fc_x2_s32fc_multiply_conjugate_add2_32fc_neonv8 == Vec(ConjProductSum, ConjProductSumPlanes, 4)
volk_32fc_x2_s32fc_multiply_conjugate_add2_32fc_rvv == Rvv(ConjProductSum, ConjProductSumPlanes)
volk_32fc_x2_s32fc_multiply_conjugate_add2_32fc_rvvseg == Rvv(ConjProductSum, ConjProductSumPlanes)

volk_32fc_x2_s32fc_multiply_conjugate_add_32fc_generic == volk_32fc_x2_s32fc_multiply_conjugate_add2_32fc_generic
volk_32fc_x2_s32fc_multiply_conjugate_add_32fc_u_avx == volk_32fc_x2_s32fc_multiply_conjugate_add2_32fc_u_avx
volk_32fc_x2_s32fc_multiply_conjugate_add_32fc_u_sse3 == volk_32fc_x2_s32fc_multiply_conjugate_add2_32fc_u_sse3
volk_32fc_x2_s32fc_multiply_conjugate_add_32fc_a_avx == volk_32fc_x2_s32fc_multiply_conjugate_add2_32fc_a_avx
volk_32fc_x2_s32fc_multiply_conjugate_add_32fc_a_sse3 == volk_32fc_x2_s32fc_multiply_conjugate_add2_32fc_a_sse3
volk_32fc_x2_s32fc_multiply_conjugate_add_32fc_neon == volk_32fc_x2_s32fc_multiply_conjugate_add2_32fc_neon
volk_32fc_x2_s32fc_multiply_conjugate_add_32fc_neonv8 == volk_32fc_x2_s32fc_multiply_conjugate_add2_32fc_neonv8

(* Between floats and doubles, lane by lane.                               *)
(* Halves of a vector are widened, or two vectors narrowed to the halves   *)
(* of one.                                                                 *)
Widened(x) == Apply("double", <<x>>)
Narrowed(x) == Apply("float", <<x>>)
Doubles == Unary(Widened)
DoublesV(w) == <<Each(Widened, Low(Load(1, 0, w))) \o Each(Widened, High(Load(1, 0, w)))>>
volk_32f_convert_64f_u_avx == Vec(Doubles, DoublesV, 4)
volk_32f_convert_64f_u_sse2 == Vec(Doubles, DoublesV, 4)
volk_32f_convert_64f_generic == Generic(Doubles)
volk_32f_convert_64f_a_avx == Vec(Doubles, DoublesV, 4)
volk_32f_convert_64f_a_sse2 == Vec(Doubles, DoublesV, 4)
volk_32f_convert_64f_neonv8 == Vec(Doubles, DoublesV, 8)
volk_32f_convert_64f_rvv == Rvv(Doubles, DoublesV)

Floats == Unary(Narrowed)
FloatsV(w) == <<Each(Narrowed, Load(1, 0, w \div 2)) \o Each(Narrowed, Load(1, w \div 2, w \div 2))>>
volk_64f_convert_32f_u_avx512f == Vec(Floats, FloatsV, 16)
volk_64f_convert_32f_u_avx == Vec(Floats, FloatsV, 8)
volk_64f_convert_32f_u_sse2 == Vec(Floats, FloatsV, 4)
volk_64f_convert_32f_generic == Generic(Floats)
volk_64f_convert_32f_a_avx512f == Vec(Floats, FloatsV, 16)
volk_64f_convert_32f_a_avx == Vec(Floats, FloatsV, 8)
volk_64f_convert_32f_a_sse2 == Vec(Floats, FloatsV, 4)
volk_64f_convert_32f_neonv8 == Vec(Floats, FloatsV, 8)
volk_64f_convert_32f_rvv == Rvv(Floats, LAMBDA w : UnaryV(Narrowed, w))

WideSum == Binary(LAMBDA x, y : Widened(x) ++ y)
WideSumV(w) ==
  <<Plus(Each(Widened, Low(Load(1, 0, w))), Load(2, 0, w \div 2))
      \o Plus(Each(Widened, High(Load(1, 0, w))), Load(2, w \div 2, w \div 2))>>
volk_32f_64f_add_64f_generic == Generic(WideSum)
volk_32f_64f_add_64f_neonv8 == Vec(WideSum, WideSumV, 4)
volk_32f_64f_add_64f_u_avx == Vec(WideSum, WideSumV, 8)
volk_32f_64f_add_64f_a_avx == Vec(WideSum, WideSumV, 8)
volk_32f_64f_add_64f_rvv == Rvv(WideSum, LAMBDA w : BinaryV(LAMBDA x, y : Widened(x) ++ y, w))

WideProduct == Binary(LAMBDA x, y : Widened(x) ** y)
WideProductV(w) ==
  <<Times(Each(Widened, Low(Load(1, 0, w))), Load(2, 0, w \div 2))
      \o Times(Each(Widened, High(Load(1, 0, w))), Load(2, w \div 2, w \div 2))>>
volk_32f_64f_multiply_64f_generic == Generic(WideProduct)
volk_32f_64f_multiply_64f_u_avx == Vec(WideProduct, WideProductV, 8)
volk_32f_64f_multiply_64f_a_avx == Vec(WideProduct, WideProductV, 8)
volk_32f_64f_multiply_64f_neonv8 == Vec(WideProduct, WideProductV, 8)
volk_32f_64f_multiply_64f_rvv == Rvv(WideProduct, LAMBDA w : BinaryV(LAMBDA x, y : Widened(x) ** y, w))
==============================================================================
