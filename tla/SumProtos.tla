------------------------------ MODULE SumProtos -------------------------------
(***************************************************************************)
(* The proto-kernels that add up: what generic adds for a point, what a    *)
(* round adds to which register, and one definition per C function, named  *)
(* like it. The numbers behind the vectors are of registers and of lanes   *)
(* of each. What a function does with the finished sums (rounding them,    *)
(* the square root of a standard deviation, the constant of a polynomial)  *)
(* is the same in all and left out; so is that 16-bit sums saturate, which *)
(* some proto-kernels do and some do not.                                  *)
(***************************************************************************)
EXTENDS ComplexProtos

(* Registers that hold m vectors of w elements of input 1, or what is made *)
(* of them.                                                                *)
OfVectors(G(_, _), m, w) == [r \in 1 .. m |-> G((r - 1) * w, w)]
Sum32f == EachPoint(LAMBDA p : <<In(1, p)>>)
Elements(k, w) == Load(1, k, w)
volk_32f_accumulator_s32f_a_avx512f == VecSum(Sum32f, OfVectors(Elements, 1, 16), OneSum, 16)
volk_32f_accumulator_s32f_a_avx == VecSum(Sum32f, OfVectors(Elements, 1, 8), OneSum, 8)
volk_32f_accumulator_s32f_u_avx512f == VecSum(Sum32f, OfVectors(Elements, 1, 16), OneSum, 16)
volk_32f_accumulator_s32f_u_avx == VecSum(Sum32f, OfVectors(Elements, 1, 8), OneSum, 8)
volk_32f_accumulator_s32f_a_sse == VecSum(Sum32f, OfVectors(Elements, 1, 4), OneSum, 4)
volk_32f_accumulator_s32f_u_sse == VecSum(Sum32f, OfVectors(Elements, 1, 4), OneSum, 4)
volk_32f_accumulator_s32f_neon == VecSum(Sum32f, OfVectors(Elements, 1, 4), OneSum, 4)
volk_32f_accumulator_s32f_neonv8 == VecSum(Sum32f, OfVectors(Elements, 2, 4), OneSum, 8)
volk_32f_accumulator_s32f_generic == GenericSum(Sum32f)
volk_32f_accumulator_s32f_rvv == RvvSum(Sum32f, OfVectors(Elements, 1, VL), OneSum)

Dot == EachPoint(LAMBDA p : <<In(1, p) ** In(2, p)>>)
Products(k, w) == Times(Load(1, k, w), Load(2, k, w))
(* dp_ps(x, y, 0xF0 + 2^o): lane o of every four holds the sum of the four *)
(* products, the others nothing; four such vectors are the lanes of one.   *)
dp_ps(x, y, o) ==
  LET xy == Times(x, y)
  IN  [l \in DOMAIN x |-> IF (l - 1) % 4 = o THEN Total(SubSeq(xy, l - o, l - o + 3)) ELSE Zero]
FourDots(i, j, w) == <<PlusAll([r \in 1 .. 4 |-> dp_ps(Load(i, (r - 1) * w, w), Load(j, (r - 1) * w, w), r - 1)])>>
volk_32f_x2_dot_prod_32f_generic == GenericSum(Dot)
volk_32f_x2_dot_prod_32f_u_sse == VecSum(Dot, OfVectors(Products, 4, 4), OneSum, 16)
volk_32f_x2_dot_prod_32f_u_sse3 == VecSum(Dot, OfVectors(Products, 4, 4), OneSum, 16)
volk_32f_x2_dot_prod_32f_u_sse4_1 == VecSum(Dot, FourDots(1, 2, 4), OneSum, 16)
volk_32f_x2_dot_prod_32f_u_avx == VecSum(Dot, OfVectors(Products, 2, 8), OneSum, 16)
volk_32f_x2_dot_prod_32f_u_avx2_fma == VecSum(Dot, OfVectors(Products, 1, 8), OneSum, 8)
volk_32f_x2_dot_prod_32f_u_avx512f == VecSum(Dot, OfVectors(Products, 1, 16), OneSum, 16)
volk_32f_x2_dot_prod_32f_a_sse == VecSum(Dot, OfVectors(Products, 4, 4), OneSum, 16)
volk_32f_x2_dot_prod_32f_a_sse3 == VecSum(Dot, OfVectors(Products, 4, 4), OneSum, 16)
volk_32f_x2_dot_prod_32f_a_sse4_1 == VecSum(Dot, FourDots(1, 2, 4), OneSum, 16)
volk_32f_x2_dot_prod_32f_a_avx == VecSum(Dot, OfVectors(Products, 2, 8), OneSum, 16)
volk_32f_x2_dot_prod_32f_a_avx2_fma == VecSum(Dot, OfVectors(Products, 1, 8), OneSum, 8)
volk_32f_x2_dot_prod_32f_a_avx512f == VecSum(Dot, OfVectors(Products, 1, 16), OneSum, 16)
volk_32f_x2_dot_prod_32f_neon == VecSum(Dot, OfVectors(Products, 4, 4), OneSum, 16)
volk_32f_x2_dot_prod_32f_neonv8 == VecSum(Dot, OfVectors(Products, 4, 4), OneSum, 16)
volk_32f_x2_dot_prod_32f_rvv == RvvSum(Dot, OfVectors(Products, 1, VL), OneSum)

volk_64f_x2_dot_prod_64f_generic == GenericSum(Dot)
volk_64f_x2_dot_prod_64f_u_sse2 == VecSum(Dot, OfVectors(Products, 4, 2), OneSum, 8)
volk_64f_x2_dot_prod_64f_u_avx == VecSum(Dot, OfVectors(Products, 2, 4), OneSum, 8)
volk_64f_x2_dot_prod_64f_u_avx2_fma == VecSum(Dot, OfVectors(Products, 2, 4), OneSum, 8)
volk_64f_x2_dot_prod_64f_u_avx512f == VecSum(Dot, OfVectors(Products, 1, 8), OneSum, 8)
volk_64f_x2_dot_prod_64f_a_sse2 == VecSum(Dot, OfVectors(Products, 4, 2), OneSum, 8)
volk_64f_x2_dot_prod_64f_a_avx == VecSum(Dot, OfVectors(Products, 2, 4), OneSum, 8)
volk_64f_x2_dot_prod_64f_a_avx2_fma == VecSum(Dot, OfVectors(Products, 2, 4), OneSum, 8)
volk_64f_x2_dot_prod_64f_a_avx512f == VecSum(Dot, OfVectors(Products, 1, 8), OneSum, 8)
volk_64f_x2_dot_prod_64f_neonv8 == VecSum(Dot, OfVectors(Products, 4, 2), OneSum, 8)
volk_64f_x2_dot_prod_64f_rvv == RvvSum(Dot, OfVectors(Products, 1, VL), OneSum)

volk_32f_x2_dot_prod_16i_generic == GenericSum(Dot)
volk_32f_x2_dot_prod_16i_a_sse == VecSum(Dot, OfVectors(Products, 4, 4), OneSum, 16)
volk_32f_x2_dot_prod_16i_a_avx2_fma == VecSum(Dot, OfVectors(Products, 4, 8), OneSum, 32)
volk_32f_x2_dot_prod_16i_a_avx == VecSum(Dot, OfVectors(Products, 4, 8), OneSum, 32)
volk_32f_x2_dot_prod_16i_a_avx512f == VecSum(Dot, OfVectors(Products, 4, 16), OneSum, 64)
volk_32f_x2_dot_prod_16i_u_sse == VecSum(Dot, OfVectors(Products, 4, 4), OneSum, 16)
volk_32f_x2_dot_prod_16i_u_avx2_fma == VecSum(Dot, OfVectors(Products, 4, 8), OneSum, 32)
volk_32f_x2_dot_prod_16i_u_avx == VecSum(Dot, OfVectors(Products, 4, 8), OneSum, 32)
volk_32f_x2_dot_prod_16i_u_avx512f == VecSum(Dot, OfVectors(Products, 4, 16), OneSum, 64)
volk_32f_x2_dot_prod_16i_neon == VecSum(Dot, OfVectors(Products, 4, 4), OneSum, 16)
volk_32f_x2_dot_prod_16i_neonv8 == VecSum(Dot, OfVectors(Products, 4, 4), OneSum, 16)
volk_32f_x2_dot_prod_16i_rvv == volk_32f_x2_dot_prod_32f_rvv

SumOfSquares == EachPoint(LAMBDA p : <<Square(In(1, p))>>)
Squares(k, w) == Each(Square, Load(1, k, w))
volk_32f_s32f_stddev_32f_a_sse4_1 == VecSum(SumOfSquares, FourDots(1, 1, 4), OneSum, 16)
volk_32f_s32f_stddev_32f_a_sse == VecSum(SumOfSquares, OfVectors(Squares, 1, 4), OneSum, 4)
volk_32f_s32f_stddev_32f_a_avx == VecSum(SumOfSquares, FourDots(1, 1, 8), OneSum, 32)
volk_32f_s32f_stddev_32f_generic == GenericSum(SumOfSquares)
volk_32f_s32f_stddev_32f_neon == VecSum(SumOfSquares, OfVectors(Squares, 1, 4), OneSum, 4)
volk_32f_s32f_stddev_32f_neonv8 == VecSum(SumOfSquares, OfVectors(Squares, 2, 4), OneSum, 8)
volk_32f_s32f_stddev_32f_u_avx == VecSum(SumOfSquares, FourDots(1, 1, 8), OneSum, 32)
volk_32f_s32f_stddev_32f_rvv == RvvSum(SumOfSquares, OfVectors(Squares, 1, VL), OneSum)

(* A polynomial without its constant, of elements that are cut off below.  *)
Cut(x) == Apply("max", <<x, Scalar>>)
Center(k) == Atom(<<"center", <<k>>>>)
Poly(x) ==
  LET sq == Square(Cut(x))
  IN  Center(0) ** Cut(x) ++ Center(1) ** sq ++ (Center(2) ** (Cut(x) ** sq) ++ Center(3) ** Square(sq))
SumOfPoly == EachPoint(LAMBDA p : <<Poly(In(1, p))>>)
Polys(k, w) == Each(Poly, Load(1, k, w))
HAddAll(x) == LET h == HAdd(x[1], x[2]) IN LET hh == HAdd(h, h) IN <<HAdd(hh, hh)[1]>>
HAddHalves(x) == LET h == HAdd(x[1], x[1]) IN <<h[1] ++ h[2] ++ (h[5] ++ h[6])>>
(* The powers in four registers (NEON).                                    *)
Powers(w) ==
  LET c == Each(Cut, Load(1, 0, w))
      sq == Each(Square, c)
  IN  <<Times(Splat(Center(0), w), c), Times(Splat(Center(1), w), sq),
        Times(Splat(Center(2), w), Times(sq, c)), Times(Splat(Center(3), w), Times(Times(sq, c), c))>>
volk_32f_x3_sum_of_poly_32f_a_sse3 == VecSum(SumOfPoly, OfVectors(Polys, 2, 4), HAddAll, 8)
volk_32f_x3_sum_of_poly_32f_a_avx2_fma == VecSum(SumOfPoly, OfVectors(Polys, 1, 8), HAddHalves, 8)
volk_32f_x3_sum_of_poly_32f_a_avx == VecSum(SumOfPoly, OfVectors(Polys, 1, 8), HAddHalves, 8)
volk_32f_x3_sum_of_poly_32f_generic == VecSum(SumOfPoly, OfVectors(Polys, 8, 1), OneSum, 8)
volk_32f_x3_sum_of_poly_32f_neon == VecSum(SumOfPoly, Powers(4), OneSum, 4)
volk_32f_x3_sum_of_poly_32f_u_avx_fma == VecSum(SumOfPoly, OfVectors(Polys, 1, 8), HAddHalves, 8)
volk_32f_x3_sum_of_poly_32f_u_avx == VecSum(SumOfPoly, OfVectors(Polys, 1, 8), HAddHalves, 8)
volk_32f_x3_sum_of_poly_32f_rvv == RvvSum(SumOfPoly, OfVectors(Polys, 1, VL), OneSum)

(* Complex numbers, or products with them: real and imaginary parts lie in *)
(* turn in a register, or in registers of their own (planes).              *)
CSum32fc == EachPoint(LAMBDA p : Complex(1, p))
volk_32fc_accumulator_s32fc_a_avx512f == VecSum(CSum32fc, OfVectors(Elements, 1, 16), PairSum, 8)
volk_32fc_accumulator_s32fc_u_avx512f == VecSum(CSum32fc, OfVectors(Elements, 1, 16), PairSum, 8)
volk_32fc_accumulator_s32fc_generic == GenericSum(CSum32fc)
volk_32fc_accumulator_s32fc_u_avx == VecSum(CSum32fc, OfVectors(Elements, 1, 8), PairSum, 4)
volk_32fc_accumulator_s32fc_u_sse == VecSum(CSum32fc, OfVectors(Elements, 1, 4), PairSum, 2)
volk_32fc_accumulator_s32fc_a_avx == VecSum(CSum32fc, OfVectors(Elements, 1, 8), PairSum, 4)
volk_32fc_accumulator_s32fc_a_sse == VecSum(CSum32fc, OfVectors(Elements, 1, 4), PairSum, 2)
volk_32fc_accumulator_s32fc_neon == VecSum(CSum32fc, OfVectors(Elements, 4, 4), PairSum, 8)
volk_32fc_accumulator_s32fc_neonv8 == VecSum(CSum32fc, OfVectors(Elements, 4, 4), PairSum, 8)
volk_32fc_accumulator_s32fc_rvv == RvvSum(CSum32fc, OfVectors(Elements, 1, 2 * VL), PairSum)

(* Products of complex numbers (input i) and real ones (input j).  Every   *)
(* real number is in two lanes: by a permutation of all lanes (avx512), by *)
(* unpacking a vector with itself and regrouping halves (avx), or by       *)
(* unpacking (sse).                                                        *)
RealDot(i, j) == EachPoint(LAMBDA p : <<In(i, 2 * p) ** In(j, p), In(i, 2 * p + 1) ** In(j, p)>>)
RealDotAvx512(i, j) ==
  [h \in 1 .. 2 |->
     Times(Load(i, 16 * (h - 1), 16),
           Gather(Load(j, 0, 16), [l \in 1 .. 16 |-> 8 * (h - 1) + (l - 1) \div 2]))]
Unpacked(x) == <<UnpackLow(x, x, 4), UnpackHigh(x, x, 4)>>
RealDotAvx(i, j) ==
  [r \in 1 .. 4 |->
     LET b == Unpacked(Load(j, 8 * ((r - 1) \div 2), 8))
     IN  Times(Load(i, 8 * (r - 1), 8),
               Halves(b[1], b[2], IF r % 2 = 1 THEN <<0, 2>> ELSE <<1, 3>>))]
RealDotSse(i, j) ==
  [r \in 1 .. 4 |->
     Times(Load(i, 4 * (r - 1), 4), Unpacked(Load(j, 4 * ((r - 1) \div 2), 4))[((r - 1) % 2) + 1])]
RealDotPlanes(i, j, m, w) ==
  [r \in 1 .. 2 * m |->
     LET k == (r - 1) \div 2
     IN  Times(Every(Load(i, 2 * k * w, 2 * w), 2, (r - 1) % 2), Load(j, k * w, w))]
volk_32fc_32f_dot_prod_32fc_generic == GenericSum(RealDot(1, 2))
volk_32fc_32f_dot_prod_32fc_a_avx512f == VecSum(RealDot(1, 2), RealDotAvx512(1, 2), PairSum, 16)
volk_32fc_32f_dot_prod_32fc_a_avx2_fma == VecSum(RealDot(1, 2), RealDotAvx(1, 2), PairSum, 16)
volk_32fc_32f_dot_prod_32fc_a_avx == VecSum(RealDot(1, 2), RealDotAvx(1, 2), PairSum, 16)
volk_32fc_32f_dot_prod_32fc_a_sse == VecSum(RealDot(1, 2), RealDotSse(1, 2), PairSum, 8)
volk_32fc_32f_dot_prod_32fc_u_avx512f == VecSum(RealDot(1, 2), RealDotAvx512(1, 2), PairSum, 16)
volk_32fc_32f_dot_prod_32fc_u_avx2_fma == VecSum(RealDot(1, 2), RealDotAvx(1, 2), PairSum, 16)
volk_32fc_32f_dot_prod_32fc_u_avx == VecSum(RealDot(1, 2), RealDotAvx(1, 2), PairSum, 16)
volk_32fc_32f_dot_prod_32fc_neon_unroll == VecSum(RealDot(1, 2), RealDotPlanes(1, 2, 2, 4), PlaneSum, 8)
volk_32fc_32f_dot_prod_32fc_a_neon == VecSum(RealDot(1, 2), RealDotPlanes(1, 2, 1, 4), PlaneSum, 4)
volk_32fc_32f_dot_prod_32fc_neonv8 == VecSum(RealDot(1, 2), RealDotPlanes(1, 2, 2, 4), PlaneSum, 8)
volk_32fc_32f_dot_prod_32fc_u_sse == VecSum(RealDot(1, 2), RealDotSse(1, 2), PairSum, 8)
volk_32fc_32f_dot_prod_32fc_rvv == RvvSum(RealDot(1, 2), RealDotPlanes(1, 2, 1, VL), PlaneSum)
volk_32fc_32f_dot_prod_32fc_rvvseg == RvvSum(RealDot(1, 2), RealDotPlanes(1, 2, 1, VL), PlaneSum)

(* Generic has four accumulators, and adds what is left to the first of    *)
(* them.                                                                   *)
RealDotUnrolled(i, j) ==
  LET four == [r \in 1 .. 4 |-> RealDot(i, j)[r]]
      rest == [r \in 1 .. 4 |-> IF r = 1 THEN four[1] ELSE <<Zero, Zero>>]
      keep == Registers(four)
  IN  Adding(RealDot(i, j), <<Adds(4, four, <<>>), Adds(1, rest, LanesOf(keep))>>, PairSum(keep))
volk_16i_32fc_dot_prod_32fc_generic == RealDotUnrolled(2, 1)
volk_16i_32fc_dot_prod_32fc_neon == VecSum(RealDot(2, 1), RealDotPlanes(2, 1, 1, 4), PlaneSum, 4)
volk_16i_32fc_dot_prod_32fc_neonv8 == VecSum(RealDot(2, 1), RealDotPlanes(2, 1, 2, 4), PlaneSum, 8)
volk_16i_32fc_dot_prod_32fc_u_sse == VecSum(RealDot(2, 1), RealDotSse(2, 1), PairSum, 8)
volk_16i_32fc_dot_prod_32fc_u_avx2_fma == VecSum(RealDot(2, 1), RealDotAvx(2, 1), PairSum, 16)
volk_16i_32fc_dot_prod_32fc_u_avx2 == VecSum(RealDot(2, 1), RealDotAvx(2, 1), PairSum, 16)
volk_16i_32fc_dot_prod_32fc_a_sse == VecSum(RealDot(2, 1), RealDotSse(2, 1), PairSum, 8)
volk_16i_32fc_dot_prod_32fc_a_avx2 == VecSum(RealDot(2, 1), RealDotAvx(2, 1), PairSum, 16)
volk_16i_32fc_dot_prod_32fc_a_avx2_fma == VecSum(RealDot(2, 1), RealDotAvx(2, 1), PairSum, 16)
volk_16i_32fc_dot_prod_32fc_rvv == RvvSum(RealDot(2, 1), RealDotPlanes(2, 1, 1, VL), PlaneSum)
volk_16i_32fc_dot_prod_32fc_rvvseg == RvvSum(RealDot(2, 1), RealDotPlanes(2, 1, 1, VL), PlaneSum)

CDot == EachPoint(LAMBDA p : CTimes(Complex(1, p), Complex(2, p)))
CDotV(w) == <<complexmul_ps(Points(1, w), Points(2, w))>>
CDotPlanes(w) == <<Minus(Times(Reals(2, w), Reals(1, w)), Times(Imags(2, w), Imags(1, w))), Plus(Times(Reals(2, w), Imags(1, w)), Times(Imags(2, w), Reals(1, w)))>>
(* Sums and differences in registers of their own, for two numbers per     *)
(* four lanes (vld2), and for four (vld4).                                 *)
CDotFour(w) ==
  <<Times(Reals(2, w), Reals(1, w)), Times(Reals(2, w), Imags(1, w)),
    Signs(Times(Imags(2, w), Imags(1, w))), Times(Imags(2, w), Reals(1, w))>>
CDotEight(w) ==
  LET a(k) == Every(Points(2, 2 * w), 4, k)
      b(k) == Every(Points(1, 2 * w), 4, k)
  IN  <<Times(a(0), b(0)), Times(a(0), b(1)), Times(a(2), b(2)), Times(a(2), b(3)),
        Signs(Times(a(1), b(1))), Times(a(1), b(0)), Signs(Times(a(3), b(3))), Times(a(3), b(2))>>
(* Eight points in two pairs of planes, once four more in the first pair,  *)
(* then one by one (neonv8).                                               *)
TwoPlanes(total, G(_)) ==
  LET eight == [r \in 1 .. 4 |-> IF r <= 2 THEN Low(G(8)[r]) ELSE High(G(8)[r - 2])]
      four == G(4) \o <<Splat(Zero, 4), Splat(Zero, 4)>>
      keep == Registers(four)
  IN  SumTail(total, <<Adds(8, eight, <<>>), Adds(4, four, LanesOf(keep))>>, PlaneSum(keep))
CDotPairs == [r \in 1 .. 2 |-> CDot[r]]
volk_32fc_x2_dot_prod_32fc_generic == VecSum(CDot, CDotPairs, PairSum, 2)
volk_32fc_x2_dot_prod_32fc_u_sse3 == VecSum(CDot, CDotV(2), PairSum, 2)
volk_32fc_x2_dot_prod_32fc_u_avx == VecSum(CDot, CDotV(4), PairSum, 4)
volk_32fc_x2_dot_prod_32fc_u_avx_fma == VecSum(CDot, CDotV(4), PairSum, 4)
volk_32fc_x2_dot_prod_32fc_a_sse3 == VecSum(CDot, CDotV(2), PairSum, 2)
volk_32fc_x2_dot_prod_32fc_neon == VecSum(CDot, CDotPlanes(4), PlaneSum, 4)
volk_32fc_x2_dot_prod_32fc_neon_opttests == VecSum(CDot, CDotPlanes(4), PlaneSum, 4)
volk_32fc_x2_dot_prod_32fc_neon_optfma == VecSum(CDot, CDotFour(4), PlaneSum, 4)
volk_32fc_x2_dot_prod_32fc_neon_optfmaunroll == VecSum(CDot, CDotEight(4), PlaneSum, 8)
volk_32fc_x2_dot_prod_32fc_neonv8 == TwoPlanes(CDot, CDotPlanes)
volk_32fc_x2_dot_prod_32fc_a_avx == VecSum(CDot, CDotV(4), PairSum, 4)
volk_32fc_x2_dot_prod_32fc_a_avx_fma == VecSum(CDot, CDotV(4), PairSum, 4)
volk_32fc_x2_dot_prod_32fc_rvv == RvvSum(CDot, CDotPlanes(VL), PlaneSum)
volk_32fc_x2_dot_prod_32fc_rvvseg == RvvSum(CDot, CDotPlanes(VL), PlaneSum)

ConjDot == EachPoint(LAMBDA p : CTimes(Complex(1, p), Conjugated(Complex(2, p))))
(* The products with the real and with the imaginary parts in a register   *)
(* each: addsub subtracts in the lanes that are to be imaginary, and the   *)
(* parts are swapped at the end.                                           *)
ConjDotV(w) ==
  LET a == Points(1, w)
      b == Points(2, w)
  IN  <<Times(a, Shuffle(b, <<0, 0, 2, 2>>)),
        AddSub(Splat(Zero, 2 * w), Times(a, Shuffle(b, <<1, 1, 3, 3>>)))>>
Folded(s) ==
  LET t == Plus(s, Shuffle(s, <<2, 3, 0, 1>>)) IN <<t[1], t[2]>>
SwappedSum(x) == Plus(x[1], Swapped(x[2]))
FoldSse3(x) == Folded(SwappedSum(x))
FoldAvx(x) == LET s == SwappedSum(x) IN Folded(Plus(s, Halves(s, s, <<1, 0>>)))
FoldAvx512(x) ==
  LET s == SwappedSum(x)
      t == Plus(High(s), Low(s))
  IN  Folded(Plus(High(t), Low(t)))
(* The sum of taps times conjugated input, whose conjugate is the result   *)
(* (NEON); all planes.                                                     *)
ConjOfSum ==
  LET OtherWay(p) == CTimes(Complex(2, p), Conjugated(Complex(1, p)))
      x == <<Plus(Times(Reals(2, 4), Reals(1, 4)), Times(Imags(2, 4), Imags(1, 4))),
             Minus(Times(Imags(2, 4), Reals(1, 4)), Times(Reals(2, 4), Imags(1, 4)))>>
  IN  Adding(ConjDot, <<Adds(4, x, <<>>), Adds(1, <<OtherWay(0)>>, PlaneSum(Registers(x)))>>,
             <<Lane(1), Negated(Lane(2))>>)
ConjDotPlanes(w) ==
  <<Plus(Times(Reals(1, w), Reals(2, w)), Times(Imags(1, w), Imags(2, w))),
    Minus(Times(Imags(1, w), Reals(2, w)), Times(Reals(1, w), Imags(2, w)))>>
ConjDotPairs == [r \in 1 .. 2 |-> ConjDot[r]]
volk_32fc_x2_conjugate_dot_prod_32fc_generic == GenericSum(ConjDot)
volk_32fc_x2_conjugate_dot_prod_32fc_block == VecSum(ConjDot, ConjDotPairs, PairSum, 2)
volk_32fc_x2_conjugate_dot_prod_32fc_u_sse3 == VecSum(ConjDot, ConjDotV(2), FoldSse3, 2)
volk_32fc_x2_conjugate_dot_prod_32fc_a_sse3 == VecSum(ConjDot, ConjDotV(2), FoldSse3, 2)
volk_32fc_x2_conjugate_dot_prod_32fc_u_avx == VecSum(ConjDot, ConjDotV(4), FoldAvx, 4)
volk_32fc_x2_conjugate_dot_prod_32fc_a_avx == VecSum(ConjDot, ConjDotV(4), FoldAvx, 4)
volk_32fc_x2_conjugate_dot_prod_32fc_u_avx512dq == VecSum(ConjDot, ConjDotV(8), FoldAvx512, 8)
volk_32fc_x2_conjugate_dot_prod_32fc_a_avx512dq == VecSum(ConjDot, ConjDotV(8), FoldAvx512, 8)
volk_32fc_x2_conjugate_dot_prod_32fc_neon == ConjOfSum
volk_32fc_x2_conjugate_dot_prod_32fc_neonv8 == TwoPlanes(ConjDot, ConjDotPlanes)
volk_32fc_x2_conjugate_dot_prod_32fc_rvv == RvvSum(ConjDot, ConjDotPlanes(VL), PlaneSum)
volk_32fc_x2_conjugate_dot_prod_32fc_rvvseg == RvvSum(ConjDot, ConjDotPlanes(VL), PlaneSum)

(* 16 bits: the vectors of products are shifted by a lane (within 128      *)
(* bits) to meet the other part; every second lane is then of use, and the *)
(* others are masked off.                                                  *)
CDotShifted(w) ==
  LET a == Points(1, w)
      b == Points(2, w)
      Right(x) == Shuffle(x, <<1, 2, 3, 4, 5, 6, 7, -1>>)
      Left(x) == Shuffle(x, <<-1, 0, 1, 2, 3, 4, 5, 6>>)
      c == Times(a, b)
  IN  <<Minus(c, Right(c)), Plus(Times(a, Left(b)), Times(b, Left(a)))>>
MaskedSum(x) == <<Total(Every(x[1], 2, 0)), Total(Every(x[2], 2, 1))>>
volk_16ic_x2_dot_prod_16ic_generic == GenericSum(CDot)
volk_16ic_x2_dot_prod_16ic_a_sse2 == VecSum(CDot, CDotShifted(4), MaskedSum, 4)
volk_16ic_x2_dot_prod_16ic_u_sse2 == VecSum(CDot, CDotShifted(4), MaskedSum, 4)
volk_16ic_x2_dot_prod_16ic_u_avx2 == VecSum(CDot, CDotShifted(8), MaskedSum, 8)
volk_16ic_x2_dot_prod_16ic_a_avx2 == VecSum(CDot, CDotShifted(8), MaskedSum, 8)
volk_16ic_x2_dot_prod_16ic_neon == VecSum(CDot, CDotPlanes(4), PlaneSum, 4)
volk_16ic_x2_dot_prod_16ic_neon_vma == VecSum(CDot, CDotPlanes(4), PlaneSum, 4)
volk_16ic_x2_dot_prod_16ic_neon_optvma == VecSum(CDot, CDotFour(4), PlaneSum, 4)
volk_16ic_x2_dot_prod_16ic_neonv8 == VecSum(CDot, CDotFour(8), PlaneSum, 8)
volk_16ic_x2_dot_prod_16ic_rvv == RvvSum(CDot, CDotPlanes(VL), PlaneSum)
volk_16ic_x2_dot_prod_16ic_rvvseg == RvvSum(CDot, CDotPlanes(VL), PlaneSum)
==============================================================================
