------------------------------ MODULE LaneProtos ------------------------------
(***************************************************************************)
(* The proto-kernels that work lane by lane: what generic computes for a   *)
(* point, what the vectors hold, and one definition per C function, named  *)
(* like it.  For a kernel X, X is the sequence of values, XV(w) the        *)
(* vectors of w points.  A number behind the name of a vector is the       *)
(* number of points per round.                                             *)
(***************************************************************************)
EXTENDS SymbolicLanes

Unary(Op(_)) == EachPoint(LAMBDA p : << <<Op(In(1, p))>> >>)
UnaryV(Op(_), w) == <<Each(Op, Load(1, 0, w))>>
Binary(Op(_, _)) == EachPoint(LAMBDA p : << <<Op(In(1, p), In(2, p))>> >>)
BinaryV(Op(_, _), w) == <<Lanewise(Op, Load(1, 0, w), Load(2, 0, w))>>

SumOf(x, y) == x ++ y
Sum == Binary(SumOf)
SumV(w) == BinaryV(SumOf, w)

volk_32f_x2_add_32f_u_avx512f == Vec(Sum, SumV, 16)
volk_32f_x2_add_32f_u_avx == Vec(Sum, SumV, 8)
volk_32f_x2_add_32f_u_sse == Vec(Sum, SumV, 4)
volk_32f_x2_add_32f_generic == Generic(Sum)
volk_32f_x2_add_32f_a_avx512f == Vec(Sum, SumV, 16)
volk_32f_x2_add_32f_a_avx == Vec(Sum, SumV, 8)
volk_32f_x2_add_32f_a_sse == Vec(Sum, SumV, 4)
volk_32f_x2_add_32f_u_neon == Vec(Sum, SumV, 4)
volk_32f_x2_add_32f_neonv8 == Vec2(Sum, SumV, 8, 4)
volk_32f_x2_add_32f_rvv == Rvv(Sum, SumV)

volk_64f_x2_add_64f_generic == Generic(Sum)
volk_64f_x2_add_64f_neonv8 == Vec(Sum, SumV, 4)
volk_64f_x2_add_64f_u_sse2 == Vec(Sum, SumV, 2)
volk_64f_x2_add_64f_u_avx == Vec(Sum, SumV, 4)
volk_64f_x2_add_64f_a_sse2 == Vec(Sum, SumV, 2)
volk_64f_x2_add_64f_a_avx == Vec(Sum, SumV, 4)
volk_64f_x2_add_64f_rvv == Rvv(Sum, SumV)

DifferenceOf(x, y) == x -- y
Difference == Binary(DifferenceOf)
DifferenceV(w) == BinaryV(DifferenceOf, w)

volk_32f_x2_subtract_32f_generic == Generic(Difference)
volk_32f_x2_subtract_32f_a_avx512f == Vec(Difference, DifferenceV, 16)
volk_32f_x2_subtract_32f_a_avx == Vec(Difference, DifferenceV, 8)
volk_32f_x2_subtract_32f_a_sse == Vec(Difference, DifferenceV, 4)
volk_32f_x2_subtract_32f_neon == Vec(Difference, DifferenceV, 4)
volk_32f_x2_subtract_32f_neonv8 == Vec2(Difference, DifferenceV, 8, 4)
volk_32f_x2_subtract_32f_u_avx512f == Vec(Difference, DifferenceV, 16)
volk_32f_x2_subtract_32f_u_avx == Vec(Difference, DifferenceV, 8)
volk_32f_x2_subtract_32f_rvv == Rvv(Difference, DifferenceV)

ProductOf(x, y) == x ** y
Product == Binary(ProductOf)
ProductV(w) == BinaryV(ProductOf, w)

volk_32f_x2_multiply_32f_u_sse == Vec(Product, ProductV, 4)
volk_32f_x2_multiply_32f_u_avx512f == Vec(Product, ProductV, 16)
volk_32f_x2_multiply_32f_u_avx == Vec(Product, ProductV, 8)
volk_32f_x2_multiply_32f_generic == Generic(Product)
volk_32f_x2_multiply_32f_a_sse == Vec(Product, ProductV, 4)
volk_32f_x2_multiply_32f_a_avx512f == Vec(Product, ProductV, 16)
volk_32f_x2_multiply_32f_a_avx == Vec(Product, ProductV, 8)
volk_32f_x2_multiply_32f_neon == Vec(Product, ProductV, 4)
volk_32f_x2_multiply_32f_neonv8 == Vec2(Product, ProductV, 8, 4)
volk_32f_x2_multiply_32f_rvv == Rvv(Product, ProductV)

volk_64f_x2_multiply_64f_generic == Generic(Product)
volk_64f_x2_multiply_64f_neonv8 == Vec(Product, ProductV, 4)
volk_64f_x2_multiply_64f_u_sse2 == Vec(Product, ProductV, 2)
volk_64f_x2_multiply_64f_u_avx == Vec(Product, ProductV, 4)
volk_64f_x2_multiply_64f_a_sse2 == Vec(Product, ProductV, 2)
volk_64f_x2_multiply_64f_a_avx == Vec(Product, ProductV, 4)
volk_64f_x2_multiply_64f_rvv == Rvv(Product, ProductV)

RatioOf(x, y) == Quotient(x, y)
Ratio == Binary(RatioOf)
RatioV(w) == BinaryV(RatioOf, w)

volk_32f_x2_divide_32f_a_avx512f == Vec(Ratio, RatioV, 16)
volk_32f_x2_divide_32f_a_avx == Vec(Ratio, RatioV, 8)
volk_32f_x2_divide_32f_a_sse == Vec(Ratio, RatioV, 4)
volk_32f_x2_divide_32f_neon == Vec(Ratio, RatioV, 16)
volk_32f_x2_divide_32f_neonv8 == Vec(Ratio, RatioV, 8)
volk_32f_x2_divide_32f_generic == Generic(Ratio)
volk_32f_x2_divide_32f_u_avx512f == Vec(Ratio, RatioV, 16)
volk_32f_x2_divide_32f_u_avx == Vec(Ratio, RatioV, 8)
volk_32f_x2_divide_32f_rvv == Rvv(Ratio, RatioV)

LargerOf(x, y) == Apply("max", <<x, y>>)
Larger == Binary(LargerOf)
LargerV(w) == BinaryV(LargerOf, w)

volk_32f_x2_max_32f_a_avx512f == Vec(Larger, LargerV, 16)
volk_32f_x2_max_32f_a_sse == Vec(Larger, LargerV, 4)
volk_32f_x2_max_32f_a_avx == Vec(Larger, LargerV, 8)
volk_32f_x2_max_32f_neon == Vec(Larger, LargerV, 4)
volk_32f_x2_max_32f_neonv8 == Vec(Larger, LargerV, 8)
volk_32f_x2_max_32f_generic == Generic(Larger)
volk_32f_x2_max_32f_u_avx512f == Vec(Larger, LargerV, 16)
volk_32f_x2_max_32f_u_avx == Vec(Larger, LargerV, 8)
volk_32f_x2_max_32f_rvv == Rvv(Larger, LargerV)

volk_64f_x2_max_64f_a_avx512f == Vec(Larger, LargerV, 8)
volk_64f_x2_max_64f_a_avx == Vec(Larger, LargerV, 4)
volk_64f_x2_max_64f_a_sse2 == Vec(Larger, LargerV, 2)
volk_64f_x2_max_64f_generic == Generic(Larger)
volk_64f_x2_max_64f_u_avx512f == Vec(Larger, LargerV, 8)
volk_64f_x2_max_64f_u_avx == Vec(Larger, LargerV, 4)
volk_64f_x2_max_64f_neonv8 == Vec(Larger, LargerV, 4)
volk_64f_x2_max_64f_rvv == Rvv(Larger, LargerV)

SmallerOf(x, y) == Apply("min", <<x, y>>)
Smaller == Binary(SmallerOf)
SmallerV(w) == BinaryV(SmallerOf, w)

volk_32f_x2_min_32f_a_sse == Vec(Smaller, SmallerV, 4)
volk_32f_x2_min_32f_neon == Vec(Smaller, SmallerV, 4)
volk_32f_x2_min_32f_neonv8 == Vec(Smaller, SmallerV, 8)
volk_32f_x2_min_32f_generic == Generic(Smaller)
volk_32f_x2_min_32f_a_avx == Vec(Smaller, SmallerV, 8)
volk_32f_x2_min_32f_a_avx512f == Vec(Smaller, SmallerV, 16)
volk_32f_x2_min_32f_u_avx512f == Vec(Smaller, SmallerV, 16)
volk_32f_x2_min_32f_u_avx == Vec(Smaller, SmallerV, 8)
volk_32f_x2_min_32f_rvv == Rvv(Smaller, SmallerV)

volk_64f_x2_min_64f_a_avx512f == Vec(Smaller, SmallerV, 8)
volk_64f_x2_min_64f_a_avx == Vec(Smaller, SmallerV, 4)
volk_64f_x2_min_64f_a_sse2 == Vec(Smaller, SmallerV, 2)
volk_64f_x2_min_64f_generic == Generic(Smaller)
volk_64f_x2_min_64f_u_avx512f == Vec(Smaller, SmallerV, 8)
volk_64f_x2_min_64f_u_avx == Vec(Smaller, SmallerV, 4)
volk_64f_x2_min_64f_neonv8 == Vec(Smaller, SmallerV, 4)
volk_64f_x2_min_64f_rvv == Rvv(Smaller, SmallerV)

AndOf(x, y) == Apply("and", <<x, y>>)
And == Binary(AndOf)
AndV(w) == BinaryV(AndOf, w)

volk_32i_x2_and_32i_a_avx512f == Vec(And, AndV, 16)
volk_32i_x2_and_32i_a_avx2 == Vec(And, AndV, 8)
volk_32i_x2_and_32i_a_sse == Vec(And, AndV, 4)
volk_32i_x2_and_32i_neon == Vec(And, AndV, 4)
volk_32i_x2_and_32i_neonv8 == Vec(And, AndV, 8)
volk_32i_x2_and_32i_generic == Generic(And)
volk_32i_x2_and_32i_u_avx512f == Vec(And, AndV, 16)
volk_32i_x2_and_32i_u_avx2 == Vec(And, AndV, 8)
volk_32i_x2_and_32i_rvv == Rvv(And, AndV)

OrOf(x, y) == Apply("or", <<x, y>>)
Or == Binary(OrOf)
OrV(w) == BinaryV(OrOf, w)

volk_32i_x2_or_32i_a_avx512f == Vec(Or, OrV, 16)
volk_32i_x2_or_32i_a_avx2 == Vec(Or, OrV, 8)
volk_32i_x2_or_32i_a_sse == Vec(Or, OrV, 4)
volk_32i_x2_or_32i_neon == Vec(Or, OrV, 4)
volk_32i_x2_or_32i_neonv8 == Vec(Or, OrV, 8)
volk_32i_x2_or_32i_generic == Generic(Or)
volk_32i_x2_or_32i_u_avx512f == Vec(Or, OrV, 16)
volk_32i_x2_or_32i_u_avx2 == Vec(Or, OrV, 8)
volk_32i_x2_or_32i_rvv == Rvv(Or, OrV)

OffsetOf(x) == x ++ Scalar
Offset == Unary(OffsetOf)
OffsetV(w) == UnaryV(OffsetOf, w)

volk_32f_s32f_add_32f_generic == Generic(Offset)
volk_32f_s32f_add_32f_u_sse == Vec(Offset, OffsetV, 4)
volk_32f_s32f_add_32f_u_avx == Vec(Offset, OffsetV, 8)
volk_32f_s32f_add_32f_u_neon == Vec(Offset, OffsetV, 4)
volk_32f_s32f_add_32f_neonv8 == Vec(Offset, OffsetV, 8)
volk_32f_s32f_add_32f_a_sse == Vec(Offset, OffsetV, 4)
volk_32f_s32f_add_32f_a_avx == Vec(Offset, OffsetV, 8)
volk_32f_s32f_add_32f_rvv == Rvv(Offset, OffsetV)

ScaledOf(x) == x ** Scalar
Scaled == Unary(ScaledOf)
ScaledV(w) == UnaryV(ScaledOf, w)

volk_32f_s32f_multiply_32f_generic == Generic(Scaled)
volk_32f_s32f_multiply_32f_u_sse == Vec(Scaled, ScaledV, 4)
volk_32f_s32f_multiply_32f_u_avx == Vec(Scaled, ScaledV, 8)
volk_32f_s32f_multiply_32f_a_sse == Vec(Scaled, ScaledV, 4)
volk_32f_s32f_multiply_32f_a_avx == Vec(Scaled, ScaledV, 8)
volk_32f_s32f_multiply_32f_u_neon == Vec(Scaled, ScaledV, 4)
volk_32f_s32f_multiply_32f_neonv8 == Vec(Scaled, ScaledV, 8)
volk_32f_s32f_multiply_32f_rvv == Rvv(Scaled, ScaledV)

(* In place: the vector is its own output.                                 *)
NormalizedOf(x) == x ** Quotient(Number(1), Scalar)
Normalized == Unary(NormalizedOf)
NormalizedV(w) == UnaryV(NormalizedOf, w)

volk_32f_s32f_normalize_a_avx == Vec(Normalized, NormalizedV, 8)
volk_32f_s32f_normalize_a_sse == Vec(Normalized, NormalizedV, 4)
volk_32f_s32f_normalize_generic == Generic(Normalized)
volk_32f_s32f_normalize_u_avx == Vec(Normalized, NormalizedV, 8)
volk_32f_s32f_normalize_neon == Vec(Normalized, NormalizedV, 4)
volk_32f_s32f_normalize_neonv8 == Vec(Normalized, NormalizedV, 8)
volk_32f_s32f_normalize_rvv == Rvv(Normalized, NormalizedV)

SquareRootOf(x) == Root(x)
SquareRoot == Unary(SquareRootOf)
SquareRootV(w) == UnaryV(SquareRootOf, w)

volk_32f_sqrt_32f_generic == Generic(SquareRoot)
volk_32f_sqrt_32f_a_sse == Vec(SquareRoot, SquareRootV, 4)
volk_32f_sqrt_32f_a_avx512 == Vec(SquareRoot, SquareRootV, 16)
volk_32f_sqrt_32f_a_avx2 == Vec(SquareRoot, SquareRootV, 8)
volk_32f_sqrt_32f_a_avx == Vec(SquareRoot, SquareRootV, 8)
volk_32f_sqrt_32f_neon == Vec(SquareRoot, SquareRootV, 4)
volk_32f_sqrt_32f_neonv8 == Vec(SquareRoot, SquareRootV, 4)
volk_32f_sqrt_32f_u_sse == Vec(SquareRoot, SquareRootV, 4)
volk_32f_sqrt_32f_u_avx512 == Vec(SquareRoot, SquareRootV, 16)
volk_32f_sqrt_32f_u_avx2 == Vec(SquareRoot, SquareRootV, 8)
volk_32f_sqrt_32f_u_avx == Vec(SquareRoot, SquareRootV, 8)
volk_32f_sqrt_32f_rvv == Rvv(SquareRoot, SquareRootV)

ReciprocalOf(x) == Quotient(Number(1), x)
Reciprocal == Unary(ReciprocalOf)
ReciprocalV(w) == UnaryV(ReciprocalOf, w)

volk_32f_reciprocal_32f_generic == Generic(Reciprocal)
volk_32f_reciprocal_32f_a_sse == Vec(Reciprocal, ReciprocalV, 4)
volk_32f_reciprocal_32f_a_avx == Vec(Reciprocal, ReciprocalV, 8)
volk_32f_reciprocal_32f_a_avx512 == Vec(Reciprocal, ReciprocalV, 16)
volk_32f_reciprocal_32f_u_sse == Vec(Reciprocal, ReciprocalV, 4)
volk_32f_reciprocal_32f_u_avx == Vec(Reciprocal, ReciprocalV, 8)
volk_32f_reciprocal_32f_u_avx512 == Vec(Reciprocal, ReciprocalV, 16)
volk_32f_reciprocal_32f_neonv8 == Vec(Reciprocal, ReciprocalV, 8)
volk_32f_reciprocal_32f_rvv == Rvv(Reciprocal, ReciprocalV)

CopyOf(x) == x
Copy == Unary(CopyOf)

volk_32f_null_32f_generic == Generic(Copy)
==============================================================================
