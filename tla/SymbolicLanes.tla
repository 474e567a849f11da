----------------------------- MODULE SymbolicLanes -----------------------------
(***************************************************************************)
(* Vectors of terms, and what the intrinsics do with them.                 *)
(*                                                                         *)
(* A term is a polynomial in atoms.  An atom is an element of an input, a  *)
(* scalar argument, or an operation other than +, - and * applied to       *)
(* terms, so that two terms are equal if the formulas are, up to the order *)
(* and the grouping of sums and products (and their rounding).             *)
(*                                                                         *)
(* A vector is the sequence of its lanes, the lowest first.                *)
(***************************************************************************)
EXTENDS Integers, Sequences, FiniteSetsExt

(* Counts: sets of pairs <<thing, number>>, one for each thing whose       *)
(* number is not 0.  A monomial counts atoms, a term counts monomials.     *)
Things(c) == {r[1] : r \in c}
Count(c, x) == MapThenSumSet(LAMBDA r : r[2], {r \in c : r[1] = x})
Merged(c, d) ==
  IF Things(c) \cap Things(d) = {} THEN c \cup d
  ELSE {r \in {<<x, Count(c, x) + Count(d, x)>> : x \in Things(c) \cup Things(d)} : r[2] # 0}

Zero == {}
Number(k) == {r \in {<<{}, k>>} : k # 0}
Atom(x) == {<<{<<x, 1>>}, 1>>}
Apply(op, args) == Atom(<<op, args>>)

p ++ q == Merged(p, q)
Negated(p) == {<<r[1], -r[2]>> : r \in p}
p -- q == p ++ Negated(q)
p ** q ==
  LET Monomials == {Merged(r[1], t[1]) : r \in p, t \in q}
      Sum(m) == MapThenSumSet(LAMBDA u : u[1][2] * u[2][2],
                              {u \in p \X q : Merged(u[1][1], u[2][1]) = m})
  IN  {r \in {<<m, Sum(m)>> : m \in Monomials} : r[2] # 0}

(* A product with a reciprocal is a quotient, an estimate refined by       *)
(* Newton's steps what it estimates.                                       *)
Quotient(x, y) == Apply("/", <<x, y>>)
Root(x) == Apply("sqrt", <<x>>)

-----------------------------------------------------------------------------
(* Element k of input i, and the vector of w elements from there.          *)
In(i, k) == Atom(<<"in", <<i, k>>>>)
Scalar == Atom(<<"scalar", <<>>>>)         (* a scalar argument             *)
Load(i, k, w) == [l \in 1 .. w |-> In(i, k + l - 1)]
Splat(t, w) == [l \in 1 .. w |-> t]

Each(Op(_), x) == [l \in DOMAIN x |-> Op(x[l])]
Lanewise(Op(_, _), x, y) == [l \in DOMAIN x |-> Op(x[l], y[l])]

Plus(x, y) == Lanewise(LAMBDA p, q : p ++ q, x, y)
Minus(x, y) == Lanewise(LAMBDA p, q : p -- q, x, y)
Times(x, y) == Lanewise(LAMBDA p, q : p ** q, x, y)

(* addsub: even lanes (counted from 0) are subtracted, odd ones added.     *)
AddSub(x, y) ==
  [l \in DOMAIN x |-> IF (l % 2) = 1 THEN x[l] -- y[l] ELSE x[l] ++ y[l]]
SignOdd(x) == [l \in DOMAIN x |-> IF (l % 2) = 0 THEN Negated(x[l]) ELSE x[l]]

(* Lanes by number, from 0; a negative number is a lane that is cleared.   *)
Gather(x, index) ==
  [l \in DOMAIN index |-> IF index[l] < 0 THEN Zero ELSE x[index[l] + 1]]

(* The same within every group of as many lanes as there are numbers (the  *)
(* 128-bit lanes of AVX): shuffle_epi8, permute_ps, shuffle_epi32, ...     *)
Shuffle(x, index) ==
  LET g == Len(index)
  IN  [l \in DOMAIN x |->
         LET k == index[((l - 1) % g) + 1]
         IN  IF k < 0 THEN Zero ELSE x[(l - 1) - ((l - 1) % g) + k + 1]]

(* Numbers of pieces of m lanes as numbers of lanes.                       *)
Wide(index, m) == [l \in 1 .. m * Len(index) |-> m * index[(l - 1) \div m + 1] + ((l - 1) % m)]

(* permute4x64 and the like: the x's quarters, by number.                  *)
Quarters(x, index) == Gather(x, Wide(index, Len(x) \div 4))
(* permute2f128: halves of x (0, 1) and y (2, 3).                          *)
Halves(x, y, index) == Gather(x \o y, Wide(index, Len(x) \div 2))
Low(x) == SubSeq(x, 1, Len(x) \div 2)
High(x) == SubSeq(x, Len(x) \div 2 + 1, Len(x))

(* shuffle_ps: in every group of four lanes two of x and two of y.         *)
ShufflePair(x, y, index) ==
  [l \in DOMAIN x |->
     LET k == (l - 1) % 4 IN (IF k < 2 THEN x ELSE y)[l - k + index[k + 1]]]
(* hadd: sums of neighbours, of x and then of y in every group of four.    *)
HAdd(x, y) == Plus(ShufflePair(x, y, <<0, 2, 0, 2>>), ShufflePair(x, y, <<1, 3, 1, 3>>))
(* unpacklo, unpackhi: in every group of g lanes x and y in turn.          *)
UnpackLow(x, y, g) ==
  [l \in DOMAIN x |->
     LET k == (l - 1) % g IN (IF k % 2 = 0 THEN x ELSE y)[l - k + k \div 2]]
UnpackHigh(x, y, g) ==
  [l \in DOMAIN x |->
     LET k == (l - 1) % g IN (IF k % 2 = 0 THEN x ELSE y)[l - k + (k + g) \div 2]]

(* Every m-th lane from lane k (a plane of what vld2 and vld4 load), and   *)
(* one vector of the lanes of several planes in turn (vst2, vzip).         *)
Every(x, m, k) == [l \in 1 .. Len(x) \div m |-> x[(l - 1) * m + k + 1]]
Weave(planes) ==
  [l \in 1 .. Len(planes) * Len(planes[1]) |->
     planes[((l - 1) % Len(planes)) + 1][(l - 1) \div Len(planes) + 1]]

-----------------------------------------------------------------------------
(* The records of module StreamKernels.                                    *)

(* The values `generic` gives the first points; G says what the outputs    *)
(* hold for a point.                                                       *)
Widest == 64
EachPoint(G(_)) == [k \in 1 .. Widest |-> G(k - 1)]

(* A loop of b points: the lanes it stores to each output, as values of    *)
(* points; the loop that calls `generic` or does the same; one of RVV.     *)
Values(b, lanes) ==
  [k \in 1 .. b |->
     [o \in DOMAIN lanes |->
        LET e == Len(lanes[o]) \div b IN SubSeq(lanes[o], (k - 1) * e + 1, k * e)]]
NoLanes(b) == [k \in 1 .. b |-> <<>>]
StoringLoop(b, values, partial) ==
  [block |-> b, values |-> values, reads |-> b, partial |-> partial,
   adds |-> NoLanes(b), carry |-> <<>>]
Block(b, lanes) == StoringLoop(b, Values(b, lanes), FALSE)
ByPoint(result) == StoringLoop(1, <<result[1]>>, FALSE)
Groups(b, lanes) == StoringLoop(b, Values(b, lanes), TRUE)

(* Proto-kernels: loops and a tail by points; `generic`, which may have b  *)
(* points written out; one loop of b points, or two; RVV, with register    *)
(* groups of VL points.                                                    *)
VL == 4
Storing(result, loops) ==
  [result |-> result, loops |-> loops, once |-> 1, total |-> <<>>, sums |-> <<>>]
WithTail(result, blocks) == Storing(result, blocks \o <<ByPoint(result)>>)
Generic(result) == WithTail(result, <<>>)
Unrolled(result, b) ==
  WithTail(result, <<StoringLoop(b, SubSeq(result, 1, b), FALSE)>>)
Vec(result, V(_), b) == WithTail(result, <<Block(b, V(b))>>)
Vec2(result, V(_), b, c) == WithTail(result, <<Block(b, V(b)), Block(c, V(c))>>)
Rvv(result, V(_)) == Storing(result, <<Groups(VL, V(VL))>>)

-----------------------------------------------------------------------------
(* The records of module SumKernels.  A lane of the registers that a loop  *)
(* leaves, and a sum of such lanes, are counts of lanes: Plus, HAdd and    *)
(* all the others work on vectors of them as they do on vectors of terms.  *)
Lane(l) == {<<l, 1>>}
Total(x) == FoldSet(LAMBDA l, t : x[l] ++ t, Zero, DOMAIN x)
PlusAll(x) == [l \in DOMAIN x[1] |-> Total([r \in DOMAIN x |-> x[r][l]])]

(* All lanes of equally wide registers, and the registers of the lanes     *)
(* that a loop leaves which adds to such registers.                        *)
LanesOf(x) ==
  LET w == Len(x[1]) IN [l \in 1 .. w * Len(x) |-> x[(l - 1) \div w + 1][((l - 1) % w) + 1]]
Registers(x) ==
  [r \in DOMAIN x |-> [l \in DOMAIN x[r] |-> Lane((r - 1) * Len(x[r]) + l)]]

(* The elements of the first k of b points (tail undisturbed).             *)
OfPoints(k, x, b) ==
  LET e == Len(x) \div b IN [l \in DOMAIN x |-> IF (l - 1) \div e < k THEN x[l] ELSE Zero]

(* Loops that add to registers: carry is what the lanes are before, over   *)
(* those of the loop before (the first loop starts with cleared lanes).    *)
AddingLoop(b, adds, carry, partial) ==
  [block |-> b, values |-> NoLanes(b), reads |-> b, partial |-> partial,
   adds |-> adds, carry |-> carry]
Adds(b, x, carry) == AddingLoop(b, [k \in {b} |-> LanesOf(x)], carry, FALSE)

(* Proto-kernels: R is what becomes of the registers x behind the vectors. *)
Adding(total, loops, sums) ==
  [result |-> EachPoint(LAMBDA p : <<>>), loops |-> loops, once |-> 1,
   total |-> total, sums |-> sums]
Scalars(total) == [o \in DOMAIN total[1] |-> Lane(o)]
SumTail(total, blocks, carry) ==
  Adding(total, blocks \o <<Adds(1, <<total[1]>>, carry)>>, Scalars(total))
GenericSum(total) == SumTail(total, <<>>, <<>>)
VecSum(total, x, R(_), b) ==
  SumTail(total, <<Adds(b, x, <<>>)>>, R(Registers(x)))
RvvSum(total, x, R(_)) ==
  Adding(total,
         <<AddingLoop(VL, [k \in 1 .. VL |-> LanesOf([r \in DOMAIN x |-> OfPoints(k, x[r], VL)])],
                      <<>>, TRUE)>>,
         R(Registers(x)))

(* The sum of all lanes; of the lanes of real and of imaginary parts; and  *)
(* of registers that hold real and imaginary parts in turn.                *)
OneSum(x) == <<Total(PlusAll(x))>>
PairSum(x) ==
  LET s == PlusAll(x) IN <<Total(Every(s, 2, 0)), Total(Every(s, 2, 1))>>
PlaneSum(x) == <<Total(PlusAll(Every(x, 2, 0))), Total(PlusAll(Every(x, 2, 1)))>>
=============================================================================
