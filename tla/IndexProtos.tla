------------------------------- MODULE IndexProtos -------------------------------
(***************************************************************************)
(* How each of the index proto-kernels of kernels/volk does what module    *)
(* IndexKernels does in general.  The fields:                              *)
(*   width      lanes of a vector; 0 if there is no vector loop            *)
(*   order      the offset of the point that is loaded into a lane         *)
(*   first      the lanes start with the first value (else with the worst) *)
(*   takes      the comparison that lets a lane take a new index           *)
(*   maxNaN     the maximum of a number and a NaN is NaN                   *)
(*   reduce     "scan": the lanes one by one, from the starting value;     *)
(*              "lane0": from lane 0; "vector": in registers               *)
(*   ties       the scan takes the smaller index of equal values           *)
(*   laneFloat  the lanes' indices are floats                              *)
(*   tailFloat  the variable index is a float                              *)
(*   capped     num_points is cut to USHRT_MAX                             *)
(*   partial    the vector loop also takes the points of the tail (RVV)    *)
(*   pairs      the tail is a pair and a single point in registers (sse3)  *)
(*   ramp       lane l starts with index l (else with 0)                   *)
(* min differs from max in the order of the values, a_ from u_ in the load *)
(* instruction, blendv from and/andnot in nothing.                         *)
(***************************************************************************)
EXTENDS Integers

InOrder(width) == [l \in 0 .. width - 1 |-> l]
Lane(f, l) == f[l + 1]
Shuffled(f, width) == [l \in 0 .. width - 1 |-> Lane(f, l)]

Generic ==
  [width |-> 0, order |-> InOrder(0), first |-> TRUE, takes |-> "greater", maxNaN |-> FALSE,
   reduce |-> "scan", ties |-> FALSE, laneFloat |-> FALSE, tailFloat |-> FALSE,
   capped |-> FALSE, partial |-> FALSE, pairs |-> FALSE, ramp |-> FALSE]
GenericMagnitude == [Generic EXCEPT !.first = FALSE]

(* 32f, x86: floats throughout.                                            *)
FloatScan(w) ==
  [Generic EXCEPT !.width = w, !.order = InOrder(w), !.ties = TRUE,
                  !.laneFloat = TRUE, !.tailFloat = TRUE]
NeonFloatScan == [FloatScan(4) EXCEPT !.takes = "notLessEqual", !.maxNaN = TRUE]

(* NEON and RVV with integer indices.                                      *)
NeonScan ==
  [GenericMagnitude EXCEPT !.width = 4, !.order = InOrder(4), !.maxNaN = TRUE,
                           !.reduce = "lane0", !.ties = TRUE]
NeonReduce == [NeonScan EXCEPT !.reduce = "vector"]
NeonBlend == [NeonScan EXCEPT !.maxNaN = FALSE, !.reduce = "scan", !.ramp = TRUE]
(* A register group of VLEN / 8 or VLEN / 4 lanes, 4 of them here.         *)
Rvv == [NeonReduce EXCEPT !.maxNaN = FALSE, !.partial = TRUE]

(* 32fc, x86: the horizontal additions and shuffles permute the points.    *)
Avx2 ==
  [GenericMagnitude EXCEPT !.width = 8,
     !.order = Shuffled(<<0, 1, 4, 5, 2, 3, 6, 7>>, 8)]
Avx512 ==
  [GenericMagnitude EXCEPT !.width = 16, !.ties = TRUE, !.laneFloat = TRUE,
     !.order = Shuffled(<<0, 1, 8, 9, 2, 3, 10, 11, 4, 5, 12, 13, 6, 7, 14, 15>>, 16)]
Sse3 ==
  [GenericMagnitude EXCEPT !.width = 4, !.order = InOrder(4), !.takes = "greaterEqual",
                           !.reduce = "lane0", !.pairs = TRUE]

Capped(p) == [p EXCEPT !.capped = TRUE]


(* kernels/volk/volk_32f_index_max_32u.h                                  *)
volk_32f_index_max_32u_a_sse4_1 == FloatScan(4)
volk_32f_index_max_32u_a_sse == FloatScan(4)
volk_32f_index_max_32u_a_avx == FloatScan(8)
volk_32f_index_max_32u_neon == NeonFloatScan
volk_32f_index_max_32u_neonv8 == NeonReduce
volk_32f_index_max_32u_generic == Generic
volk_32f_index_max_32u_a_avx512f == FloatScan(16)
volk_32f_index_max_32u_u_avx == FloatScan(8)
volk_32f_index_max_32u_u_sse4_1 == FloatScan(4)
volk_32f_index_max_32u_u_sse == FloatScan(4)
volk_32f_index_max_32u_u_avx512f == FloatScan(16)
volk_32f_index_max_32u_rvv == Rvv

(* kernels/volk/volk_32f_index_max_16u.h                                  *)
volk_32f_index_max_16u_a_avx == Capped(FloatScan(8))
volk_32f_index_max_16u_a_sse4_1 == Capped(FloatScan(4))
volk_32f_index_max_16u_a_sse == Capped(FloatScan(4))
volk_32f_index_max_16u_neon == Capped(NeonScan)
volk_32f_index_max_16u_neonv8 == Capped(NeonReduce)
volk_32f_index_max_16u_generic == Capped(Generic)
volk_32f_index_max_16u_a_avx512f == Capped(FloatScan(16))
volk_32f_index_max_16u_u_avx == Capped(FloatScan(8))
volk_32f_index_max_16u_u_avx512f == Capped(FloatScan(16))
volk_32f_index_max_16u_rvv == Capped(Rvv)

(* kernels/volk/volk_32f_index_min_32u.h                                  *)
volk_32f_index_min_32u_a_sse4_1 == FloatScan(4)
volk_32f_index_min_32u_a_sse == FloatScan(4)
volk_32f_index_min_32u_a_avx == FloatScan(8)
volk_32f_index_min_32u_neon == NeonFloatScan
volk_32f_index_min_32u_neonv8 == NeonReduce
volk_32f_index_min_32u_generic == Generic
volk_32f_index_min_32u_a_avx512f == FloatScan(16)
volk_32f_index_min_32u_u_avx == FloatScan(8)
volk_32f_index_min_32u_u_sse4_1 == FloatScan(4)
volk_32f_index_min_32u_u_sse == FloatScan(4)
volk_32f_index_min_32u_u_avx512f == FloatScan(16)
volk_32f_index_min_32u_rvv == Rvv

(* kernels/volk/volk_32f_index_min_16u.h                                  *)
volk_32f_index_min_16u_a_avx == Capped(FloatScan(8))
volk_32f_index_min_16u_a_sse4_1 == Capped(FloatScan(4))
volk_32f_index_min_16u_a_sse == Capped(FloatScan(4))
volk_32f_index_min_16u_neon == Capped(NeonScan)
volk_32f_index_min_16u_neonv8 == Capped(NeonReduce)
volk_32f_index_min_16u_generic == Capped(Generic)
volk_32f_index_min_16u_a_avx512f == Capped(FloatScan(16))
volk_32f_index_min_16u_u_avx == Capped(FloatScan(8))
volk_32f_index_min_16u_u_avx512f == Capped(FloatScan(16))
volk_32f_index_min_16u_rvv == Capped(Rvv)

(* kernels/volk/volk_32fc_index_max_32u.h                                 *)
volk_32fc_index_max_32u_a_avx2_variant_0 == Avx2
volk_32fc_index_max_32u_a_avx2_variant_1 == Avx2
volk_32fc_index_max_32u_a_sse3 == Sse3
volk_32fc_index_max_32u_generic == GenericMagnitude
volk_32fc_index_max_32u_a_avx512f == Avx512
volk_32fc_index_max_32u_u_avx2_variant_0 == Avx2
volk_32fc_index_max_32u_u_avx2_variant_1 == Avx2
volk_32fc_index_max_32u_neon == NeonBlend
volk_32fc_index_max_32u_neonv8 == NeonReduce
volk_32fc_index_max_32u_u_avx512f == Avx512
volk_32fc_index_max_32u_rvv == Rvv
volk_32fc_index_max_32u_rvvseg == Rvv

(* kernels/volk/volk_32fc_index_max_16u.h                                 *)
volk_32fc_index_max_16u_a_avx2_variant_0 == Capped(Avx2)
volk_32fc_index_max_16u_a_avx2_variant_1 == Capped(Avx2)
volk_32fc_index_max_16u_a_sse3 == Capped(Sse3)
volk_32fc_index_max_16u_neon == Capped(NeonScan)
volk_32fc_index_max_16u_neonv8 == Capped(NeonReduce)
volk_32fc_index_max_16u_generic == Capped(GenericMagnitude)
volk_32fc_index_max_16u_a_avx512f == Capped(Avx512)
volk_32fc_index_max_16u_u_avx2_variant_0 == Capped(Avx2)
volk_32fc_index_max_16u_u_avx2_variant_1 == Capped(Avx2)
volk_32fc_index_max_16u_u_avx512f == Capped(Avx512)
volk_32fc_index_max_16u_rvv == Capped(Rvv)
volk_32fc_index_max_16u_rvvseg == Capped(Rvv)

(* kernels/volk/volk_32fc_index_min_32u.h                                 *)
volk_32fc_index_min_32u_a_avx2_variant_0 == Avx2
volk_32fc_index_min_32u_a_avx2_variant_1 == Avx2
volk_32fc_index_min_32u_a_sse3 == Sse3
volk_32fc_index_min_32u_generic == GenericMagnitude
volk_32fc_index_min_32u_a_avx512f == Avx512
volk_32fc_index_min_32u_u_avx2_variant_0 == Avx2
volk_32fc_index_min_32u_u_avx2_variant_1 == Avx2
volk_32fc_index_min_32u_neon == NeonBlend
volk_32fc_index_min_32u_neonv8 == NeonReduce
volk_32fc_index_min_32u_u_avx512f == Avx512
volk_32fc_index_min_32u_rvv == Rvv
volk_32fc_index_min_32u_rvvseg == Rvv

(* kernels/volk/volk_32fc_index_min_16u.h                                 *)
volk_32fc_index_min_16u_a_avx2_variant_0 == Capped(Avx2)
volk_32fc_index_min_16u_a_avx2_variant_1 == Capped(Avx2)
volk_32fc_index_min_16u_a_sse3 == Capped(Sse3)
volk_32fc_index_min_16u_neon == Capped(NeonScan)
volk_32fc_index_min_16u_neonv8 == Capped(NeonReduce)
volk_32fc_index_min_16u_generic == Capped(GenericMagnitude)
volk_32fc_index_min_16u_a_avx512f == Capped(Avx512)
volk_32fc_index_min_16u_u_avx2_variant_0 == Capped(Avx2)
volk_32fc_index_min_16u_u_avx2_variant_1 == Capped(Avx2)
volk_32fc_index_min_16u_u_avx512f == Capped(Avx512)
volk_32fc_index_min_16u_rvv == Capped(Rvv)
volk_32fc_index_min_16u_rvvseg == Capped(Rvv)

Protos32f ==
  {volk_32f_index_max_32u_a_sse4_1,
   volk_32f_index_max_32u_a_sse,
   volk_32f_index_max_32u_a_avx,
   volk_32f_index_max_32u_neon,
   volk_32f_index_max_32u_neonv8,
   volk_32f_index_max_32u_generic,
   volk_32f_index_max_32u_a_avx512f,
   volk_32f_index_max_32u_u_avx,
   volk_32f_index_max_32u_u_sse4_1,
   volk_32f_index_max_32u_u_sse,
   volk_32f_index_max_32u_u_avx512f,
   volk_32f_index_max_32u_rvv,
   volk_32f_index_max_16u_a_avx,
   volk_32f_index_max_16u_a_sse4_1,
   volk_32f_index_max_16u_a_sse,
   volk_32f_index_max_16u_neon,
   volk_32f_index_max_16u_neonv8,
   volk_32f_index_max_16u_generic,
   volk_32f_index_max_16u_a_avx512f,
   volk_32f_index_max_16u_u_avx,
   volk_32f_index_max_16u_u_avx512f,
   volk_32f_index_max_16u_rvv,
   volk_32f_index_min_32u_a_sse4_1,
   volk_32f_index_min_32u_a_sse,
   volk_32f_index_min_32u_a_avx,
   volk_32f_index_min_32u_neon,
   volk_32f_index_min_32u_neonv8,
   volk_32f_index_min_32u_generic,
   volk_32f_index_min_32u_a_avx512f,
   volk_32f_index_min_32u_u_avx,
   volk_32f_index_min_32u_u_sse4_1,
   volk_32f_index_min_32u_u_sse,
   volk_32f_index_min_32u_u_avx512f,
   volk_32f_index_min_32u_rvv,
   volk_32f_index_min_16u_a_avx,
   volk_32f_index_min_16u_a_sse4_1,
   volk_32f_index_min_16u_a_sse,
   volk_32f_index_min_16u_neon,
   volk_32f_index_min_16u_neonv8,
   volk_32f_index_min_16u_generic,
   volk_32f_index_min_16u_a_avx512f,
   volk_32f_index_min_16u_u_avx,
   volk_32f_index_min_16u_u_avx512f,
   volk_32f_index_min_16u_rvv}
Protos32fc ==
  {volk_32fc_index_max_32u_a_avx2_variant_0,
   volk_32fc_index_max_32u_a_avx2_variant_1,
   volk_32fc_index_max_32u_a_sse3,
   volk_32fc_index_max_32u_generic,
   volk_32fc_index_max_32u_a_avx512f,
   volk_32fc_index_max_32u_u_avx2_variant_0,
   volk_32fc_index_max_32u_u_avx2_variant_1,
   volk_32fc_index_max_32u_neon,
   volk_32fc_index_max_32u_neonv8,
   volk_32fc_index_max_32u_u_avx512f,
   volk_32fc_index_max_32u_rvv,
   volk_32fc_index_max_32u_rvvseg,
   volk_32fc_index_max_16u_a_avx2_variant_0,
   volk_32fc_index_max_16u_a_avx2_variant_1,
   volk_32fc_index_max_16u_a_sse3,
   volk_32fc_index_max_16u_neon,
   volk_32fc_index_max_16u_neonv8,
   volk_32fc_index_max_16u_generic,
   volk_32fc_index_max_16u_a_avx512f,
   volk_32fc_index_max_16u_u_avx2_variant_0,
   volk_32fc_index_max_16u_u_avx2_variant_1,
   volk_32fc_index_max_16u_u_avx512f,
   volk_32fc_index_max_16u_rvv,
   volk_32fc_index_max_16u_rvvseg,
   volk_32fc_index_min_32u_a_avx2_variant_0,
   volk_32fc_index_min_32u_a_avx2_variant_1,
   volk_32fc_index_min_32u_a_sse3,
   volk_32fc_index_min_32u_generic,
   volk_32fc_index_min_32u_a_avx512f,
   volk_32fc_index_min_32u_u_avx2_variant_0,
   volk_32fc_index_min_32u_u_avx2_variant_1,
   volk_32fc_index_min_32u_neon,
   volk_32fc_index_min_32u_neonv8,
   volk_32fc_index_min_32u_u_avx512f,
   volk_32fc_index_min_32u_rvv,
   volk_32fc_index_min_32u_rvvseg,
   volk_32fc_index_min_16u_a_avx2_variant_0,
   volk_32fc_index_min_16u_a_avx2_variant_1,
   volk_32fc_index_min_16u_a_sse3,
   volk_32fc_index_min_16u_neon,
   volk_32fc_index_min_16u_neonv8,
   volk_32fc_index_min_16u_generic,
   volk_32fc_index_min_16u_a_avx512f,
   volk_32fc_index_min_16u_u_avx2_variant_0,
   volk_32fc_index_min_16u_u_avx2_variant_1,
   volk_32fc_index_min_16u_u_avx512f,
   volk_32fc_index_min_16u_rvv,
   volk_32fc_index_min_16u_rvvseg}
=============================================================================
