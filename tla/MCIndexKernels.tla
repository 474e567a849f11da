---------------------------- MODULE MCIndexKernels ----------------------------
(***************************************************************************)
(* Every distinct index proto-kernel on inputs of two full vectors and one *)
(* point, of one vector and three points, and of three points, flat but    *)
(* for up to two values; a 16u kernel also on more than Cap points.        *)
(***************************************************************************)
EXTENDS IndexKernels, IndexProtos

MCCap == 19
MCExact == 20

Flat(length, ground, peaks) ==
  [p \in 1 .. length |-> IF p \in DOMAIN peaks THEN peaks[p] ELSE ground]

InputsOf(length, ground, values) ==
  {Flat(length, ground, peaks) :
     peaks \in UNION {[P -> values] :
                        P \in {{}} \cup {{p, q} : p, q \in 1 .. length}}}

Lengths(p) ==
  {3, p.width + 3, 2 * p.width + 1} \cup IF p.capped THEN {MCCap + 2} ELSE {}

Protos == Protos32f \cup Protos32fc

MCCalls ==
  UNION {[proto : {p}, src : UNION {InputsOf(len, Floor, {1, 2}) \cup InputsOf(len, 1, {NaN, 2}) :
                                    len \in Lengths(p)}] :
           p \in Protos}

(* The kernels that count in floats, on inputs around 2^24 points.         *)
SmallExact == 8
LongCalls ==
  [proto : {volk_32f_index_max_32u_a_sse, volk_32f_index_max_32u_a_avx},
   src : UNION {InputsOf(len, Floor, {1, 2}) : len \in SmallExact .. SmallExact + 6}]
SmallCap == 8
=============================================================================
