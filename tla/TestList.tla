-------------------------------- MODULE TestList --------------------------------
(***************************************************************************)
(* The kernels that init_test_list names (lib/kernel_tests.h): the types   *)
(* in front of the words of a name, the words, the types behind them, and  *)
(* what the kernel's function is declared to take before the number of     *)
(* points (kernels/volk/<name>.h).  Words are one token here.              *)
(***************************************************************************)
EXTENDS Signatures

f32 == Type(32, {"f"})
f64 == Type(64, {"f"})
fc32 == Type(32, {"f", "c"})
i8 == Type(8, {"i"})
i16 == Type(16, {"i"})
i32 == Type(32, {"i"})
ic8 == Type(8, {"i", "c"})
ic16 == Type(16, {"i", "c"})
u8 == Type(8, {"u"})
u16 == Type(16, {"u"})
u32 == Type(32, {"u"})
u64 == Type(64, {"u"})
x2 == Multiplier(2)
x3 == Multiplier(3)

(* The kernels of these words, whose functions take such pointers and then *)
(* such scalars by value.                                                  *)
Kernels(left, words, right, pointers, scalars) ==
  {[name |-> left \o <<Word(w)>> \o right,
    declared |-> [k \in DOMAIN pointers |-> Pointer(pointers[k])]
                 \o [k \in DOMAIN scalars |-> Value(scalars[k])]] : w \in words}

(* init_test_list.                                                         *)
AllTests ==
  UNION {
    Kernels(<<f32>>, {"accumulator"}, <<Scalar(f32)>>, <<f32, f32>>, <<>>),
    Kernels(<<f32>>, {"index_max", "index_min"}, <<u16>>, <<u16, f32>>, <<>>),
    Kernels(<<f32>>, {"index_max", "index_min"}, <<u32>>, <<u32, f32>>, <<>>),
    Kernels(<<f32>>, {"log2", "expfast", "sin", "cos", "tan", "atan", "asin", "acos",
                      "reciprocal", "sqrt", "invsqrt", "tanh", "exp"},
            <<f32>>, <<f32, f32>>, <<>>),
    Kernels(<<f32>>, {"sincos", "stddev_and_mean"}, <<f32, x2>>, <<f32, f32, f32>>, <<>>),
    Kernels(<<f32>>, {"convert"}, <<f64>>, <<f64, f32>>, <<>>),
    Kernels(<<f32>>, {"binary_slicer"}, <<i32>>, <<i32, f32>>, <<>>),
    Kernels(<<f32>>, {"binary_slicer"}, <<i8>>, <<i8, f32>>, <<>>),
    Kernels(<<f32, x2>>, {"fm_detectpuppet", "add", "divide", "dot_prod", "max", "min",
                          "multiply", "subtract", "powpuppet"},
            <<f32>>, <<f32, f32, f32>>, <<>>),
    Kernels(<<f32, x2>>, {"interleave"}, <<fc32>>, <<fc32, f32, f32>>, <<>>),
    Kernels(<<f32, x2>>, {"dot_prod"}, <<i16>>, <<i16, f32, f32>>, <<>>),
    Kernels(<<f32, x2, Scalar(f32)>>, {"interleave"}, <<ic16>>, <<ic16, f32, f32>>, <<f32>>),
    Kernels(<<f32, x3>>, {"sum_of_poly"}, <<f32>>, <<f32, f32, f32, f32>>, <<>>),
    Kernels(<<f32, Scalar(f32)>>, {"calc_spectral_noise_floor", "power", "stddev", "multiply",
                                   "add", "mod_rangepuppet", "clamppuppet"},
            <<f32>>, <<f32, f32>>, <<f32>>),
    Kernels(<<f32, Scalar(f32)>>, {"convert"}, <<i16>>, <<i16, f32>>, <<f32>>),
    Kernels(<<f32, Scalar(f32)>>, {"convert"}, <<i32>>, <<i32, f32>>, <<f32>>),
    Kernels(<<f32, Scalar(f32)>>, {"convert"}, <<i8>>, <<i8, f32>>, <<f32>>),
    Kernels(<<f32, Scalar(f32)>>, {"normalize"}, <<>>, <<f32>>, <<f32>>),
    Kernels(<<f32, Scalar(f32)>>, {"convertpuppet"}, <<u8>>, <<u8, f32>>, <<f32>>),
    Kernels(<<f32, f64>>, {"multiply", "add"}, <<f64>>, <<f64, f32, f64>>, <<>>),
    Kernels(<<f32, u8>>, {"polarbutterflypuppet"}, <<f32>>, <<f32, f32, u8>>, <<>>),
    Kernels(<<f64>>, {"convert"}, <<f32>>, <<f32, f64>>, <<>>),
    Kernels(<<f64, x2>>, {"max", "min", "multiply", "add", "dot_prod"},
            <<f64>>, <<f64, f64, f64>>, <<>>),
    Kernels(<<fc32>>, {"deinterleave"}, <<f32, x2>>, <<f32, f32, fc32>>, <<>>),
    Kernels(<<fc32>>, {"accumulator"}, <<Scalar(fc32)>>, <<fc32, fc32>>, <<>>),
    Kernels(<<fc32>>, {"deinterleave"}, <<f64, x2>>, <<f64, f64, fc32>>, <<>>),
    Kernels(<<fc32>>, {"deinterleave_imag", "deinterleave_real", "magnitude",
                       "magnitude_squared"}, <<f32>>, <<f32, fc32>>, <<>>),
    Kernels(<<fc32>>, {"deinterleave_real"}, <<f64>>, <<f64, fc32>>, <<>>),
    Kernels(<<fc32>>, {"index_max", "index_min"}, <<u16>>, <<u16, fc32>>, <<>>),
    Kernels(<<fc32>>, {"index_max", "index_min"}, <<u32>>, <<u32, fc32>>, <<>>),
    Kernels(<<fc32>>, {"conjugate"}, <<fc32>>, <<fc32, fc32>>, <<>>),
    Kernels(<<fc32>>, {"convert"}, <<ic16>>, <<ic16, fc32>>, <<>>),
    Kernels(<<fc32, x2>>, {"conjugate_dot_prod", "dot_prod", "add", "multiply",
                           "multiply_conjugate", "divide"},
            <<fc32>>, <<fc32, fc32, fc32>>, <<>>),
    Kernels(<<fc32, x2>>, {"square_dist"}, <<f32>>, <<f32, fc32, fc32>>, <<>>),
    Kernels(<<fc32, x2, Scalar(f32)>>, {"square_dist_scalar_mult"},
            <<f32>>, <<f32, fc32, fc32>>, <<f32>>),
    Kernels(<<fc32, x2, Scalar(fc32)>>, {"multiply_conjugate_add2"},
            <<fc32>>, <<fc32, fc32, fc32, fc32>>, <<>>),
    Kernels(<<fc32, Scalar(f32)>>, {"power"}, <<fc32>>, <<fc32, fc32>>, <<f32>>),
    Kernels(<<fc32, Scalar(f32)>>, {"atan2", "power_spectrum", "power_spectral_densitypuppet"},
            <<f32>>, <<f32, fc32>>, <<f32>>),
    Kernels(<<fc32, Scalar(f32)>>, {"deinterleave_real", "magnitude"},
            <<i16>>, <<i16, fc32>>, <<f32>>),
    Kernels(<<fc32, Scalar(fc32)>>, {"rotator2puppet", "multiply2"},
            <<fc32>>, <<fc32, fc32, fc32>>, <<>>),
    Kernels(<<fc32, f32>>, {"multiply", "add", "dot_prod"},
            <<fc32>>, <<fc32, fc32, f32>>, <<>>),
    Kernels(<<i16>>, {"convert"}, <<i8>>, <<i8, i16>>, <<>>),
    Kernels(<<i16, x2>>, {"add_saturated"}, <<i16>>, <<i16, i16, i16>>, <<>>),
    Kernels(<<i16, Scalar(f32)>>, {"convert"}, <<f32>>, <<f32, i16>>, <<f32>>),
    Kernels(<<i16, fc32>>, {"dot_prod"}, <<fc32>>, <<fc32, i16, fc32>>, <<>>),
    Kernels(<<i32, x2>>, {"and", "or"}, <<i32>>, <<i32, i32, i32>>, <<>>),
    Kernels(<<i32, Scalar(f32)>>, {"convert"}, <<f32>>, <<f32, i32>>, <<f32>>),
    Kernels(<<i8>>, {"convert"}, <<i16>>, <<i16, i8>>, <<>>),
    Kernels(<<i8, x2>>, {"add_saturated"}, <<i8>>, <<i8, i8, i8>>, <<>>),
    Kernels(<<i8, Scalar(f32)>>, {"convert"}, <<f32>>, <<f32, i8>>, <<f32>>),
    Kernels(<<ic16>>, {"deinterleave_real"}, <<i8>>, <<i8, ic16>>, <<>>),
    Kernels(<<ic16>>, {"deinterleave"}, <<i16, x2>>, <<i16, i16, ic16>>, <<>>),
    Kernels(<<ic16>>, {"deinterleave_real", "magnitude"}, <<i16>>, <<i16, ic16>>, <<>>),
    Kernels(<<ic16>>, {"convert"}, <<fc32>>, <<fc32, ic16>>, <<>>),
    Kernels(<<ic16, x2>>, {"multiply", "dot_prod"}, <<ic16>>, <<ic16, ic16, ic16>>, <<>>),
    Kernels(<<ic16, Scalar(f32)>>, {"deinterleave_real", "magnitude"},
            <<f32>>, <<f32, ic16>>, <<f32>>),
    Kernels(<<ic16, Scalar(f32)>>, {"deinterleave"}, <<f32, x2>>, <<f32, f32, ic16>>, <<f32>>),
    Kernels(<<ic8>>, {"deinterleave"}, <<i16, x2>>, <<i16, i16, ic8>>, <<>>),
    Kernels(<<ic8>>, {"deinterleave_real"}, <<i16>>, <<i16, ic8>>, <<>>),
    Kernels(<<ic8>>, {"deinterleave_real"}, <<i8>>, <<i8, ic8>>, <<>>),
    Kernels(<<ic8, x2>>, {"multiply_conjugate"}, <<ic16>>, <<ic16, ic8, ic8>>, <<>>),
    Kernels(<<ic8, x2, Scalar(f32)>>, {"multiply_conjugate"},
            <<fc32>>, <<fc32, ic8, ic8>>, <<f32>>),
    Kernels(<<ic8, Scalar(f32)>>, {"deinterleave"}, <<f32, x2>>, <<f32, f32, ic8>>, <<f32>>),
    Kernels(<<ic8, Scalar(f32)>>, {"deinterleave_real"}, <<f32>>, <<f32, ic8>>, <<f32>>),
    Kernels(<<u16>>, {"byteswappuppet"}, <<u16>>, <<u16, u16>>, <<>>),
    Kernels(<<u16, x2>>, {"add_saturated"}, <<u16>>, <<u16, u16, u16>>, <<>>),
    Kernels(<<u32>>, {"byteswappuppet", "popcntpuppet", "reverse"},
            <<u32>>, <<u32, u32>>, <<>>),
    Kernels(<<u64>>, {"popcntpuppet", "byteswappuppet"}, <<u64>>, <<u64, u64>>, <<>>),
    Kernels(<<u8>>, {"conv_k7_r2puppet"}, <<u8>>, <<u8, u8>>, <<>>),
    Kernels(<<u8, x2>>, {"add_saturated"}, <<u8>>, <<u8, u8, u8>>, <<>>),
    Kernels(<<u8, x3>>, {"encodepolarpuppet"}, <<u8>>, <<u8, u8, u8, u8>>, <<>>)}
=================================================================================
