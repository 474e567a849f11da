------------------------------ MODULE MCPolarCode ------------------------------
(***************************************************************************)
(* Instances of PolarCode for TLC.  Frames from two bytes to two blocks of *)
(* AVX2 are encoded.  Decoding takes frames of 16, so that one row is      *)
(* decoded by vectors, and of 32 and 64, so that 16 and 32 bits that have  *)
(* been decided are encoded again by SSSE3 and AVX2.                       *)
(***************************************************************************)
EXTENDS PolarCode

MCEncoders ==
  {volk_8u_x3_encodepolarpuppet_8u_generic, volk_8u_x3_encodepolarpuppet_8u_u_ssse3,
   volk_8u_x3_encodepolarpuppet_8u_a_ssse3, volk_8u_x3_encodepolarpuppet_8u_u_avx2,
   volk_8u_x3_encodepolarpuppet_8u_a_avx2, volk_8u_x3_encodepolarpuppet_8u_rvv,
   volk_8u_x3_encodepolarpuppet_8u_rvvseg}
MCDecoders ==
  {volk_32f_8u_polarbutterflypuppet_32f_generic, volk_32f_8u_polarbutterflypuppet_32f_u_avx,
   volk_32f_8u_polarbutterflypuppet_32f_u_avx2, volk_32f_8u_polarbutterflypuppet_32f_rvv,
   volk_32f_8u_polarbutterflypuppet_32f_rvvseg}

MCElements == {2, 5, 8, 16, 37, 64, 128}
MCFrozen == {{}, {0, 1, 2, 4, 7, 8, 11, 16, 32, 33, 63, 64}}
MCFrameExps == {1, 4, 5, 6}
SmallExps == {4}

(* No ones, all of them in the first half, in the second, and in both.     *)
MCWords == {{}, {0, 3, 5, 6, 9, 17, 30}, {15, 31, 33, 62}, {1, 2, 7, 8, 13, 22, 40, 63}}
MCNoise == {{}, {1, 6, 12, 29, 47}}
MCUnset == {0, 1}
OneUnset == {0}
=============================================================================
