---------------------------- MODULE MCStreamKernels ----------------------------
(***************************************************************************)
(* All stream kernels, each called with num_points below its first block   *)
(* (or, for `generic`, more than one), and with two blocks and a half, so  *)
(* that every loop runs more than once and something is left.              *)
(***************************************************************************)
EXTENDS SumKernels_proofs, DistanceProtos, ByteProtos, MathProtos, TrigProtos,
  Rotator, Angles, MCPolarCode, Viterbi, RunningKernels

Rows ==
  {volk_32f_x2_add_32f_u_avx512f, volk_32f_x2_add_32f_u_avx, volk_32f_x2_add_32f_u_sse,
   volk_32f_x2_add_32f_generic, volk_32f_x2_add_32f_a_avx512f, volk_32f_x2_add_32f_a_avx,
   volk_32f_x2_add_32f_a_sse, volk_32f_x2_add_32f_u_neon, volk_32f_x2_add_32f_neonv8,
   volk_32f_x2_add_32f_rvv, volk_64f_x2_add_64f_generic, volk_64f_x2_add_64f_neonv8,
   volk_64f_x2_add_64f_u_sse2, volk_64f_x2_add_64f_u_avx, volk_64f_x2_add_64f_a_sse2,
   volk_64f_x2_add_64f_a_avx, volk_64f_x2_add_64f_rvv, volk_32f_x2_subtract_32f_generic,
   volk_32f_x2_subtract_32f_a_avx512f, volk_32f_x2_subtract_32f_a_avx,
   volk_32f_x2_subtract_32f_a_sse, volk_32f_x2_subtract_32f_neon,
   volk_32f_x2_subtract_32f_neonv8, volk_32f_x2_subtract_32f_u_avx512f,
   volk_32f_x2_subtract_32f_u_avx, volk_32f_x2_subtract_32f_rvv,
   volk_32f_x2_multiply_32f_u_sse, volk_32f_x2_multiply_32f_u_avx512f,
   volk_32f_x2_multiply_32f_u_avx, volk_32f_x2_multiply_32f_generic,
   volk_32f_x2_multiply_32f_a_sse, volk_32f_x2_multiply_32f_a_avx512f,
   volk_32f_x2_multiply_32f_a_avx, volk_32f_x2_multiply_32f_neon,
   volk_32f_x2_multiply_32f_neonv8, volk_32f_x2_multiply_32f_rvv,
   volk_64f_x2_multiply_64f_generic, volk_64f_x2_multiply_64f_neonv8,
   volk_64f_x2_multiply_64f_u_sse2, volk_64f_x2_multiply_64f_u_avx,
   volk_64f_x2_multiply_64f_a_sse2, volk_64f_x2_multiply_64f_a_avx,
   volk_64f_x2_multiply_64f_rvv, volk_32f_x2_divide_32f_a_avx512f,
   volk_32f_x2_divide_32f_a_avx, volk_32f_x2_divide_32f_a_sse, volk_32f_x2_divide_32f_neon,
   volk_32f_x2_divide_32f_neonv8, volk_32f_x2_divide_32f_generic,
   volk_32f_x2_divide_32f_u_avx512f, volk_32f_x2_divide_32f_u_avx, volk_32f_x2_divide_32f_rvv,
   volk_32f_x2_max_32f_a_avx512f, volk_32f_x2_max_32f_a_sse, volk_32f_x2_max_32f_a_avx,
   volk_32f_x2_max_32f_neon, volk_32f_x2_max_32f_neonv8, volk_32f_x2_max_32f_generic,
   volk_32f_x2_max_32f_u_avx512f, volk_32f_x2_max_32f_u_avx, volk_32f_x2_max_32f_rvv,
   volk_64f_x2_max_64f_a_avx512f, volk_64f_x2_max_64f_a_avx, volk_64f_x2_max_64f_a_sse2,
   volk_64f_x2_max_64f_generic, volk_64f_x2_max_64f_u_avx512f, volk_64f_x2_max_64f_u_avx,
   volk_64f_x2_max_64f_neonv8, volk_64f_x2_max_64f_rvv, volk_32f_x2_min_32f_a_sse,
   volk_32f_x2_min_32f_neon, volk_32f_x2_min_32f_neonv8, volk_32f_x2_min_32f_generic,
   volk_32f_x2_min_32f_a_avx, volk_32f_x2_min_32f_a_avx512f, volk_32f_x2_min_32f_u_avx512f,
   volk_32f_x2_min_32f_u_avx, volk_32f_x2_min_32f_rvv, volk_64f_x2_min_64f_a_avx512f,
   volk_64f_x2_min_64f_a_avx, volk_64f_x2_min_64f_a_sse2, volk_64f_x2_min_64f_generic,
   volk_64f_x2_min_64f_u_avx512f, volk_64f_x2_min_64f_u_avx, volk_64f_x2_min_64f_neonv8,
   volk_64f_x2_min_64f_rvv, volk_32i_x2_and_32i_a_avx512f, volk_32i_x2_and_32i_a_avx2,
   volk_32i_x2_and_32i_a_sse, volk_32i_x2_and_32i_neon, volk_32i_x2_and_32i_neonv8,
   volk_32i_x2_and_32i_generic, volk_32i_x2_and_32i_u_avx512f, volk_32i_x2_and_32i_u_avx2,
   volk_32i_x2_and_32i_rvv, volk_32i_x2_or_32i_a_avx512f, volk_32i_x2_or_32i_a_avx2,
   volk_32i_x2_or_32i_a_sse, volk_32i_x2_or_32i_neon, volk_32i_x2_or_32i_neonv8,
   volk_32i_x2_or_32i_generic, volk_32i_x2_or_32i_u_avx512f, volk_32i_x2_or_32i_u_avx2,
   volk_32i_x2_or_32i_rvv, volk_32f_s32f_add_32f_generic, volk_32f_s32f_add_32f_u_sse,
   volk_32f_s32f_add_32f_u_avx, volk_32f_s32f_add_32f_u_neon, volk_32f_s32f_add_32f_neonv8,
   volk_32f_s32f_add_32f_a_sse, volk_32f_s32f_add_32f_a_avx, volk_32f_s32f_add_32f_rvv,
   volk_32f_s32f_multiply_32f_generic, volk_32f_s32f_multiply_32f_u_sse,
   volk_32f_s32f_multiply_32f_u_avx, volk_32f_s32f_multiply_32f_a_sse,
   volk_32f_s32f_multiply_32f_a_avx, volk_32f_s32f_multiply_32f_u_neon,
   volk_32f_s32f_multiply_32f_neonv8, volk_32f_s32f_multiply_32f_rvv,
   volk_32f_s32f_normalize_a_avx, volk_32f_s32f_normalize_a_sse,
   volk_32f_s32f_normalize_generic, volk_32f_s32f_normalize_u_avx,
   volk_32f_s32f_normalize_neon, volk_32f_s32f_normalize_neonv8, volk_32f_s32f_normalize_rvv,
   volk_32f_sqrt_32f_generic, volk_32f_sqrt_32f_a_sse, volk_32f_sqrt_32f_a_avx512,
   volk_32f_sqrt_32f_a_avx2, volk_32f_sqrt_32f_a_avx, volk_32f_sqrt_32f_neon,
   volk_32f_sqrt_32f_neonv8, volk_32f_sqrt_32f_u_sse, volk_32f_sqrt_32f_u_avx512,
   volk_32f_sqrt_32f_u_avx2, volk_32f_sqrt_32f_u_avx, volk_32f_sqrt_32f_rvv,
   volk_32f_reciprocal_32f_generic, volk_32f_reciprocal_32f_a_sse,
   volk_32f_reciprocal_32f_a_avx, volk_32f_reciprocal_32f_a_avx512,
   volk_32f_reciprocal_32f_u_sse, volk_32f_reciprocal_32f_u_avx,
   volk_32f_reciprocal_32f_u_avx512, volk_32f_reciprocal_32f_neonv8,
   volk_32f_reciprocal_32f_rvv, volk_32f_null_32f_generic, volk_32fc_x2_add_32fc_u_avx,
   volk_32fc_x2_add_32fc_a_avx, volk_32fc_x2_add_32fc_u_sse, volk_32fc_x2_add_32fc_generic,
   volk_32fc_x2_add_32fc_a_sse, volk_32fc_x2_add_32fc_u_neon, volk_32fc_x2_add_32fc_neonv8,
   volk_32fc_x2_add_32fc_rvv, volk_32fc_32f_add_32fc_generic, volk_32fc_32f_add_32fc_u_avx,
   volk_32fc_32f_add_32fc_a_avx, volk_32fc_32f_add_32fc_neon, volk_32fc_32f_add_32fc_neonv8,
   volk_32fc_32f_add_32fc_rvv, volk_32fc_x2_multiply_32fc_u_avx2_fma,
   volk_32fc_x2_multiply_32fc_u_avx, volk_32fc_x2_multiply_32fc_u_sse3,
   volk_32fc_x2_multiply_32fc_generic, volk_32fc_x2_multiply_32fc_a_avx2_fma,
   volk_32fc_x2_multiply_32fc_a_avx, volk_32fc_x2_multiply_32fc_a_sse3,
   volk_32fc_x2_multiply_32fc_neon, volk_32fc_x2_multiply_32fc_neonv8,
   volk_32fc_x2_multiply_32fc_rvv, volk_32fc_x2_multiply_32fc_rvvseg,
   volk_32fc_x2_multiply_conjugate_32fc_u_avx, volk_32fc_x2_multiply_conjugate_32fc_u_sse3,
   volk_32fc_x2_multiply_conjugate_32fc_generic, volk_32fc_x2_multiply_conjugate_32fc_a_avx,
   volk_32fc_x2_multiply_conjugate_32fc_a_sse3, volk_32fc_x2_multiply_conjugate_32fc_neon,
   volk_32fc_x2_multiply_conjugate_32fc_neonv8, volk_32fc_x2_multiply_conjugate_32fc_rvv,
   volk_32fc_x2_multiply_conjugate_32fc_rvvseg, volk_32fc_conjugate_32fc_u_avx,
   volk_32fc_conjugate_32fc_u_sse3, volk_32fc_conjugate_32fc_generic,
   volk_32fc_conjugate_32fc_a_avx, volk_32fc_conjugate_32fc_a_sse3,
   volk_32fc_conjugate_32fc_a_neon, volk_32fc_conjugate_32fc_neonv8,
   volk_32fc_conjugate_32fc_rvv, volk_32fc_32f_multiply_32fc_a_avx,
   volk_32fc_32f_multiply_32fc_a_sse, volk_32fc_32f_multiply_32fc_generic,
   volk_32fc_32f_multiply_32fc_neon, volk_32fc_32f_multiply_32fc_neonv8,
   volk_32fc_32f_multiply_32fc_rvv, volk_32fc_s32fc_multiply2_32fc_u_avx_fma,
   volk_32fc_s32fc_multiply2_32fc_u_avx, volk_32fc_s32fc_multiply2_32fc_u_sse3,
   volk_32fc_s32fc_multiply2_32fc_generic, volk_32fc_s32fc_multiply2_32fc_a_avx_fma,
   volk_32fc_s32fc_multiply2_32fc_a_avx, volk_32fc_s32fc_multiply2_32fc_a_sse3,
   volk_32fc_s32fc_multiply2_32fc_neon, volk_32fc_s32fc_multiply2_32fc_neonv8,
   volk_32fc_s32fc_multiply_32fc_u_avx_fma, volk_32fc_s32fc_multiply_32fc_u_avx,
   volk_32fc_s32fc_multiply_32fc_u_sse3, volk_32fc_s32fc_multiply_32fc_generic,
   volk_32fc_s32fc_multiply_32fc_a_avx_fma, volk_32fc_s32fc_multiply_32fc_a_avx,
   volk_32fc_s32fc_multiply_32fc_a_sse3, volk_32fc_s32fc_multiply_32fc_neon,
   volk_32fc_s32fc_multiply_32fc_neonv8,
   volk_32fc_x2_s32fc_multiply_conjugate_add2_32fc_generic,
   volk_32fc_x2_s32fc_multiply_conjugate_add2_32fc_u_avx,
   volk_32fc_x2_s32fc_multiply_conjugate_add2_32fc_u_sse3,
   volk_32fc_x2_s32fc_multiply_conjugate_add2_32fc_a_avx,
   volk_32fc_x2_s32fc_multiply_conjugate_add2_32fc_a_sse3,
   volk_32fc_x2_s32fc_multiply_conjugate_add2_32fc_neon,
   volk_32fc_x2_s32fc_multiply_conjugate_add2_32fc_neonv8,
   volk_32fc_x2_s32fc_multiply_conjugate_add2_32fc_rvv,
   volk_32fc_x2_s32fc_multiply_conjugate_add2_32fc_rvvseg,
   volk_32fc_x2_s32fc_multiply_conjugate_add_32fc_generic,
   volk_32fc_x2_s32fc_multiply_conjugate_add_32fc_u_avx,
   volk_32fc_x2_s32fc_multiply_conjugate_add_32fc_u_sse3,
   volk_32fc_x2_s32fc_multiply_conjugate_add_32fc_a_avx,
   volk_32fc_x2_s32fc_multiply_conjugate_add_32fc_a_sse3,
   volk_32fc_x2_s32fc_multiply_conjugate_add_32fc_neon,
   volk_32fc_x2_s32fc_multiply_conjugate_add_32fc_neonv8, volk_32f_convert_64f_u_avx,
   volk_32f_convert_64f_u_sse2, volk_32f_convert_64f_generic, volk_32f_convert_64f_a_avx,
   volk_32f_convert_64f_a_sse2, volk_32f_convert_64f_neonv8, volk_32f_convert_64f_rvv,
   volk_64f_convert_32f_u_avx512f, volk_64f_convert_32f_u_avx, volk_64f_convert_32f_u_sse2,
   volk_64f_convert_32f_generic, volk_64f_convert_32f_a_avx512f, volk_64f_convert_32f_a_avx,
   volk_64f_convert_32f_a_sse2, volk_64f_convert_32f_neonv8, volk_64f_convert_32f_rvv,
   volk_32f_64f_add_64f_generic, volk_32f_64f_add_64f_neonv8, volk_32f_64f_add_64f_u_avx,
   volk_32f_64f_add_64f_a_avx, volk_32f_64f_add_64f_rvv, volk_32f_64f_multiply_64f_generic,
   volk_32f_64f_multiply_64f_u_avx, volk_32f_64f_multiply_64f_a_avx,
   volk_32f_64f_multiply_64f_neonv8, volk_32f_64f_multiply_64f_rvv,
   volk_32fc_magnitude_squared_32f_u_avx, volk_32fc_magnitude_squared_32f_u_sse3,
   volk_32fc_magnitude_squared_32f_u_sse, volk_32fc_magnitude_squared_32f_generic,
   volk_32fc_magnitude_squared_32f_a_avx, volk_32fc_magnitude_squared_32f_a_sse3,
   volk_32fc_magnitude_squared_32f_a_sse, volk_32fc_magnitude_squared_32f_neon,
   volk_32fc_magnitude_squared_32f_neonv8, volk_32fc_magnitude_squared_32f_rvv,
   volk_32fc_magnitude_squared_32f_rvvseg, volk_32fc_magnitude_32f_generic,
   volk_32fc_magnitude_32f_u_avx512f, volk_32fc_magnitude_32f_u_avx,
   volk_32fc_magnitude_32f_u_sse3, volk_32fc_magnitude_32f_u_sse,
   volk_32fc_magnitude_32f_a_avx512f, volk_32fc_magnitude_32f_a_avx,
   volk_32fc_magnitude_32f_a_sse3, volk_32fc_magnitude_32f_a_sse, volk_32fc_magnitude_32f_neon,
   volk_32fc_magnitude_32f_neonv8, volk_32fc_magnitude_32f_rvv, volk_32fc_magnitude_32f_rvvseg,
   volk_32fc_x2_square_dist_32f_a_avx2, volk_32fc_x2_square_dist_32f_a_sse3,
   volk_32fc_x2_square_dist_32f_neon, volk_32fc_x2_square_dist_32f_neonv8,
   volk_32fc_x2_square_dist_32f_generic, volk_32fc_x2_square_dist_32f_u_avx2,
   volk_32fc_x2_square_dist_32f_rvv, volk_32fc_x2_square_dist_32f_rvvseg,
   volk_32fc_x2_s32f_square_dist_scalar_mult_32f_a_avx2,
   volk_32fc_x2_s32f_square_dist_scalar_mult_32f_a_avx,
   volk_32fc_x2_s32f_square_dist_scalar_mult_32f_a_sse3,
   volk_32fc_x2_s32f_square_dist_scalar_mult_32f_a_sse,
   volk_32fc_x2_s32f_square_dist_scalar_mult_32f_generic,
   volk_32fc_x2_s32f_square_dist_scalar_mult_32f_neon,
   volk_32fc_x2_s32f_square_dist_scalar_mult_32f_neonv8,
   volk_32fc_x2_s32f_square_dist_scalar_mult_32f_u_avx2,
   volk_32fc_x2_s32f_square_dist_scalar_mult_32f_u_avx,
   volk_32fc_x2_s32f_square_dist_scalar_mult_32f_u_sse3,
   volk_32fc_x2_s32f_square_dist_scalar_mult_32f_u_sse,
   volk_32fc_x2_s32f_square_dist_scalar_mult_32f_rvv,
   volk_32fc_x2_s32f_square_dist_scalar_mult_32f_rvvseg, volk_32fc_x2_divide_32fc_generic,
   volk_32fc_x2_divide_32fc_u_sse3, volk_32fc_x2_divide_32fc_u_avx,
   volk_32fc_x2_divide_32fc_u_avx2_fma, volk_32fc_x2_divide_32fc_u_avx512,
   volk_32fc_x2_divide_32fc_a_sse3, volk_32fc_x2_divide_32fc_a_avx,
   volk_32fc_x2_divide_32fc_a_avx2_fma, volk_32fc_x2_divide_32fc_a_avx512,
   volk_32fc_x2_divide_32fc_neon, volk_32fc_x2_divide_32fc_neonv8,
   volk_32fc_x2_divide_32fc_rvv, volk_32fc_x2_divide_32fc_rvvseg,
   volk_32fc_deinterleave_32f_x2_generic, volk_32fc_deinterleave_32f_x2_a_avx512f,
   volk_32fc_deinterleave_32f_x2_a_avx, volk_32fc_deinterleave_32f_x2_a_sse,
   volk_32fc_deinterleave_32f_x2_neon, volk_32fc_deinterleave_32f_x2_neonv8,
   volk_32fc_deinterleave_32f_x2_u_avx512f, volk_32fc_deinterleave_32f_x2_u_avx,
   volk_32fc_deinterleave_32f_x2_rvv, volk_32fc_deinterleave_32f_x2_rvvseg,
   volk_32fc_deinterleave_64f_x2_u_avx, volk_32fc_deinterleave_64f_x2_u_sse2,
   volk_32fc_deinterleave_64f_x2_generic, volk_32fc_deinterleave_64f_x2_a_avx,
   volk_32fc_deinterleave_64f_x2_a_sse2, volk_32fc_deinterleave_64f_x2_neon,
   volk_32fc_deinterleave_64f_x2_rvv, volk_32fc_deinterleave_64f_x2_rvvseg,
   volk_32fc_deinterleave_real_32f_a_avx2, volk_32fc_deinterleave_real_32f_a_sse,
   volk_32fc_deinterleave_real_32f_generic, volk_32fc_deinterleave_real_32f_neon,
   volk_32fc_deinterleave_real_32f_neonv8, volk_32fc_deinterleave_real_32f_u_avx2,
   volk_32fc_deinterleave_real_32f_rvv, volk_32fc_deinterleave_imag_32f_a_avx,
   volk_32fc_deinterleave_imag_32f_a_sse, volk_32fc_deinterleave_imag_32f_neon,
   volk_32fc_deinterleave_imag_32f_neonv8, volk_32fc_deinterleave_imag_32f_generic,
   volk_32fc_deinterleave_imag_32f_u_avx, volk_32fc_deinterleave_imag_32f_rvv,
   volk_32fc_deinterleave_real_64f_a_avx2, volk_32fc_deinterleave_real_64f_a_sse2,
   volk_32fc_deinterleave_real_64f_generic, volk_32fc_deinterleave_real_64f_neon,
   volk_32fc_deinterleave_real_64f_u_avx2, volk_32fc_deinterleave_real_64f_rvv,
   volk_32f_x2_interleave_32fc_a_avx, volk_32f_x2_interleave_32fc_a_sse,
   volk_32f_x2_interleave_32fc_neon, volk_32f_x2_interleave_32fc_neonv8,
   volk_32f_x2_interleave_32fc_generic, volk_32f_x2_interleave_32fc_u_avx,
   volk_32f_x2_interleave_32fc_rvv, volk_32f_x2_interleave_32fc_rvvseg,
   volk_16ic_deinterleave_16i_x2_a_avx2, volk_16ic_deinterleave_16i_x2_a_ssse3,
   volk_16ic_deinterleave_16i_x2_a_sse2, volk_16ic_deinterleave_16i_x2_generic,
   volk_16ic_deinterleave_16i_x2_neon, volk_16ic_deinterleave_16i_x2_neonv8,
   volk_16ic_deinterleave_16i_x2_u_avx2, volk_16ic_deinterleave_16i_x2_rvv,
   volk_16ic_deinterleave_16i_x2_rvvseg, volk_16ic_deinterleave_real_16i_a_avx2,
   volk_16ic_deinterleave_real_16i_a_ssse3, volk_16ic_deinterleave_real_16i_a_sse2,
   volk_16ic_deinterleave_real_16i_generic, volk_16ic_deinterleave_real_16i_neon,
   volk_16ic_deinterleave_real_16i_neonv8, volk_16ic_deinterleave_real_16i_u_avx2,
   volk_16ic_deinterleave_real_16i_rvv, volk_16ic_deinterleave_real_8i_a_avx2,
   volk_16ic_deinterleave_real_8i_a_ssse3, volk_16ic_deinterleave_real_8i_generic,
   volk_16ic_deinterleave_real_8i_neon, volk_16ic_deinterleave_real_8i_neonv8,
   volk_16ic_deinterleave_real_8i_u_avx2, volk_16ic_deinterleave_real_8i_rvv,
   volk_16ic_s32f_deinterleave_32f_x2_a_avx2, volk_16ic_s32f_deinterleave_32f_x2_a_sse,
   volk_16ic_s32f_deinterleave_32f_x2_generic, volk_16ic_s32f_deinterleave_32f_x2_neon,
   volk_16ic_s32f_deinterleave_32f_x2_neonv8, volk_16ic_s32f_deinterleave_32f_x2_u_avx2,
   volk_16ic_s32f_deinterleave_32f_x2_rvv, volk_16ic_s32f_deinterleave_32f_x2_rvvseg,
   volk_16ic_s32f_deinterleave_real_32f_a_avx2, volk_16ic_s32f_deinterleave_real_32f_a_sse4_1,
   volk_16ic_s32f_deinterleave_real_32f_a_sse, volk_16ic_s32f_deinterleave_real_32f_generic,
   volk_16ic_s32f_deinterleave_real_32f_u_avx2, volk_16ic_s32f_deinterleave_real_32f_neon,
   volk_16ic_s32f_deinterleave_real_32f_rvv, volk_8ic_deinterleave_16i_x2_a_avx2,
   volk_8ic_deinterleave_16i_x2_a_sse4_1, volk_8ic_deinterleave_16i_x2_a_avx,
   volk_8ic_deinterleave_16i_x2_generic, volk_8ic_deinterleave_16i_x2_u_avx2,
   volk_8ic_deinterleave_16i_x2_neon, volk_8ic_deinterleave_16i_x2_rvv,
   volk_8ic_deinterleave_real_16i_a_avx2, volk_8ic_deinterleave_real_16i_a_sse4_1,
   volk_8ic_deinterleave_real_16i_a_avx, volk_8ic_deinterleave_real_16i_generic,
   volk_8ic_deinterleave_real_16i_u_avx2, volk_8ic_deinterleave_real_16i_neon,
   volk_8ic_deinterleave_real_16i_rvv, volk_8ic_deinterleave_real_8i_a_avx2,
   volk_8ic_deinterleave_real_8i_a_ssse3, volk_8ic_deinterleave_real_8i_a_avx,
   volk_8ic_deinterleave_real_8i_generic, volk_8ic_deinterleave_real_8i_neon,
   volk_8ic_deinterleave_real_8i_neonv8, volk_8ic_deinterleave_real_8i_u_avx2,
   volk_8ic_deinterleave_real_8i_rvv, volk_8ic_s32f_deinterleave_32f_x2_a_sse4_1,
   volk_8ic_s32f_deinterleave_32f_x2_a_sse, volk_8ic_s32f_deinterleave_32f_x2_a_avx2,
   volk_8ic_s32f_deinterleave_32f_x2_generic, volk_8ic_s32f_deinterleave_32f_x2_u_avx2,
   volk_8ic_s32f_deinterleave_32f_x2_neon, volk_8ic_s32f_deinterleave_32f_x2_rvv,
   volk_8ic_s32f_deinterleave_real_32f_a_avx2, volk_8ic_s32f_deinterleave_real_32f_a_sse4_1,
   volk_8ic_s32f_deinterleave_real_32f_a_sse, volk_8ic_s32f_deinterleave_real_32f_generic,
   volk_8ic_s32f_deinterleave_real_32f_u_avx2, volk_8ic_s32f_deinterleave_real_32f_neon,
   volk_8ic_s32f_deinterleave_real_32f_rvv, volk_32f_s32f_convert_16i_u_avx2,
   volk_32f_s32f_convert_16i_u_avx512, volk_32f_s32f_convert_16i_u_avx,
   volk_32f_s32f_convert_16i_u_sse2, volk_32f_s32f_convert_16i_u_sse,
   volk_32f_s32f_convert_16i_generic, volk_32f_s32f_convert_16i_a_avx2,
   volk_32f_s32f_convert_16i_a_avx512, volk_32f_s32f_convert_16i_a_avx,
   volk_32f_s32f_convert_16i_a_sse2, volk_32f_s32f_convert_16i_a_sse,
   volk_32f_s32f_convert_16i_neon, volk_32f_s32f_convert_16i_neonv8,
   volk_32f_s32f_convert_16i_rvv, volk_32f_s32f_convert_8i_generic,
   volk_32f_s32f_convert_8i_u_avx2, volk_32f_s32f_convert_8i_u_avx512,
   volk_32f_s32f_convert_8i_u_sse2, volk_32f_s32f_convert_8i_u_sse,
   volk_32f_s32f_convert_8i_a_avx2, volk_32f_s32f_convert_8i_a_avx512,
   volk_32f_s32f_convert_8i_a_sse2, volk_32f_s32f_convert_8i_a_sse,
   volk_32f_s32f_convert_8i_neon, volk_32f_s32f_convert_8i_neonv8,
   volk_32f_s32f_convert_8i_rvv, volk_32f_s32f_x2_convert_8u_generic,
   volk_32f_s32f_x2_convert_8u_u_avx2_fma, volk_32f_s32f_x2_convert_8u_u_avx2,
   volk_32f_s32f_x2_convert_8u_u_sse2, volk_32f_s32f_x2_convert_8u_u_sse,
   volk_32f_s32f_x2_convert_8u_a_avx2_fma, volk_32f_s32f_x2_convert_8u_a_avx2,
   volk_32f_s32f_x2_convert_8u_a_sse2, volk_32f_s32f_x2_convert_8u_a_sse,
   volk_32f_s32f_x2_convert_8u_neonv8, volk_32f_s32f_x2_convert_8u_rvv,
   volk_16i_s32f_convert_32f_u_avx2, volk_16i_s32f_convert_32f_u_avx512,
   volk_16i_s32f_convert_32f_u_avx, volk_16i_s32f_convert_32f_u_sse4_1,
   volk_16i_s32f_convert_32f_u_sse, volk_16i_s32f_convert_32f_generic,
   volk_16i_s32f_convert_32f_neon, volk_16i_s32f_convert_32f_neonv8,
   volk_16i_s32f_convert_32f_a_avx2, volk_16i_s32f_convert_32f_a_avx512,
   volk_16i_s32f_convert_32f_a_avx, volk_16i_s32f_convert_32f_a_sse4_1,
   volk_16i_s32f_convert_32f_a_sse, volk_16i_s32f_convert_32f_rvv,
   volk_8i_s32f_convert_32f_u_avx2, volk_8i_s32f_convert_32f_u_avx512,
   volk_8i_s32f_convert_32f_u_sse4_1, volk_8i_s32f_convert_32f_generic,
   volk_8i_s32f_convert_32f_a_avx2, volk_8i_s32f_convert_32f_a_avx512,
   volk_8i_s32f_convert_32f_a_sse4_1, volk_8i_s32f_convert_32f_neon,
   volk_8i_s32f_convert_32f_neonv8, volk_8i_s32f_convert_32f_rvv,
   volk_32i_s32f_convert_32f_u_avx512f, volk_32i_s32f_convert_32f_u_avx2,
   volk_32i_s32f_convert_32f_u_sse2, volk_32i_s32f_convert_32f_generic,
   volk_32i_s32f_convert_32f_a_avx512f, volk_32i_s32f_convert_32f_a_avx2,
   volk_32i_s32f_convert_32f_a_sse2, volk_32i_s32f_convert_32f_neon,
   volk_32i_s32f_convert_32f_neonv8, volk_32i_s32f_convert_32f_rvv,
   volk_32fc_convert_16ic_a_avx2, volk_32fc_convert_16ic_a_avx512,
   volk_32fc_convert_16ic_a_sse2, volk_32fc_convert_16ic_neon, volk_32fc_convert_16ic_neonv8,
   volk_32fc_convert_16ic_generic, volk_32fc_convert_16ic_u_avx2,
   volk_32fc_convert_16ic_u_avx512, volk_32fc_convert_16ic_u_sse2, volk_32fc_convert_16ic_rvv,
   volk_16ic_convert_32fc_a_avx2, volk_16ic_convert_32fc_a_avx512,
   volk_16ic_convert_32fc_generic, volk_16ic_convert_32fc_a_sse2, volk_16ic_convert_32fc_a_avx,
   volk_16ic_convert_32fc_neon, volk_16ic_convert_32fc_neonv8, volk_16ic_convert_32fc_u_avx2,
   volk_16ic_convert_32fc_u_avx512, volk_16ic_convert_32fc_u_sse2,
   volk_16ic_convert_32fc_u_avx, volk_16ic_convert_32fc_rvv,
   volk_32f_x2_s32f_interleave_16ic_a_avx2, volk_32f_x2_s32f_interleave_16ic_a_sse2,
   volk_32f_x2_s32f_interleave_16ic_a_sse, volk_32f_x2_s32f_interleave_16ic_generic,
   volk_32f_x2_s32f_interleave_16ic_u_avx2, volk_32f_x2_s32f_interleave_16ic_neon,
   volk_32f_x2_s32f_interleave_16ic_neonv8, volk_32f_x2_s32f_interleave_16ic_rvv,
   volk_32f_x2_s32f_interleave_16ic_rvvseg, volk_32fc_s32f_deinterleave_real_16i_a_avx2,
   volk_32fc_s32f_deinterleave_real_16i_a_sse, volk_32fc_s32f_deinterleave_real_16i_generic,
   volk_32fc_s32f_deinterleave_real_16i_u_avx2, volk_32fc_s32f_deinterleave_real_16i_neon,
   volk_32fc_s32f_deinterleave_real_16i_neonv8, volk_32fc_s32f_deinterleave_real_16i_rvv,
   volk_16ic_s32f_magnitude_32f_a_avx2, volk_16ic_s32f_magnitude_32f_a_sse3,
   volk_16ic_s32f_magnitude_32f_a_sse, volk_16ic_s32f_magnitude_32f_generic,
   volk_16ic_s32f_magnitude_32f_u_avx2, volk_16ic_s32f_magnitude_32f_neon,
   volk_16ic_s32f_magnitude_32f_neonv8, volk_16ic_s32f_magnitude_32f_rvv,
   volk_16ic_s32f_magnitude_32f_rvvseg, volk_16ic_magnitude_16i_a_avx2,
   volk_16ic_magnitude_16i_a_sse3, volk_16ic_magnitude_16i_a_sse,
   volk_16ic_magnitude_16i_generic, volk_16ic_magnitude_16i_u_avx2,
   volk_16ic_magnitude_16i_neonv7, volk_16ic_magnitude_16i_neonv8, volk_16ic_magnitude_16i_rvv,
   volk_16ic_magnitude_16i_rvvseg, volk_32fc_s32f_magnitude_16i_generic,
   volk_32fc_s32f_magnitude_16i_a_avx2, volk_32fc_s32f_magnitude_16i_a_sse3,
   volk_32fc_s32f_magnitude_16i_a_sse, volk_32fc_s32f_magnitude_16i_u_avx2,
   volk_32fc_s32f_magnitude_16i_neon, volk_32fc_s32f_magnitude_16i_neonv8,
   volk_32fc_s32f_magnitude_16i_rvv, volk_32fc_s32f_magnitude_16i_rvvseg,
   volk_16i_convert_8i_u_avx2, volk_16i_convert_8i_u_avx512bw, volk_16i_convert_8i_u_sse2,
   volk_16i_convert_8i_generic, volk_16i_convert_8i_a_avx2, volk_16i_convert_8i_a_avx512bw,
   volk_16i_convert_8i_a_sse2, volk_16i_convert_8i_neon, volk_16i_convert_8i_neonv8,
   volk_16i_convert_8i_rvv, volk_8i_convert_16i_u_avx2, volk_8i_convert_16i_u_avx512bw,
   volk_8i_convert_16i_u_sse4_1, volk_8i_convert_16i_generic, volk_8i_convert_16i_a_avx2,
   volk_8i_convert_16i_a_avx512bw, volk_8i_convert_16i_a_sse4_1, volk_8i_convert_16i_neon,
   volk_8i_convert_16i_neonv8, volk_8i_convert_16i_rvv, volk_8i_x2_add_saturated_8i_generic,
   volk_8i_x2_add_saturated_8i_u_sse2, volk_8i_x2_add_saturated_8i_u_avx2,
   volk_8i_x2_add_saturated_8i_u_avx512bw, volk_8i_x2_add_saturated_8i_a_sse2,
   volk_8i_x2_add_saturated_8i_a_avx2, volk_8i_x2_add_saturated_8i_a_avx512bw,
   volk_8i_x2_add_saturated_8i_neon, volk_8i_x2_add_saturated_8i_neonv8,
   volk_8i_x2_add_saturated_8i_rvv, volk_8u_x2_add_saturated_8u_generic,
   volk_8u_x2_add_saturated_8u_u_sse2, volk_8u_x2_add_saturated_8u_u_avx2,
   volk_8u_x2_add_saturated_8u_u_avx512bw, volk_8u_x2_add_saturated_8u_a_sse2,
   volk_8u_x2_add_saturated_8u_a_avx2, volk_8u_x2_add_saturated_8u_a_avx512bw,
   volk_8u_x2_add_saturated_8u_neon, volk_8u_x2_add_saturated_8u_neonv8,
   volk_8u_x2_add_saturated_8u_rvv, volk_16i_x2_add_saturated_16i_generic,
   volk_16i_x2_add_saturated_16i_u_sse2, volk_16i_x2_add_saturated_16i_u_avx2,
   volk_16i_x2_add_saturated_16i_u_avx512bw, volk_16i_x2_add_saturated_16i_a_sse2,
   volk_16i_x2_add_saturated_16i_a_avx2, volk_16i_x2_add_saturated_16i_a_avx512bw,
   volk_16i_x2_add_saturated_16i_neon, volk_16i_x2_add_saturated_16i_neonv8,
   volk_16i_x2_add_saturated_16i_rvv, volk_16u_x2_add_saturated_16u_generic,
   volk_16u_x2_add_saturated_16u_u_sse2, volk_16u_x2_add_saturated_16u_u_avx2,
   volk_16u_x2_add_saturated_16u_u_avx512bw, volk_16u_x2_add_saturated_16u_a_sse2,
   volk_16u_x2_add_saturated_16u_a_avx2, volk_16u_x2_add_saturated_16u_a_avx512bw,
   volk_16u_x2_add_saturated_16u_neon, volk_16u_x2_add_saturated_16u_neonv8,
   volk_16u_x2_add_saturated_16u_rvv, volk_32f_s32f_x2_clamp_32f_generic,
   volk_32f_s32f_x2_clamp_32f_a_avx2, volk_32f_s32f_x2_clamp_32f_a_sse4_1,
   volk_32f_s32f_x2_clamp_32f_u_avx2, volk_32f_s32f_x2_clamp_32f_u_sse4_1,
   volk_32f_s32f_x2_clamp_32f_neon, volk_32f_s32f_x2_clamp_32f_neonv8,
   volk_32f_s32f_x2_clamp_32f_rvv, volk_32f_binary_slicer_32i_generic,
   volk_32f_binary_slicer_32i_generic_branchless, volk_32f_binary_slicer_32i_a_sse2,
   volk_32f_binary_slicer_32i_a_avx, volk_32f_binary_slicer_32i_u_sse2,
   volk_32f_binary_slicer_32i_u_avx, volk_32f_binary_slicer_32i_neon,
   volk_32f_binary_slicer_32i_neonv8, volk_32f_binary_slicer_8i_generic,
   volk_32f_binary_slicer_8i_generic_branchless, volk_32f_binary_slicer_8i_a_avx2,
   volk_32f_binary_slicer_8i_u_avx2, volk_32f_binary_slicer_8i_a_sse2,
   volk_32f_binary_slicer_8i_u_sse2, volk_32f_binary_slicer_8i_neon,
   volk_32f_binary_slicer_8i_rvv, volk_16u_byteswap_generic, volk_16u_byteswap_a_avx2,
   volk_16u_byteswap_u_avx2, volk_16u_byteswap_u_sse2, volk_16u_byteswap_a_sse2,
   volk_16u_byteswap_neon, volk_16u_byteswap_neon_table, volk_16u_byteswap_neonv8,
   volk_16u_byteswap_rvv, volk_16u_byteswap_rva23, volk_32u_byteswap_u_avx2,
   volk_32u_byteswap_u_sse2, volk_32u_byteswap_neon, volk_32u_byteswap_neonv8,
   volk_32u_byteswap_generic, volk_32u_byteswap_a_avx2, volk_32u_byteswap_a_sse2,
   volk_32u_byteswap_rvv, volk_32u_byteswap_rva23, volk_64u_byteswap_u_sse2,
   volk_64u_byteswap_neon, volk_64u_byteswap_generic, volk_64u_byteswap_a_avx2,
   volk_64u_byteswap_a_ssse3, volk_64u_byteswap_a_sse2, volk_64u_byteswap_u_avx2,
   volk_64u_byteswap_u_ssse3, volk_64u_byteswap_rvv, volk_64u_byteswap_rva23,
   volk_16ic_x2_multiply_16ic_generic, volk_16ic_x2_multiply_16ic_a_sse2,
   volk_16ic_x2_multiply_16ic_u_sse2, volk_16ic_x2_multiply_16ic_u_avx2,
   volk_16ic_x2_multiply_16ic_a_avx2, volk_16ic_x2_multiply_16ic_neon,
   volk_16ic_x2_multiply_16ic_neonv8, volk_16ic_x2_multiply_16ic_rvv,
   volk_16ic_x2_multiply_16ic_rvvseg, volk_8ic_x2_s32f_multiply_conjugate_32fc_a_avx2,
   volk_8ic_x2_s32f_multiply_conjugate_32fc_a_sse4_1,
   volk_8ic_x2_s32f_multiply_conjugate_32fc_generic,
   volk_8ic_x2_s32f_multiply_conjugate_32fc_neon,
   volk_8ic_x2_s32f_multiply_conjugate_32fc_u_avx2,
   volk_8ic_x2_s32f_multiply_conjugate_32fc_rvv,
   volk_8ic_x2_s32f_multiply_conjugate_32fc_rvvseg, volk_8ic_x2_multiply_conjugate_16ic_a_avx2,
   volk_8ic_x2_multiply_conjugate_16ic_a_sse4_1, volk_8ic_x2_multiply_conjugate_16ic_generic,
   volk_8ic_x2_multiply_conjugate_16ic_neon, volk_8ic_x2_multiply_conjugate_16ic_u_avx2,
   volk_32f_accumulator_s32f_a_avx512f, volk_32f_accumulator_s32f_a_avx,
   volk_32f_accumulator_s32f_u_avx512f, volk_32f_accumulator_s32f_u_avx,
   volk_32f_accumulator_s32f_a_sse, volk_32f_accumulator_s32f_u_sse,
   volk_32f_accumulator_s32f_neon, volk_32f_accumulator_s32f_neonv8,
   volk_32f_accumulator_s32f_generic, volk_32f_accumulator_s32f_rvv,
   volk_32f_x2_dot_prod_32f_generic, volk_32f_x2_dot_prod_32f_u_sse,
   volk_32f_x2_dot_prod_32f_u_sse3, volk_32f_x2_dot_prod_32f_u_sse4_1,
   volk_32f_x2_dot_prod_32f_u_avx, volk_32f_x2_dot_prod_32f_u_avx2_fma,
   volk_32f_x2_dot_prod_32f_u_avx512f, volk_32f_x2_dot_prod_32f_a_sse,
   volk_32f_x2_dot_prod_32f_a_sse3, volk_32f_x2_dot_prod_32f_a_sse4_1,
   volk_32f_x2_dot_prod_32f_a_avx, volk_32f_x2_dot_prod_32f_a_avx2_fma,
   volk_32f_x2_dot_prod_32f_a_avx512f, volk_32f_x2_dot_prod_32f_neon,
   volk_32f_x2_dot_prod_32f_neonv8, volk_32f_x2_dot_prod_32f_rvv,
   volk_64f_x2_dot_prod_64f_generic, volk_64f_x2_dot_prod_64f_u_sse2,
   volk_64f_x2_dot_prod_64f_u_avx, volk_64f_x2_dot_prod_64f_u_avx2_fma,
   volk_64f_x2_dot_prod_64f_u_avx512f, volk_64f_x2_dot_prod_64f_a_sse2,
   volk_64f_x2_dot_prod_64f_a_avx, volk_64f_x2_dot_prod_64f_a_avx2_fma,
   volk_64f_x2_dot_prod_64f_a_avx512f, volk_64f_x2_dot_prod_64f_neonv8,
   volk_64f_x2_dot_prod_64f_rvv, volk_32f_x2_dot_prod_16i_generic,
   volk_32f_x2_dot_prod_16i_a_sse, volk_32f_x2_dot_prod_16i_a_avx2_fma,
   volk_32f_x2_dot_prod_16i_a_avx, volk_32f_x2_dot_prod_16i_a_avx512f,
   volk_32f_x2_dot_prod_16i_u_sse, volk_32f_x2_dot_prod_16i_u_avx2_fma,
   volk_32f_x2_dot_prod_16i_u_avx, volk_32f_x2_dot_prod_16i_u_avx512f,
   volk_32f_x2_dot_prod_16i_neon, volk_32f_x2_dot_prod_16i_neonv8,
   volk_32f_x2_dot_prod_16i_rvv, volk_32f_s32f_stddev_32f_a_sse4_1,
   volk_32f_s32f_stddev_32f_a_sse, volk_32f_s32f_stddev_32f_a_avx,
   volk_32f_s32f_stddev_32f_generic, volk_32f_s32f_stddev_32f_neon,
   volk_32f_s32f_stddev_32f_neonv8, volk_32f_s32f_stddev_32f_u_avx,
   volk_32f_s32f_stddev_32f_rvv, volk_32f_x3_sum_of_poly_32f_a_sse3,
   volk_32f_x3_sum_of_poly_32f_a_avx2_fma, volk_32f_x3_sum_of_poly_32f_a_avx,
   volk_32f_x3_sum_of_poly_32f_generic, volk_32f_x3_sum_of_poly_32f_neon,
   volk_32f_x3_sum_of_poly_32f_u_avx_fma, volk_32f_x3_sum_of_poly_32f_u_avx,
   volk_32f_x3_sum_of_poly_32f_rvv, volk_32fc_accumulator_s32fc_a_avx512f,
   volk_32fc_accumulator_s32fc_u_avx512f, volk_32fc_accumulator_s32fc_generic,
   volk_32fc_accumulator_s32fc_u_avx, volk_32fc_accumulator_s32fc_u_sse,
   volk_32fc_accumulator_s32fc_a_avx, volk_32fc_accumulator_s32fc_a_sse,
   volk_32fc_accumulator_s32fc_neon, volk_32fc_accumulator_s32fc_neonv8,
   volk_32fc_accumulator_s32fc_rvv, volk_32fc_32f_dot_prod_32fc_generic,
   volk_32fc_32f_dot_prod_32fc_a_avx512f, volk_32fc_32f_dot_prod_32fc_a_avx2_fma,
   volk_32fc_32f_dot_prod_32fc_a_avx, volk_32fc_32f_dot_prod_32fc_a_sse,
   volk_32fc_32f_dot_prod_32fc_u_avx512f, volk_32fc_32f_dot_prod_32fc_u_avx2_fma,
   volk_32fc_32f_dot_prod_32fc_u_avx, volk_32fc_32f_dot_prod_32fc_neon_unroll,
   volk_32fc_32f_dot_prod_32fc_a_neon, volk_32fc_32f_dot_prod_32fc_neonv8,
   volk_32fc_32f_dot_prod_32fc_u_sse, volk_32fc_32f_dot_prod_32fc_rvv,
   volk_32fc_32f_dot_prod_32fc_rvvseg, volk_16i_32fc_dot_prod_32fc_generic,
   volk_16i_32fc_dot_prod_32fc_neon, volk_16i_32fc_dot_prod_32fc_neonv8,
   volk_16i_32fc_dot_prod_32fc_u_sse, volk_16i_32fc_dot_prod_32fc_u_avx2_fma,
   volk_16i_32fc_dot_prod_32fc_u_avx2, volk_16i_32fc_dot_prod_32fc_a_sse,
   volk_16i_32fc_dot_prod_32fc_a_avx2, volk_16i_32fc_dot_prod_32fc_a_avx2_fma,
   volk_16i_32fc_dot_prod_32fc_rvv, volk_16i_32fc_dot_prod_32fc_rvvseg,
   volk_32fc_x2_dot_prod_32fc_generic, volk_32fc_x2_dot_prod_32fc_u_sse3,
   volk_32fc_x2_dot_prod_32fc_u_avx, volk_32fc_x2_dot_prod_32fc_u_avx_fma,
   volk_32fc_x2_dot_prod_32fc_a_sse3, volk_32fc_x2_dot_prod_32fc_neon,
   volk_32fc_x2_dot_prod_32fc_neon_opttests, volk_32fc_x2_dot_prod_32fc_neon_optfma,
   volk_32fc_x2_dot_prod_32fc_neon_optfmaunroll, volk_32fc_x2_dot_prod_32fc_neonv8,
   volk_32fc_x2_dot_prod_32fc_a_avx, volk_32fc_x2_dot_prod_32fc_a_avx_fma,
   volk_32fc_x2_dot_prod_32fc_rvv, volk_32fc_x2_dot_prod_32fc_rvvseg,
   volk_32fc_x2_conjugate_dot_prod_32fc_generic, volk_32fc_x2_conjugate_dot_prod_32fc_block,
   volk_32fc_x2_conjugate_dot_prod_32fc_u_sse3, volk_32fc_x2_conjugate_dot_prod_32fc_a_sse3,
   volk_32fc_x2_conjugate_dot_prod_32fc_u_avx, volk_32fc_x2_conjugate_dot_prod_32fc_a_avx,
   volk_32fc_x2_conjugate_dot_prod_32fc_u_avx512dq,
   volk_32fc_x2_conjugate_dot_prod_32fc_a_avx512dq, volk_32fc_x2_conjugate_dot_prod_32fc_neon,
   volk_32fc_x2_conjugate_dot_prod_32fc_neonv8, volk_32fc_x2_conjugate_dot_prod_32fc_rvv,
   volk_32fc_x2_conjugate_dot_prod_32fc_rvvseg, volk_16ic_x2_dot_prod_16ic_generic,
   volk_16ic_x2_dot_prod_16ic_a_sse2, volk_16ic_x2_dot_prod_16ic_u_sse2,
   volk_16ic_x2_dot_prod_16ic_u_avx2, volk_16ic_x2_dot_prod_16ic_a_avx2,
   volk_16ic_x2_dot_prod_16ic_neon, volk_16ic_x2_dot_prod_16ic_neon_vma,
   volk_16ic_x2_dot_prod_16ic_neon_optvma, volk_16ic_x2_dot_prod_16ic_neonv8,
   volk_16ic_x2_dot_prod_16ic_rvv, volk_16ic_x2_dot_prod_16ic_rvvseg,
   volk_32f_x2_pow_32f_a_avx2_fma, volk_32f_x2_pow_32f_a_avx2, volk_32f_x2_pow_32f_a_sse4_1,
   volk_32f_x2_pow_32f_generic, volk_32f_x2_pow_32f_neon, volk_32f_x2_pow_32f_neonv8,
   volk_32f_x2_pow_32f_u_sse4_1, volk_32f_x2_pow_32f_u_avx2_fma, volk_32f_x2_pow_32f_u_avx2,
   volk_32f_x2_pow_32f_rvv, volk_32f_log2_32f_generic, volk_32f_log2_32f_u_sse4_1,
   volk_32f_log2_32f_a_sse4_1, volk_32f_log2_32f_u_avx2, volk_32f_log2_32f_a_avx2,
   volk_32f_log2_32f_u_avx2_fma, volk_32f_log2_32f_a_avx2_fma, volk_32f_log2_32f_u_avx512,
   volk_32f_log2_32f_a_avx512, volk_32f_log2_32f_u_avx512dq, volk_32f_log2_32f_a_avx512dq,
   volk_32f_log2_32f_neon, volk_32f_log2_32f_neonv8, volk_32f_log2_32f_rvv,
   volk_32f_exp_32f_a_sse2, volk_32f_exp_32f_a_avx2, volk_32f_exp_32f_u_sse2,
   volk_32f_exp_32f_u_avx2, volk_32f_exp_32f_generic, volk_32f_exp_32f_neon,
   volk_32f_exp_32f_neonv8, volk_32f_exp_32f_rvv, volk_32f_expfast_32f_a_avx_fma,
   volk_32f_expfast_32f_a_avx, volk_32f_expfast_32f_a_sse4_1, volk_32f_expfast_32f_u_avx_fma,
   volk_32f_expfast_32f_u_avx, volk_32f_expfast_32f_u_sse4_1, volk_32f_expfast_32f_generic,
   volk_32f_expfast_32f_neon, volk_32f_expfast_32f_neonv8, volk_32f_expfast_32f_rvv,
   volk_32f_invsqrt_32f_generic, volk_32f_invsqrt_32f_recip_sqrt, volk_32f_invsqrt_32f_Q_rsqrt,
   volk_32f_invsqrt_32f_a_sse, volk_32f_invsqrt_32f_a_avx, volk_32f_invsqrt_32f_a_avx2,
   volk_32f_invsqrt_32f_a_avx512f, volk_32f_invsqrt_32f_u_sse, volk_32f_invsqrt_32f_u_avx,
   volk_32f_invsqrt_32f_u_avx2, volk_32f_invsqrt_32f_u_avx512f, volk_32f_invsqrt_32f_neon,
   volk_32f_invsqrt_32f_neonv8, volk_32f_invsqrt_32f_rvv, volk_32f_tanh_32f_generic,
   volk_32f_tanh_32f_series, volk_32f_tanh_32f_a_sse, volk_32f_tanh_32f_a_avx,
   volk_32f_tanh_32f_a_avx_fma, volk_32f_tanh_32f_neon, volk_32f_tanh_32f_neonv8,
   volk_32f_tanh_32f_u_sse, volk_32f_tanh_32f_u_avx, volk_32f_tanh_32f_u_avx_fma,
   volk_32f_tanh_32f_rvv, volk_32f_s32f_convert_32i_u_avx, volk_32f_s32f_convert_32i_u_sse2,
   volk_32f_s32f_convert_32i_u_sse, volk_32f_s32f_convert_32i_generic,
   volk_32f_s32f_convert_32i_a_avx, volk_32f_s32f_convert_32i_a_sse2,
   volk_32f_s32f_convert_32i_a_sse, volk_32f_s32f_convert_32i_neon,
   volk_32f_s32f_convert_32i_neonv8, volk_32f_s32f_convert_32i_rvv,
   volk_32fc_s32f_power_spectrum_32f_generic, volk_32fc_s32f_power_spectrum_32f_neon,
   volk_32fc_s32f_power_spectrum_32f_rvv, volk_32fc_s32f_power_spectrum_32f_rvvseg,
   volk_32f_s32f_s32f_mod_range_32f_generic, volk_32f_s32f_s32f_mod_range_32f_u_avx,
   volk_32f_s32f_s32f_mod_range_32f_a_avx, volk_32f_s32f_s32f_mod_range_32f_u_sse2,
   volk_32f_s32f_s32f_mod_range_32f_a_sse2, volk_32f_s32f_s32f_mod_range_32f_u_sse,
   volk_32f_s32f_s32f_mod_range_32f_a_sse, volk_32f_s32f_s32f_mod_range_32f_neon,
   volk_32f_s32f_s32f_mod_range_32f_neonv8, volk_32f_s32f_s32f_mod_range_32f_rvv,
   volk_32f_s32f_calc_spectral_noise_floor_32f_a_avx,
   volk_32f_s32f_calc_spectral_noise_floor_32f_a_sse,
   volk_32f_s32f_calc_spectral_noise_floor_32f_generic,
   volk_32f_s32f_calc_spectral_noise_floor_32f_neon,
   volk_32f_s32f_calc_spectral_noise_floor_32f_neonv8,
   volk_32f_s32f_calc_spectral_noise_floor_32f_u_avx,
   volk_32f_s32f_calc_spectral_noise_floor_32f_rvv, volk_32u_reverse_32u_generic,
   volk_32u_reverse_32u_byte_shuffle, volk_32u_reverse_32u_lut, volk_32u_reverse_32u_2001magic,
   volk_32u_reverse_32u_1972magic, volk_32u_reverse_32u_bintree_permute_top_down,
   volk_32u_reverse_32u_bintree_permute_bottom_up, volk_32u_reverse_32u_neonv8,
   volk_32u_reverse_32u_arm, volk_32u_reverse_32u_rvv, volk_32u_reverse_32u_rva23,
   volk_16i_x5_add_quad_16i_x4_a_sse2, volk_16i_x5_add_quad_16i_x4_neon,
   volk_16i_x5_add_quad_16i_x4_generic, volk_16i_x4_quad_max_star_16i_a_sse2,
   volk_16i_x4_quad_max_star_16i_neon, volk_16i_x4_quad_max_star_16i_generic,
   volk_16i_max_star_horizontal_16i_a_ssse3, volk_16i_max_star_horizontal_16i_neon,
   volk_16i_max_star_horizontal_16i_generic, volk_16i_permute_and_scalar_add_a_sse2,
   volk_16i_permute_and_scalar_add_generic, volk_32f_sin_32f_polynomial,
   volk_32f_sin_32f_a_avx512f, volk_32f_sin_32f_a_avx2_fma, volk_32f_sin_32f_a_avx2,
   volk_32f_sin_32f_a_sse4_1, volk_32f_sin_32f_u_avx512f, volk_32f_sin_32f_u_avx2_fma,
   volk_32f_sin_32f_u_avx2, volk_32f_sin_32f_u_sse4_1, volk_32f_sin_32f_generic,
   volk_32f_sin_32f_neon, volk_32f_sin_32f_neonv8, volk_32f_sin_32f_rvv,
   volk_32f_cos_32f_generic, volk_32f_cos_32f_polynomial, volk_32f_cos_32f_a_avx512f,
   volk_32f_cos_32f_a_avx2_fma, volk_32f_cos_32f_a_avx2, volk_32f_cos_32f_a_sse4_1,
   volk_32f_cos_32f_u_avx512f, volk_32f_cos_32f_u_avx2_fma, volk_32f_cos_32f_u_avx2,
   volk_32f_cos_32f_u_sse4_1, volk_32f_cos_32f_neon, volk_32f_cos_32f_neonv8,
   volk_32f_cos_32f_rvv, volk_32f_sincos_32f_x2_generic, volk_32f_sincos_32f_x2_polynomial,
   volk_32f_sincos_32f_x2_a_avx512f, volk_32f_sincos_32f_x2_a_avx2_fma,
   volk_32f_sincos_32f_x2_a_avx2, volk_32f_sincos_32f_x2_a_sse4_1,
   volk_32f_sincos_32f_x2_u_avx512f, volk_32f_sincos_32f_x2_u_avx2_fma,
   volk_32f_sincos_32f_x2_u_avx2, volk_32f_sincos_32f_x2_u_sse4_1, volk_32f_sincos_32f_x2_neon,
   volk_32f_sincos_32f_x2_neonv8, volk_32f_tan_32f_a_avx2_fma, volk_32f_tan_32f_a_avx2,
   volk_32f_tan_32f_a_sse4_1, volk_32f_tan_32f_u_avx2_fma, volk_32f_tan_32f_u_avx2,
   volk_32f_tan_32f_u_sse4_1, volk_32f_tan_32f_generic, volk_32f_tan_32f_neon,
   volk_32f_tan_32f_neonv8, volk_32f_tan_32f_rvv, volk_32f_asin_32f_generic,
   volk_32f_asin_32f_a_sse4_1, volk_32f_asin_32f_a_avx, volk_32f_asin_32f_a_avx2_fma,
   volk_32f_asin_32f_a_avx512, volk_32f_asin_32f_u_sse4_1, volk_32f_asin_32f_u_avx,
   volk_32f_asin_32f_u_avx2_fma, volk_32f_asin_32f_u_avx512, volk_32f_asin_32f_neon,
   volk_32f_asin_32f_neonv8, volk_32f_acos_32f_generic, volk_32f_acos_32f_a_sse4_1,
   volk_32f_acos_32f_a_avx, volk_32f_acos_32f_a_avx2_fma, volk_32f_acos_32f_a_avx512,
   volk_32f_acos_32f_u_sse4_1, volk_32f_acos_32f_u_avx, volk_32f_acos_32f_u_avx2_fma,
   volk_32f_acos_32f_u_avx512, volk_32f_acos_32f_neon, volk_32f_acos_32f_neonv8,
   volk_32f_atan_32f_generic, volk_32f_atan_32f_polynomial, volk_32f_atan_32f_a_avx512dq,
   volk_32f_atan_32f_a_avx2_fma, volk_32f_atan_32f_a_avx2, volk_32f_atan_32f_a_sse4_1,
   volk_32f_atan_32f_neon, volk_32f_atan_32f_neonv8, volk_32f_atan_32f_u_avx512dq,
   volk_32f_atan_32f_u_avx2_fma, volk_32f_atan_32f_u_avx2, volk_32f_atan_32f_u_sse4_1,
   volk_32f_atan_32f_rvv, volk_32fc_s32f_atan2_32f_generic,
   volk_32fc_s32f_atan2_32f_polynomial, volk_32fc_s32f_atan2_32f_a_avx512dq,
   volk_32fc_s32f_atan2_32f_a_avx2_fma, volk_32fc_s32f_atan2_32f_a_avx2,
   volk_32fc_s32f_atan2_32f_neon, volk_32fc_s32f_atan2_32f_neonv8,
   volk_32fc_s32f_atan2_32f_u_avx512dq, volk_32fc_s32f_atan2_32f_u_avx2_fma,
   volk_32fc_s32f_atan2_32f_u_avx2, volk_32fc_s32f_atan2_32f_rvv,
   volk_32fc_s32f_atan2_32f_rvvseg}

(* Without those that load more points of an operand than there are.       *)
MCRows == {p \in Rows : p.once < 2}
MCCalls ==
  LET Numbers(p) == {3, (5 * p.loops[1].block) \div 2}
  IN  UNION {{p} \X Numbers(p) : p \in MCRows}

(* What is left in loop j of a round of k points of loop i.                *)
LeftOf(p) ==
  LET J == DOMAIN p.loops
      left[r \in J \X J \X Nat] ==
        IF r[2] = r[1] THEN p.loops[r[1]].adds[r[3]]
        ELSE Sums(p.loops[r[2]].carry, left[<<r[1], r[2] - 1, r[3]>>])
  IN  left

(* The rows have what the theorems ask of them: for all of these functions *)
(* and every num_points, the output is what `generic` computes and nothing *)
(* behind the buffers is touched.                                          *)
ASSUME RowsAssumption ==
  \A p \in MCRows :
    /\ RightBlocks(p) /\ SmallBlocks(p)
    /\ RightSums(p, LeftOf(p))

(* The rotator, with blocks of two vectors instead of 64: no call, parts   *)
(* of a vector, a vector, a block, and blocks with and without a rest.     *)
MCRotators ==
  {volk_32fc_s32fc_x2_rotator2_32fc_generic, volk_32fc_s32fc_x2_rotator2_32fc_neon,
   volk_32fc_s32fc_x2_rotator2_32fc_a_avx, volk_32fc_s32fc_x2_rotator2_32fc_u_avx,
   volk_32fc_s32fc_x2_rotator2_32fc_a_avx512f, volk_32fc_s32fc_x2_rotator2_32fc_u_avx512f,
   volk_32fc_s32fc_x2_rotator2_32fc_rvv, volk_32fc_s32fc_x2_rotator2_32fc_rvvseg}
MCLengths == {0, 1, 7, 8, 16, 38, 43}

(* Six turns, so that octants are met with every value of the bits tested. *)
MCArguments == {2 * k + 1 : k \in -72 .. 71}

(* The Viterbi decoder: words with and without ones in the tail, an even   *)
(* and an odd number of pairs, soft symbols, and symbols that belong to no *)
(* word and drive the metrics as far apart as they come.                   *)
MCViterbis ==
  {volk_8u_conv_k7_r2puppet_8u_generic, volk_8u_conv_k7_r2puppet_8u_spiral,
   volk_8u_conv_k7_r2puppet_8u_avx2, volk_8u_conv_k7_r2puppet_8u_neonspiral,
   volk_8u_conv_k7_r2puppet_8u_rvv}
MCFrameBits == {12, 27, 49}
MCSentWords == {{}, {0, 1, 3, 6, 7, 11, 15, 16, 20, 24}}

Hard(high) == [s \in 0 .. 47 |-> IF s \in high THEN 255 ELSE 0]
Soft == [s \in {2, 3, 7, 12, 18, 19, 25, 31, 40} |-> (s * 37) % 256]
Storm ==
  Hard({0, 2, 4, 7, 8, 10, 12, 13, 15, 16, 18, 24, 28, 32, 38, 39, 43, 44, 45})
MCDisturbances == {<<>>, Soft, Storm}

(* Signals in calls shorter than a vector, of one or two vectors, and with *)
(* rounds of vectors and a rest; deviations likewise.                      *)
MCDetectors ==
  {volk_32f_s32f_32f_fm_detect_32f_generic, volk_32f_s32f_32f_fm_detect_32f_rvv,
   volk_32f_s32f_32f_fm_detect_32f_a_sse, volk_32f_s32f_32f_fm_detect_32f_neon,
   volk_32f_s32f_32f_fm_detect_32f_a_avx, volk_32f_s32f_32f_fm_detect_32f_u_avx,
   volk_32f_s32f_32f_fm_detect_32f_neonv8}
MCSignal == [q \in 1 .. 40 |-> ((q * q + 3 * (q \div 3)) % 8) - 3]
MCChunks == {0, 1, 3, 4, 5, 8, 9, 17, 19}
MCDeviators ==
  {volk_32f_stddev_and_mean_32f_x2_generic, volk_32f_stddev_and_mean_32f_x2_neon,
   volk_32f_stddev_and_mean_32f_x2_u_sse, volk_32f_stddev_and_mean_32f_x2_a_sse,
   volk_32f_stddev_and_mean_32f_x2_u_avx, volk_32f_stddev_and_mean_32f_x2_a_avx,
   volk_32f_stddev_and_mean_32f_x2_rvv}
(* Ones in the first lane or in the second round and in any other point,   *)
(* and calls of all sizes.                                                 *)
MCInputs(d) ==
  LET m == 2 * d.width + 3
  IN  {[q \in 1 .. m |-> IF q \in {p, r} THEN 1 ELSE 0] : p \in {1, d.width + 2}, r \in 1 .. m}
        \cup {[q \in 1 .. c |-> ((q * q) % 7) - 3] : c \in 0 .. m}

(* One call at a time: of a stream kernel, of the rotator, of a            *)
(* trigonometric function, to encode or decode a frame, or to find a       *)
(* deviation; or the calls that detect a signal.                           *)
KernelInit ==
  /\ SumInit /\ RotInit /\ AngleInit /\ PolarInit /\ VitInit
  /\ DetectInit /\ NoDeviation
KernelNext ==
  \/ /\ RotInit /\ AngleInit /\ PolarInit /\ VitInit /\ DetectInit /\ NoDeviation /\ SumNext
     /\ UNCHANGED <<rotVars, angleVars, polarVars, vitVars, detectVars, deviationVars>>
  \/ /\ pc = "idle" /\ AngleInit /\ PolarInit /\ VitInit /\ DetectInit /\ NoDeviation /\ RotNext
     /\ UNCHANGED <<sumVars, angleVars, polarVars, vitVars, detectVars, deviationVars>>
  \/ /\ pc = "idle" /\ RotInit /\ PolarInit /\ VitInit /\ DetectInit /\ NoDeviation /\ AngleNext
     /\ UNCHANGED <<sumVars, rotVars, polarVars, vitVars, detectVars, deviationVars>>
  \/ /\ pc = "idle" /\ RotInit /\ AngleInit /\ VitInit /\ DetectInit /\ NoDeviation /\ PolarNext
     /\ UNCHANGED <<sumVars, rotVars, angleVars, vitVars, detectVars, deviationVars>>
  \/ /\ pc = "idle" /\ RotInit /\ AngleInit /\ PolarInit /\ DetectInit /\ NoDeviation /\ VitNext
     /\ UNCHANGED <<sumVars, rotVars, angleVars, polarVars, detectVars, deviationVars>>
  \/ /\ pc = "idle" /\ RotInit /\ AngleInit /\ PolarInit /\ VitInit /\ NoDeviation /\ DetectNext
     /\ UNCHANGED <<sumVars, rotVars, angleVars, polarVars, vitVars, deviationVars>>
  \/ /\ pc = "idle" /\ RotInit /\ AngleInit /\ PolarInit /\ VitInit /\ DetectInit /\ DeviationNext
     /\ UNCHANGED <<sumVars, rotVars, angleVars, polarVars, vitVars, detectVars>>
KernelSpec ==
  /\ KernelInit
  /\ [][KernelNext]_<<sumVars, rotVars, angleVars, polarVars, vitVars, detectVars, deviationVars>>
==============================================================================
