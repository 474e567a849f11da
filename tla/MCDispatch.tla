------------------------------ MODULE MCDispatch ------------------------------
(***************************************************************************)
(* A small instance of Dispatch: an AVX processor, four machines of which  *)
(* three can run, one kernel with implementations for all of them.         *)
(***************************************************************************)
EXTENDS Dispatch

MCKernels == {"volk_k"}

Generic == 0
Sse == 1
Avx == 2
Avx512 == 3

(* No name is longer than 20 characters.                                   *)
MCFirst20 == [name \in STRING |-> name]

Proto(name, deps, aligned) == [name |-> name, deps |-> deps, aligned |-> aligned]

MCImpls ==
  [k \in MCKernels |->
     << Proto("a_sse", {Sse}, TRUE), Proto("generic", {Generic}, FALSE),
        Proto("u_avx", {Avx}, FALSE), Proto("a_avx", {Avx}, TRUE),
        Proto("a_avx512", {Avx512}, TRUE), Proto("u_avx512", {Avx512}, FALSE) >>]

MCCaps == << {Generic}, {Generic, Sse}, {Generic, Sse, Avx, Avx512}, {Generic, Sse, Avx} >>
MCAlignment == << 1, 16, 64, 32 >>
MCCpu == {Generic, Sse, Avx}

(* 80 is on the boundary of the sse machine but not on that of avx.        *)
MCBuffers == {{64}, {64, 80}}
OneBuffer == {{64, 80}}
MCNames == {"a_avx512", "u_avx"}
OneName == {"a_avx512"}

AllKinds == {"kern", "kern_a", "kern_u", "manual", "func_desc", "get_alignment",
             "is_aligned", "get_machine"}
KernelKinds == {"kern"}

MCEnv == [generic |-> FALSE, override |-> [k \in MCKernels |-> Unset]]

Pref(a, u) == [name |-> "volk_k", impl_a |-> a, impl_u |-> u]
Other == [name |-> "volk_other", impl_a |-> "a_sse", impl_u |-> "generic"]

(* No file, a file as volk_profile leaves it, one from another machine.    *)
MCConfigs == << <<>>, << Other, Pref("a_sse", "generic") >>, << Pref("a_neon", "neon") >> >>
TwoConfigs == << <<>>, << Other, Pref("a_sse", "generic") >> >>
NoConfig == << <<>> >>
=============================================================================
