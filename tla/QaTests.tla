-------------------------------- MODULE QaTests --------------------------------
(***************************************************************************)
(* run_volk_tests of lib/qa_utils.cc for one kernel: it times every        *)
(* implementation on the same input, compares each output buffer with that *)
(* of "generic", and names the fastest implementation for aligned and for  *)
(* unaligned buffers.  volk_profile writes these two names to the config   *)
(* file; the unit test (testqa) uses the verdict.                          *)
(*                                                                         *)
(* What a comparison finds and how long an implementation takes is up to   *)
(* the environment.  The warm-up, the printed table and the buffers'       *)
(* contents are left out.                                                  *)
(***************************************************************************)
EXTENDS RankArchs

CONSTANTS
  Archs,      (* desc: sequence of [name, aligned] in the order of the table *)
  Generics,   (* the names that start with "generic"                        *)
  Outputs,    (* the number of output vectors in the kernel's signature     *)
  Times,      (* the run times that can be measured                         *)
  Benchmark   (* benchmark_mode                                             *)

ArchNames == {Archs[n].name : n \in DOMAIN Archs}

ASSUME ArchsAssumption ==
  /\ Archs \in Seq([name : STRING, aligned : BOOLEAN])
  /\ \A n, m \in DOMAIN Archs : Archs[n].name = Archs[m].name => n = m
  /\ \E n \in DOMAIN Archs : Archs[n].name = "generic" /\ ~Archs[n].aligned
  /\ "generic" \in Generics
ASSUME TestsAssumption == Outputs \in Nat \ {0} /\ Times \subseteq Nat /\ Benchmark \in BOOLEAN

VARIABLES
  testsPc,      (* "run", "compare", "select", "done" or "none"             *)
  archIndex,    (* position in arch_list of the loop under way, from 1      *)
  output,       (* output vector to be compared next, from 1                *)
  fail,         (* the local flag of the comparison loop                    *)
  times,        (* profile_times                                            *)
  archResults,  (* arch_results                                             *)
  pass,         (* results->back().results[name].pass                       *)
  failGlobal,   (* the value returned                                       *)
  best,         (* best_arch_a and best_arch_u                              *)
  differed      (* which comparisons failed; not in the code                *)

testsVars ==
  <<testsPc, archIndex, output, fail, times, archResults, pass, failGlobal, best, differed>>

(* arch_list: "generic", the other generic_* names, then the rest.         *)
ArchList ==
  LET names == [n \in DOMAIN Archs |-> Archs[n].name]
      NamesIn(S) == Picked(names, {n \in DOMAIN names : names[n] \in S})
  IN  NamesIn({"generic"}) \o NamesIn(Generics \ {"generic"}) \o NamesIn(ArchNames \ Generics)

GenericOffset == CHOOSE n \in DOMAIN ArchList : ArchList[n] = "generic"

(* Mutant of RequiresAlignment: the position in the reordered list is used *)
(* for the table of the descriptor.                                        *)
RequiresAlignmentByPosition(n) == Archs[n].aligned

(* arch_to_orig_idx and desc.impl_alignment.                               *)
RequiresAlignment(n) == \E m \in DOMAIN Archs : Archs[m].name = ArchList[n] /\ Archs[m].aligned

TestsInit ==
  /\ testsPc = IF ~Benchmark /\ Len(Archs) < 2 THEN "none" ELSE "run"
  /\ archIndex = 1 /\ output = 1
  /\ fail = FALSE
  /\ times = <<>>
  /\ archResults = <<>>
  /\ pass = [n \in {} |-> TRUE]
  /\ failGlobal = FALSE
  /\ best = [a |-> "", u |-> ""]
  /\ differed = {}

(* One implementation is run and timed.                                    *)
RunArch(time) ==
  /\ testsPc = "run"
  /\ times' = Append(times, time)
  /\ pass' = [n \in DOMAIN pass \cup {ArchList[archIndex]} |->
                IF n = ArchList[archIndex] THEN TRUE ELSE pass[n]]
  /\ IF archIndex = Len(ArchList) THEN testsPc' = "compare" /\ archIndex' = 1
     ELSE archIndex' = archIndex + 1 /\ UNCHANGED testsPc
  /\ UNCHANGED <<output, fail, archResults, failGlobal, best, differed>>

MoreOutputs == output <= Outputs

(* Mutant of CompareOutput: the record keeps the last comparison only.     *)
CompareOutputLast(differs) ==
  /\ testsPc = "compare" /\ archIndex # GenericOffset /\ MoreOutputs
  /\ fail' = differs
  /\ pass' = [pass EXCEPT ![ArchList[archIndex]] = ~differs]
  /\ failGlobal' = (failGlobal \/ differs)
  /\ differed' = IF differs THEN differed \cup {<<archIndex, output>>} ELSE differed
  /\ output' = output + 1
  /\ UNCHANGED <<testsPc, archIndex, times, archResults, best>>

(* One output vector is compared; fail is assigned, not accumulated.       *)
CompareOutput(differs) ==
  /\ testsPc = "compare" /\ archIndex # GenericOffset /\ MoreOutputs
  /\ fail' = differs
  /\ IF differs
     THEN /\ pass' = [pass EXCEPT ![ArchList[archIndex]] = FALSE]
          /\ failGlobal' = TRUE
          /\ differed' = differed \cup {<<archIndex, output>>}
     ELSE UNCHANGED <<pass, failGlobal, differed>>
  /\ output' = output + 1
  /\ UNCHANGED <<testsPc, archIndex, times, archResults, best>>

(* The end of the comparison of one implementation ("generic" is not       *)
(* compared), and the reset of fail for the next.                          *)
FinishArch ==
  /\ testsPc = "compare" /\ (archIndex = GenericOffset \/ ~MoreOutputs)
  /\ archResults' = Append(archResults, ~fail)
  /\ fail' = FALSE /\ output' = 1
  /\ IF archIndex = Len(ArchList) THEN testsPc' = "select" /\ UNCHANGED archIndex
     ELSE archIndex' = archIndex + 1 /\ UNCHANGED testsPc
  /\ UNCHANGED <<times, pass, failGlobal, best, differed>>

(* The scan keeps the first of the fastest, starting from "generic".       *)
Fastest(C) ==
  IF C = {} THEN "generic"
  ELSE ArchList[CHOOSE n \in C :
         \A m \in C : times[n] < times[m] \/ (times[n] = times[m] /\ n <= m)]

Passing == {n \in DOMAIN ArchList : archResults[n]}

(* Mutant of Select: the choice for aligned buffers looks only at the      *)
(* implementations that require alignment.                                 *)
SelectAlignedOnly ==
  /\ testsPc = "select"
  /\ best' = [a |-> Fastest({n \in Passing : RequiresAlignment(n)}),
              u |-> Fastest({n \in Passing : ~RequiresAlignment(n)})]
  /\ testsPc' = "done"
  /\ UNCHANGED <<archIndex, output, fail, times, archResults, pass, failGlobal, differed>>

(* The selection.  The implementations for unaligned buffers are           *)
(* candidates for aligned buffers as well, so that the correction          *)
(* "if (best_time_u < best_time_a)" after the loop never applies.          *)
Select ==
  /\ testsPc = "select"
  /\ best' = [a |-> Fastest(Passing),
              u |-> Fastest({n \in Passing : ~RequiresAlignment(n)})]
  /\ testsPc' = "done"
  /\ UNCHANGED <<archIndex, output, fail, times, archResults, pass, failGlobal, differed>>

(* The function has returned: with its choice, or at once with FALSE.      *)
Returned == testsPc \in {"done", "none"} /\ UNCHANGED testsVars

TestsNext ==
  \/ \E time \in Times : RunArch(time)
  \/ \E differs \in BOOLEAN : CompareOutput(differs)
  \/ FinishArch
  \/ Select
  \/ Returned

TestsSpec == TestsInit /\ [][TestsNext]_testsVars

-----------------------------------------------------------------------------
(* The loops of a test stay within its implementations and outputs.       *)
TestsTypeOK ==
  /\ testsPc \in {"run", "compare", "select", "done", "none"}
  /\ archIndex \in 1 .. Len(ArchList) /\ output \in 1 .. Outputs + 1
  /\ fail \in BOOLEAN /\ failGlobal \in BOOLEAN
  /\ times \in Seq(Times) /\ archResults \in Seq(BOOLEAN)
  /\ DOMAIN pass \subseteq ArchNames
  /\ differed \subseteq (1 .. Len(ArchList)) \X (1 .. Outputs)

(* An implementation one of whose outputs differed from generic's is never *)
(* named the best (run_volk_tests, arch_results).                          *)
ChosenPassed ==
  testsPc = "done" => \A n \in DOMAIN ArchList :
    ArchList[n] \in {best.a, best.u} => \A k \in 1 .. Outputs : <<n, k>> \notin differed

(* What arch_results does make sure of: in the output compared last, the   *)
(* only one of most kernels, no choice differed from generic; and the one  *)
(* for unaligned buffers has no alignment requirement, although the list   *)
(* was reordered and the table of requirements was not (run_volk_tests,    *)
(* arch_to_orig_idx).                                                      *)
ChoiceAdmissible ==
  testsPc = "done" =>
    /\ \A n \in DOMAIN ArchList :
         ArchList[n] \in {best.a, best.u} => <<n, Outputs>> \notin differed
    /\ \E n \in DOMAIN Archs : Archs[n].name = best.u /\ ~Archs[n].aligned

(* The verdict returned to testqa, the records it prints as XML and the    *)
(* comparisons made tell the same (run_volk_tests, fail_global, pass).     *)
VerdictComplete ==
  testsPc = "done" =>
    /\ failGlobal <=> \E name \in ArchNames : ~pass[name]
    /\ \A n \in DOMAIN ArchList :
         pass[ArchList[n]] <=> \A k \in 1 .. Outputs : <<n, k>> \notin differed

(* No implementation that agrees with generic on every output is faster    *)
(* than the one chosen; for unaligned buffers, none without alignment      *)
(* requirement (run_volk_tests, best_time_a and best_time_u).              *)
NothingFaster ==
  testsPc = "done" => \A n, b \in DOMAIN ArchList :
    (\A k \in 1 .. Outputs : <<n, k>> \notin differed) =>
      /\ ArchList[b] = best.a => times[b] <= times[n]
      /\ ArchList[b] = best.u /\ ~RequiresAlignment(n) => times[b] <= times[n]
=============================================================================
