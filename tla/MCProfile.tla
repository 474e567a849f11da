------------------------------ MODULE MCProfile ------------------------------
(* Instances of Profile for TLC: a kernel tested by its own name, one that *)
(* is tested through a puppet, and one with a single implementation; and   *)
(* all command lines of up to four of some arguments.  The test of one     *)
(* kernel, whose outcome a run of volk_profile records, is QaTests; the    *)
(* tables that a kernel comes to have are those of RankTables.             *)
EXTENDS ProfileCommand, QaTests, TestList, Comparisons, AlignedMemory,
  TestProgram, RankTables

MCCases == << [name |-> "volk_add",       config |-> "volk_add"],
              [name |-> "volk_revpuppet", config |-> "volk_rev"],
              [name |-> "volk_log",       config |-> "volk_log"] >>

Sse == [name |-> "a_sse", deps |-> {1}, aligned |-> TRUE]
SseU == [name |-> "u_sse", deps |-> {1}, aligned |-> FALSE]
MCImpls ==
  [k \in Configs |-> CASE k = "volk_log" -> <<Generic>>
                       [] k = "volk_rev" -> <<Generic, Sse>>
                       [] OTHER          -> <<Generic, Sse, SseU>>]

AllCases == {MCCases[c].name : c \in DOMAIN MCCases}
MCEnvSet == {"HOME"}
MCWritable == {"HOME", "etc"}

Option(update, dry, only, path) ==
  [bench |-> FALSE, update |-> update, dry |-> dry, only |-> only, path |-> path]
FullRuns == {Option(FALSE, FALSE, AllCases, NoPath), Option(FALSE, FALSE, {"volk_add"}, "etc"),
             Option(FALSE, TRUE, {"volk_revpuppet"}, NoPath)}
UpdateRuns == {[Option(TRUE, FALSE, AllCases, NoPath) EXCEPT !.bench = TRUE], Option(TRUE, FALSE, {"volk_add"}, NoPath)}
AllRuns == FullRuns \cup UpdateRuns

MCBefore == {NoFile, Header \o <<Line("volk_add", "a_sse", "u_sse")>>}

(* The table that is tested lists an aligned implementation before         *)
(* "generic", so that the reordering moves it.                             *)
MCArchs == << [name |-> "a_sse2",      aligned |-> TRUE],
              [name |-> "generic",     aligned |-> FALSE],
              [name |-> "generic_opt", aligned |-> FALSE],
              [name |-> "u_avx",       aligned |-> FALSE] >>
MCGenerics == {"generic", "generic_opt"}
MCTimes == 1 .. 3

(* The options in the order in which main adds them.                       *)
Opt(long, short, kind) == [long |-> long, short |-> short, kind |-> kind]
MCOptionTable ==
  << Opt("--benchmark", "-b", "bool"), Opt("--tol", "-t", "number"),
     Opt("--vlen", "-v", "number"), Opt("--iter", "-i", "number"),
     Opt("--tests-substr", "-R", "string"), Opt("--update", "-u", "bool"),
     Opt("--dry-run", "-n", "bool"), Opt("--json", "-j", "string"),
     Opt("--path", "-p", "string"), Opt("--warmup", "-w", "number") >>
MCHelp == {"--help", "-h"}
MCDashed == MCHelp \cup UNION {{MCOptionTable[o].long, MCOptionTable[o].short} : o \in DOMAIN MCOptionTable}
MCNumbers == [a \in {"0", "1"} |-> IF a = "0" THEN 0 ELSE 1]
MCNamesWith == [p \in {"add", "rev"} |-> {n \in AllCases : n = IF p = "add" THEN "volk_add" ELSE "volk_revpuppet"}]

MCArguments == {"-R", "-u", "-v", "-b", "--path", "-h", "0", "false", "add"}
AllLines == BoundedSeq(MCArguments, 4)
OneLine == {<<"-u">>}
EmptyLine == {<<>>}

(* Memory of which sizes near the end of size_t may be asked for.          *)
MCLibraries == {"posix_memalign", "_aligned_malloc", "aligned_alloc"}
MCMachines == {0, 1, 2, 4}
MCElements == {1, 3}
MCCounts == {0, 1, 3, 6, 13}

(* Floats some of whose squares have no place.                             *)
MCFinite == {0, 1, -1, 2, -2, 3, 4, -4, 10}
MCTolerances == {<<0, 1>>, <<1, 2>>, <<1, 1>>, <<3, 1>>}

MCTestCases == <<"volk_add", "volk_revpuppet", "volk_log">>
MCDiffering == {{}, {"a_sse"}, {"a_sse", "u_sse"}}
MCOtherNames == {"volk_rev"}

(* Names of implementations, of which two agree in 20 characters.          *)
Tree == "bintree_permute_top_down"
TreeTwin == "bintree_permute_top_to_bottom"
MCKnownArchs == {1, 2}
MCRequires == {{1}, {2}, {1, 2}}
MCAlignedNames == {"a_p", "a_q"}
MCSpellings == {"generic", "u_p", Tree, TreeTwin} \cup MCAlignedNames
MCFirst20 == [name \in STRING |-> IF Len(name) <= 20 THEN name ELSE SubSeq(name, 1, 20)]

(* Either the runs of volk_profile, or, in one of its initial states, a    *)
(* part that they see no more of than its outcome: the loops of a test,    *)
(* the call of a function by its name, the comparison of an output, the    *)
(* memory, the tests as volk_test_all runs them, and the growing tables.   *)
(* The files there are first are where they are looked for; the longest    *)
(* command lines are for places without any.                               *)
Aside == phase = "parse" /\ line = <<>> /\ \A p \in Places : files[p] = NoFile
OtherParts ==
  <<testsVars, signatureVars, comparisonVars, memoryVars, programVars, tableVars>>
MemoryIdle == MemoryInit /\ library = "aligned_alloc"

ProfileInit ==
  /\ CommandInit /\ TestsInit /\ SignatureInit /\ CompareInit /\ MemoryInit /\ ProgramInit
  /\ TableInit
  /\ Aside \/ MemoryIdle
  /\ \A p \in Existing : p \in EnvSet \cup {"etc"} /\ Len(line) <= 3

ProfileNext ==
  \/ /\ TestsInit /\ SignatureInit /\ CompareInit /\ MemoryIdle /\ ProgramInit /\ TableInit
     /\ UNCHANGED OtherParts /\ CommandNext
  \/ /\ Aside /\ UNCHANGED <<vars, optVars>>
     /\ \/ /\ SignatureInit /\ CompareInit /\ MemoryIdle /\ ProgramInit /\ TableInit /\ TestsNext
           /\ UNCHANGED <<signatureVars, comparisonVars, memoryVars, programVars, tableVars>>
        \/ /\ TestsInit /\ CompareInit /\ MemoryIdle /\ ProgramInit /\ TableInit /\ SignatureNext
           /\ UNCHANGED <<testsVars, comparisonVars, memoryVars, programVars, tableVars>>
        \/ /\ TestsInit /\ SignatureInit /\ MemoryIdle /\ ProgramInit /\ TableInit /\ CompareNext
           /\ UNCHANGED <<testsVars, signatureVars, memoryVars, programVars, tableVars>>
        \/ /\ TestsInit /\ SignatureInit /\ CompareInit /\ ProgramInit /\ TableInit /\ MemoryNext
           /\ UNCHANGED <<testsVars, signatureVars, comparisonVars, programVars, tableVars>>
        \/ /\ TestsInit /\ SignatureInit /\ CompareInit /\ MemoryIdle /\ TableInit /\ ProgramNext
           /\ UNCHANGED <<testsVars, signatureVars, comparisonVars, memoryVars, tableVars>>
        \/ /\ TestsInit /\ SignatureInit /\ CompareInit /\ MemoryIdle /\ ProgramInit /\ TableNext
           /\ UNCHANGED <<testsVars, signatureVars, comparisonVars, memoryVars, programVars>>
ProfileSpec == ProfileInit /\ [][ProfileNext]_<<vars, optVars, OtherParts>>
=============================================================================
