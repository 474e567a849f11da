------------------------------ MODULE TestProgram ------------------------------
(***************************************************************************)
(* volk_test_all (lib/testqa.cc): without an argument it tests every       *)
(* kernel of init_test_list and writes .unittest/kernels.xml; with the     *)
(* name of a kernel, as the build's list of tests calls it, it tests this  *)
(* one and writes nothing.                                                 *)
(*                                                                         *)
(* How a test ends is up to the environment: with the implementations that *)
(* differed from generic (QaTests: the verdict is whether there are any),  *)
(* or with what it throws (Signatures).                                    *)
(***************************************************************************)
EXTENDS Integers, Sequences, FiniteSets, SequencesExt, FiniteSetsExt

CONSTANTS
  TestCases,   (* the names of init_test_list, in its order                 *)
  Differing,   (* sets of implementations that may differ                   *)
  OtherNames   (* names that are given and that no test has                 *)

(* No argument: not the name of a test.                                    *)
Everything == "everything"

ASSUME ProgramAssumption ==
  /\ TestCases \in Seq(STRING) /\ IsInjective(TestCases)
  /\ \A n \in DOMAIN TestCases : TestCases[n] \notin OtherNames \cup {Everything}
  /\ \A d \in Differing : IsFiniteSet(d)

(* How a test ends.                                                        *)
Threw == [how |-> "threw", differing |-> {}]
Returns(differing) == [how |-> "returned", differing |-> differing]

VARIABLES
  argument,     (* argv[1], Everything, or "" before the program starts     *)
  ii,           (* the test case that is next                               *)
  suites,       (* results: [name, differing]                               *)
  qa_failures,
  xml,          (* kernels.xml, once it is written: [failures, suites]      *)
  status,       (* what main returns, "success" or "failure", or "aborted"  *)
                (* or "running"                                             *)
  ends          (* how the tests ended; not in the code                     *)

programVars == <<argument, ii, suites, qa_failures, xml, status, ends>>

NoXml == [failures |-> 0, suites |-> <<>>]

ProgramInit ==
  /\ argument = "" /\ ii = 1 /\ suites = <<>> /\ qa_failures = <<>>
  /\ xml = NoXml /\ status = "running" /\ ends = <<>>

Launch(arg) ==
  /\ argument = ""
  /\ argument' = arg
  /\ UNCHANGED <<ii, suites, qa_failures, xml, status, ends>>

Runs == argument # "" /\ status = "running"

(* run_volk_tests names its entry of the results before it does anything   *)
(* that may throw, and the entry stays.                                    *)
Suite(n, end) == [name |-> TestCases[n], differing |-> end.differing]
Failed(end) == end.differing # {}

(* Mutant of TestOne: the verdict is that of the last test.                *)
TestOneLast(end) ==
  /\ Runs /\ argument = Everything /\ ii <= Len(TestCases)
  /\ suites' = Append(suites, Suite(ii, end))
  /\ qa_failures' = IF Failed(end) THEN <<TestCases[ii]>> ELSE <<>>
  /\ ends' = Append(ends, end)
  /\ ii' = ii + 1
  /\ UNCHANGED <<argument, xml, status>>

(* One round of the loop over all kernels, which catches everything.       *)
TestOne(end) ==
  /\ Runs /\ argument = Everything /\ ii <= Len(TestCases)
  /\ suites' = Append(suites, Suite(ii, end))
  /\ qa_failures' = IF Failed(end) THEN Append(qa_failures, TestCases[ii]) ELSE qa_failures
  /\ ends' = Append(ends, end)
  /\ ii' = ii + 1
  /\ UNCHANGED <<argument, xml, status>>

Finish ==
  /\ Runs /\ argument = Everything /\ ii > Len(TestCases)
  /\ xml' = [failures |-> Len(qa_failures), suites |-> suites]
  /\ status' = IF qa_failures # <<>> THEN "failure" ELSE "success"
  /\ UNCHANGED <<argument, ii, suites, qa_failures, ends>>

(* The search for the name, and the test of its kernel: here nothing       *)
(* catches what it throws.                                                 *)
TestNamed(end) ==
  /\ Runs /\ argument \in Range(TestCases)
  /\ ii' = CHOOSE n \in DOMAIN TestCases : TestCases[n] = argument
  /\ suites' = Append(suites, Suite(ii', end))
  /\ ends' = Append(ends, end)
  /\ status' = IF end = Threw THEN "aborted" 
             ELSE IF Failed(end) THEN "failure" ELSE "success"
  /\ UNCHANGED <<argument, qa_failures, xml>>

NoSuchTest ==
  /\ Runs /\ argument \notin Range(TestCases) \cup {Everything}
  /\ status' = "success"
  /\ UNCHANGED <<argument, ii, suites, qa_failures, xml, ends>>

(* The program is gone, and may be started again.                          *)
Exit ==
  /\ status # "running"
  /\ argument' = "" /\ ii' = 1 /\ suites' = <<>> /\ qa_failures' = <<>>
  /\ xml' = NoXml /\ status' = "running" /\ ends' = <<>>

ProgramNext ==
  \/ \E arg \in Range(TestCases) \cup OtherNames \cup {Everything} : Launch(arg)
  \/ \E end \in {Returns(d) : d \in Differing} \cup {Threw} : TestOne(end) \/ TestNamed(end)
  \/ Finish
  \/ NoSuchTest
  \/ Exit

ProgramSpec == ProgramInit /\ [][ProgramNext]_programVars

-----------------------------------------------------------------------------
(* What the program returns and what kernels.xml says of each kernel and   *)
(* in total is what the tests found, each test once and under its name;    *)
(* a failure of any is never lost to the tests behind it.  A test that     *)
(* throws counts as a pass among all others, with a suite without a case,  *)
(* and ends the program if it is alone (main, print_qa_xml).               *)
VerdictTold ==
  status # "running" =>
    LET failures == {n \in DOMAIN ends : Failed(ends[n])}
    IN  /\ status = "aborted" <=> Threw \in Range(ends) /\ argument # Everything
        /\ status = "failure" <=> failures # {}
        /\ argument = Everything =>
             /\ xml.failures = Cardinality(failures)
             /\ [n \in DOMAIN xml.suites |-> xml.suites[n].name] = TestCases
             /\ {n \in DOMAIN xml.suites : xml.suites[n].differing # {}} = failures
=============================================================================
