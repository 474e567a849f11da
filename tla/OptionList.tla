------------------------------- MODULE OptionList -------------------------------
(***************************************************************************)
(* The command line of volk_profile (apps/volk_option_helpers.cc): parse   *)
(* compares every argument with every option and calls the callbacks of    *)
(* volk_profile.cc, which set the program's options.                       *)
(*                                                                         *)
(* An option that has a value moves on to the argument behind it, and the  *)
(* options further down the list are then compared with that argument.     *)
(***************************************************************************)
EXTENDS Integers, Sequences, SequencesExt

CONSTANTS
  OptionTable, (* d_internal_list: sequence of [long, short, kind], kind    *)
               (* being "bool", "number" (int or float) or "string"         *)
  Help,        (* the two forms of --help                                   *)
  Dashed,      (* the arguments that start with "-"                         *)
  Numbers,     (* what atoi makes of those that start with a number         *)
  Lines        (* the command lines, without the name of the program        *)

(* The options whose callbacks matter here, as main adds them.             *)
Called ==
  {[long |-> "--benchmark", short |-> "-b", kind |-> "bool"],
   [long |-> "--tests-substr", short |-> "-R", kind |-> "string"],
   [long |-> "--update", short |-> "-u", kind |-> "bool"],
   [long |-> "--dry-run", short |-> "-n", kind |-> "bool"],
   [long |-> "--path", short |-> "-p", kind |-> "string"]}

Names(o) == {o.long, o.short}

(* No name is that of two options; arguments are strings.                  *)
ASSUME OptionTableAssumption ==
  /\ OptionTable \in Seq([long : Dashed, short : Dashed, kind : {"bool", "number", "string"}])
  /\ Called \subseteq ToSet(OptionTable)
  /\ \A o \in DOMAIN OptionTable :
       /\ Names(OptionTable[o]) \cap Help = {}
       /\ \A q \in DOMAIN OptionTable \ {o} : Names(OptionTable[o]) \cap Names(OptionTable[q]) = {}
  /\ \A a \in DOMAIN Numbers : Numbers[a] \in Int
  /\ {"0", "1"} \subseteq DOMAIN Numbers \ Dashed /\ Numbers["0"] = 0 /\ Numbers["1"] = 1
  /\ Lines \subseteq Seq(STRING)

VARIABLES
  line,    (* the arguments; argv[arg_number] is line[arg]                  *)
  arg,
  given,   (* the variables the callbacks set, and whether help was shown   *)
  phase    (* "parse", "parsed", "killed" by an exception or atoi(NULL), or *)
           (* "over": the options have been taken from here                 *)

optVars == <<line, arg, given, phase>>

NothingGiven ==
  [bench |-> FALSE, update |-> FALSE, dry |-> FALSE, patterns |-> {}, path |-> "", help |-> FALSE]

(* The callbacks; those of the other options change no state modelled here.*)
Set(g, long, value) ==
  CASE long = "--benchmark"    -> [g EXCEPT !.bench = TRUE]
    [] long = "--update"       -> [g EXCEPT !.update = TRUE]
    [] long = "--dry-run"      -> [g EXCEPT !.dry = TRUE]
    [] long = "--tests-substr" -> [g EXCEPT !.patterns = @ \cup {value}]
    [] long = "--path"         -> [g EXCEPT !.path = value]
    [] OTHER                   -> g

Atoi(a) == IF a \in DOMAIN Numbers THEN Numbers[a] ELSE 0

(* Mutant of TakesNext: another option is taken for the value of a bool.   *)
TakesNextDashed(i) == i < Len(line) /\ line[i + 1] \notin {"true", "false"}

(* Whether the bool option line[i] takes the next argument as its value;   *)
(* what it is set to.  Whatever is no number is 0.                         *)
TakesNext(i) ==
  i < Len(line) /\ line[i + 1] \notin Dashed /\ line[i + 1] \notin {"true", "false"}
IsTrue(i) ==
  IF TakesNext(i) THEN Atoi(line[i + 1]) # 0 ELSE i = Len(line) \/ line[i + 1] # "false"

(* One option compared with the argument at hand; there is no argument     *)
(* behind the last.                                                        *)
Matching(s, o) ==
  IF ~s.alive \/ line[s.arg] \notin Names(o) THEN s
  ELSE IF o.kind = "bool"
       THEN [s EXCEPT !.given = IF IsTrue(s.arg) THEN Set(@, o.long, "") ELSE @,
                      !.arg = IF TakesNext(s.arg) THEN @ + 1 ELSE @]
       ELSE IF s.arg = Len(line) THEN [s EXCEPT !.alive = FALSE]
       ELSE [s EXCEPT !.given = Set(@, o.long, line[s.arg + 1]), !.arg = @ + 1]

OptInit ==
  /\ line \in Lines /\ arg = 1 /\ given = NothingGiven /\ phase = "parse"

(* One round of the loop over the arguments.                               *)
ParseArgument ==
  /\ phase = "parse" /\ arg <= Len(line)
  /\ LET s == FoldLeft(Matching, [arg |-> arg, given |-> given, alive |-> TRUE], OptionTable)
     IN  /\ given' = [s.given EXCEPT !.help = @ \/ (s.alive /\ line[s.arg] \in Help)]
         /\ arg' = s.arg + 1
         /\ phase' = IF s.alive THEN "parse" ELSE "killed"
  /\ UNCHANGED line

ParseEnd ==
  /\ phase = "parse" /\ arg > Len(line)
  /\ phase' = "parsed"
  /\ UNCHANGED <<line, arg, given>>

-----------------------------------------------------------------------------
(* What a command line says: which of its arguments are the values of the  *)
(* options before them, and which options that leaves.                     *)
KindOf(a) ==
  IF \E o \in ToSet(OptionTable) : a \in Names(o)
  THEN (CHOOSE o \in ToSet(OptionTable) : a \in Names(o)).kind ELSE "none"
NumberBehind(i) == i < Len(line) /\ line[i + 1] \notin Dashed \cup {"true", "false"}
HasValue(i) ==
  \/ KindOf(line[i]) \in {"number", "string"}
  \/ (KindOf(line[i]) = "bool" /\ NumberBehind(i))
Said ==
  LET isValue[i \in 1 .. Len(line)] == i > 1 /\ ~isValue[i - 1] /\ HasValue(i - 1)
  IN  {i \in 1 .. Len(line) : ~isValue[i]}

(* The arguments with the name of an option; a bool option can be given a  *)
(* value that turns it off.                                                *)
Given(S) == {i \in Said : line[i] \in S}
TurnedOff(i) == i < Len(line) /\ line[i + 1] \in {"0", "false"}
Behind(S) == {line[i + 1] : i \in Given(S)}

(* The last of several paths.                                              *)
PathSaid ==
  LET S == Given({"-p", "--path"})
  IN  IF S = {} THEN "" ELSE line[Max(S) + 1]

(* The values that the messages of parse rule out: a bool option "should   *)
(* receive one of '0', '1', 'true', 'false'", an int or a float option     *)
(* "can only receive a number".  It depends on atoi to throw, which it     *)
(* does not: they are not reported, and no property speaks of them.        *)
WrongValue(i) ==
  \/ KindOf(line[i]) = "bool" /\ NumberBehind(i) /\ line[i + 1] \notin {"0", "1"}
  \/ KindOf(line[i]) = "number" /\ i < Len(line) /\ line[i + 1] \notin DOMAIN Numbers

(* The lines the program can be given: no option lacks its value or has a  *)
(* wrong one, and no value is the name of an option further down the list. *)
Later(a, b) ==
  \E o, q \in DOMAIN OptionTable :
    a \in Names(OptionTable[o]) /\ b \in Names(OptionTable[q]) /\ o < q
Proper ==
  \A i \in Said :
    /\ ~WrongValue(i)
    /\ HasValue(i) => i < Len(line) /\ ~Later(line[i], line[i + 1]) /\ line[i + 1] \notin Help

(* Whatever the order of options and values, and whatever the strings look *)
(* like: parse calls the callbacks of the options that were given, once    *)
(* with the right values, and does not fail (option_list::parse).          *)
OptionsAsSaid ==
  Proper =>
    /\ phase # "killed"
    /\ phase = "parsed" =>
         /\ given.bench = (\E i \in Given({"-b", "--benchmark"}) : ~TurnedOff(i))
         /\ given.update = (\E i \in Given({"-u", "--update"}) : ~TurnedOff(i))
         /\ given.dry = (\E i \in Given({"-n", "--dry-run"}) : ~TurnedOff(i))
         /\ given.patterns = Behind({"-R", "--tests-substr"})
         /\ given.path = PathSaid
         /\ given.help = (Given(Help) # {})
=============================================================================
