----------------------------- MODULE ProfileCommand -----------------------------
(***************************************************************************)
(* volk_profile from its command line on: main parses the arguments, and   *)
(* what the callbacks have set are the options of the run.  The command    *)
(* lines of the runs that follow the first are given by their options.     *)
(***************************************************************************)
EXTENDS Profile, OptionList

CONSTANT NamesWith   (* [pattern -> the names of tests it is a part of]     *)

(* The names of tests that contain one of the patterns, or all of them.    *)
Selected ==
  IF given.patterns = {} THEN {Cases[c].name : c \in DOMAIN Cases}
  ELSE UNION {NamesWith[p] : p \in given.patterns \cap DOMAIN NamesWith}

PathGiven ==
  CASE given.path = ""         -> NoPath
    [] given.path \in Places   -> given.path
    [] OTHER                   -> Elsewhere

GivenOptions ==
  [bench |-> given.bench, update |-> given.update, dry |-> given.dry, only |-> Selected,
   path |-> PathGiven]

CommandInit == Init /\ OptInit

Parse == (ParseArgument \/ ParseEnd) /\ UNCHANGED vars

LineDone ==
  phase' = "over" /\ line' = <<>> /\ arg' = 1 /\ given' = NothingGiven

(* The run starts with the options given, or does not start at all.        *)
Run == phase = "parsed" /\ ~given.help /\ Start(GivenOptions) /\ LineDone
NoRun ==
  (phase = "killed" \/ (phase = "parsed" /\ given.help)) /\ LineDone /\ UNCHANGED vars

Proceed == phase = "over" /\ Next /\ UNCHANGED optVars

CommandNext == Parse \/ Run \/ NoRun \/ Proceed

CommandSpec == CommandInit /\ [][CommandNext]_<<vars, optVars>>
=============================================================================
