-------------------------------- MODULE Profile --------------------------------
(***************************************************************************)
(* volk_profile (apps/volk_profile.cc) and the config file it leaves for   *)
(* the dispatcher (lib/volk_prefs.c, lib/volk_rank_archs.c).               *)
(*                                                                         *)
(* A run reads the old config file if it only updates, tests the kernels   *)
(* of lib/kernel_tests.h one by one, and then replaces the file.  It may   *)
(* be killed at any point, and programs that use the library read the      *)
(* file at any time.  Timings, the JSON output and the printed summary are *)
(* left out; which implementation wins a test is up to the environment     *)
(* (module QaTests).                                                       *)
(***************************************************************************)
EXTENDS RankArchs, SequencesExt

CONSTANTS
  Cases,      (* init_test_list: sequence of [name, config] records, config  *)
              (* being the kernel a puppet stands for, or the name itself    *)
  Impls,      (* [config names -> the kernel's implementations], see         *)
              (* RankArchs; all of them are in the table of the machine      *)
  EnvSet,     (* which of the variables naming a directory are set           *)
  Writable,   (* the places where a file can be written                      *)
  Options,    (* the command lines: [bench (-b), update (-u), dry (-n), only *)
              (* (the names -R selects), path (the place -p names, or NoPath)]*)
  Before      (* what the config file may hold at first                      *)

Elsewhere == "elsewhere"    (* a directory that does not exist             *)
Places == {"VOLK_CONFIGPATH", "HOME", "APPDATA", "etc", Elsewhere}
NoPath == "none"
NoFile == <<"no file">>
Configs == {Cases[c].config : c \in DOMAIN Cases}

(***************************************************************************)
(* A config file is a sequence of lines, and a line the sequence of its    *)
(* tokens.  The two comment lines at the top have more than three.         *)
(***************************************************************************)
Line(name, first, second) == <<name, first, second>>
Header == << <<"#this", "file", "is", "generated", "by", "volk_profile.">>,
             <<"#the", "function", "name", "is", "followed", "by", "the", "preferred",
               "architecture.">> >>

NamesOf(k, S) == {Impls[k][i].name : i \in S}
Table(k) == DOMAIN Impls[k]

(* No kernel is tested twice, nor a puppet of the name of another kernel.  *)
ASSUME CasesAssumption ==
  /\ Cases \in Seq([name : STRING, config : STRING \ {"", "#this", "#the"}])
  /\ \A c, d \in DOMAIN Cases :
       {Cases[c].name, Cases[c].config} \cap {Cases[d].name, Cases[d].config} # {} => c = d
(* No two names of one kernel agree in 20 characters.                      *)
ASSUME ImplsAssumption ==
  \A k \in Configs :
    /\ Impls[k] \in Seq([name : STRING, deps : SUBSET Nat, aligned : BOOLEAN])
    /\ \A i, j \in DOMAIN Impls[k] : First20[Impls[k][i].name] = First20[Impls[k][j].name] => i = j
    /\ \A i \in DOMAIN Impls[k] : Mask(Impls[k][i].deps) \in 0 .. MaxInt
    /\ \E i \in DOMAIN Impls[k] : Impls[k][i].name = "generic" /\ ~Impls[k][i].aligned

(* A file that a run for these kernels may have left.                      *)
Entry(k) == {Line(k, a, u) : a, u \in NamesOf(k, Table(k))}
FileLine == {Header[1], Header[2], <<>>} \cup UNION {Entry(k) : k \in Configs}
IsResultFile(lines) ==
  /\ lines \in Seq(FileLine)
  /\ \A n, m \in DOMAIN lines :
       Len(lines[n]) = 3 /\ Len(lines[m]) = 3 /\ lines[n][1] = lines[m][1] => n = m
ASSUME BeforeAssumption == \A f \in Before : f = NoFile \/ IsResultFile(f)
ASSUME PlacesAssumption ==
  /\ EnvSet \subseteq Places \ {"etc", Elsewhere} /\ Writable \subseteq Places \ {Elsewhere}
  /\ \A o \in Options : o.path \in Places \cup {NoPath} /\ {o.bench, o.update, o.dry} \subseteq BOOLEAN

VARIABLES
  files,    (* the config file at each place, or NoFile                     *)
  pc,       (* where the program is: "off", "test" or "write"       *)
  opts,     (* its options                                                  *)
  next,     (* the test case it comes to next                               *)
  results,  (* its results: sequence of [name, config, a, u]                *)
  out,      (* what it has still to write, one flush at a time              *)
  target,   (* where it writes them                                         *)
  old,      (* what the file held before an update; not in the code         *)
  ended,    (* its last run came to its end; not in the code                *)
  updated   (* where a run with -u wrote the file; not in the code         *)

vars == <<files, pc, opts, next, results, out, target, old, ended, updated>>

(***************************************************************************)
(* volk_get_config_path: the first variable that is set names the place to *)
(* write to; a reader goes on to the next if there is no file.             *)
(***************************************************************************)
Order == <<"VOLK_CONFIGPATH", "HOME", "APPDATA", "etc">>
FirstPlace(P) == IF P = {} THEN NoPath ELSE Order[First({n \in DOMAIN Order : Order[n] \in P})]
Existing == {p \in Places : files[p] # NoFile}

ReadPath == FirstPlace(Existing \cap (EnvSet \cup {"etc"}))
WritePath == FirstPlace(EnvSet \cup (Existing \cap {"etc"}))

(* volk_load_preferences: lines of three tokens or more whose first starts *)
(* with volk_ (here: is the name of a kernel), numbered as in the file:    *)
(* what is made of the list depends on their order only.                   *)
LoadPreferences(lines) ==
  [n \in {i \in DOMAIN lines : Len(lines[i]) >= 3 /\ lines[i][1] \in Configs} |->
     [name |-> lines[n][1], impl_a |-> lines[n][2], impl_u |-> lines[n][3]]]

(* The preferences a program finds when it starts now.                     *)
Prefs == IF ReadPath = NoPath THEN <<>> ELSE LoadPreferences(files[ReadPath])

(* Mutant of ReadResults: config_name is not filled in.                    *)
ReadResultsUnnamed(lines) ==
  LET kept == Picked(lines, {i \in DOMAIN lines : Len(lines[i]) = 3})
  IN  [n \in DOMAIN kept |->
         [name |-> kept[n][1], config |-> "", u |-> kept[n][2], a |-> kept[n][3]]]

(* read_results: the lines of exactly three tokens, taken as name,         *)
(* unaligned, aligned.                                                     *)
ReadResults(lines) ==
  LET kept == Picked(lines, {i \in DOMAIN lines : Len(lines[i]) = 3})
  IN  [n \in DOMAIN kept |->
         [name |-> kept[n][1], config |-> kept[n][1], u |-> kept[n][2], a |-> kept[n][3]]]

-----------------------------------------------------------------------------
NoOptions == [bench |-> FALSE, update |-> FALSE, dry |-> FALSE, only |-> {}, path |-> NoPath]

Init ==
  /\ \E f \in Before, p \in Places \ {Elsewhere} : files = [q \in Places |-> IF q = p THEN f ELSE NoFile]
  /\ pc = "off"
  /\ opts = NoOptions
  /\ next = 1 /\ results = <<>> /\ out = <<>> /\ target = NoPath
  /\ old = <<>> /\ ended = FALSE /\ updated = {}

(* The program starts and parses its options; in update mode it reads the  *)
(* results of earlier runs.                                                *)
Start(o) ==
  /\ pc = "off"
  /\ opts' = o
  /\ LET from == IF o.path = NoPath THEN ReadPath ELSE o.path
     IN  results' = IF ~o.update \/ from = NoPath \/ files[from] = NoFile
                    THEN <<>> ELSE ReadResults(files[from])
  /\ old' = IF o.update THEN Prefs ELSE <<>>
  /\ pc' = "test" /\ next' = 1 /\ ended' = FALSE
  /\ UNCHANGED <<files, out, target, updated>>

(* Mutant of Wanted: the kernel a puppet stands for is forgotten.          *)
WantedByName(c) ==
  /\ Cases[c].name \in opts.only
  /\ opts.update => \A n \in DOMAIN results : results[n].name # Cases[c].name

Wanted(c) ==
  /\ Cases[c].name \in opts.only
  /\ opts.update => \A n \in DOMAIN results :
                      results[n].name \notin {Cases[c].name, Cases[c].config}

(* Mutant of ConfigName: the puppet's own name.                            *)
ConfigNamePuppet(c) == c.name

(* results->back().config_name: the puppet's master if there is one.       *)
ConfigName(c) == c.config

(* Only a benchmark measures a kernel that has a single implementation.    *)
Measured(k) == opts.bench \/ Cardinality(Table(k)) >= 2

(* run_volk_tests on the next case: a new entry of the results; it may     *)
(* return before it has filled the entry in.                               *)
TestCase(a, u) ==
  /\ pc = "test" /\ next <= Len(Cases) /\ Wanted(next)
  /\ LET c == Cases[next]
     IN  IF ~Measured(c.config)
         THEN /\ a = "" /\ u = ""
              /\ results' = Append(results, [name |-> c.name, config |-> "", a |-> "", u |-> ""])
         ELSE /\ a \in NamesOf(c.config, Table(c.config))
              /\ u \in NamesOf(c.config, OfAlignment(Impls[c.config], Table(c.config), FALSE))
              /\ results' = Append(results, [name |-> c.name, config |-> ConfigName(c), a |-> a, u |-> u])
  /\ next' = next + 1
  /\ UNCHANGED <<files, pc, opts, out, target, old, ended, updated>>

SkipCase ==
  /\ pc = "test" /\ next <= Len(Cases) /\ ~Wanted(next)
  /\ next' = next + 1
  /\ UNCHANGED <<files, pc, opts, results, out, target, old, ended, updated>>

(* Mutant of LineOf: the columns in the order of read_results.             *)
LineOfSwapped(r) == IF r.config = "" THEN <<>> ELSE Line(r.config, r.u, r.a)

(* The line write_results prints for an entry: empty fields leave no token.*)
LineOf(r) == IF r.config = "" THEN <<>> ELSE Line(r.config, r.a, r.u)

(* What is flushed at a time: std::endl ends every line but the comments.  *)
Flushes ==
  LET lines == [n \in DOMAIN results |-> <<LineOf(results[n])>>]
  IN  IF lines = <<>> THEN <<Header>>
      ELSE <<Header \o lines[1]>> \o Tail(lines)

TestsOver == pc = "test" /\ next > Len(Cases)
Destination == IF opts.path # NoPath THEN opts.path ELSE WritePath

(* The end of a run that writes nothing: -n, or no path to write to.       *)
EndWithoutFile ==
  /\ TestsOver /\ (opts.dry \/ Destination = NoPath)
  /\ pc' = "off" /\ ended' = TRUE
  /\ UNCHANGED <<files, opts, next, results, out, target, old, updated>>

(* Mutant of OpenConfig: the file is opened for appending, as write_results*)
(* does with update_result, which no caller sets.                          *)
OpenConfigAppend ==
  /\ TestsOver /\ ~opts.dry /\ Destination # NoPath
  /\ pc' = "write" /\ target' = Destination /\ out' = Flushes
  /\ files' = IF Destination \in Writable
              THEN [files EXCEPT ![Destination] = IF @ = NoFile THEN <<>> ELSE @] ELSE files
  /\ updated' = IF opts.update THEN updated \cup {Destination} ELSE updated \ {Destination}
  /\ UNCHANGED <<opts, next, results, old, ended>>

(* write_results opens the file, which empties it; if it cannot be opened, *)
(* the program prints an error and writes nowhere.                         *)
OpenConfig ==
  /\ TestsOver /\ ~opts.dry /\ Destination # NoPath
  /\ pc' = "write" /\ target' = Destination /\ out' = Flushes
  /\ files' = IF Destination \in Writable
              THEN [files EXCEPT ![Destination] = <<>>] ELSE files
  /\ updated' = IF opts.update THEN updated \cup {Destination} ELSE updated \ {Destination}
  /\ UNCHANGED <<opts, next, results, old, ended>>

WriteLine ==
  /\ pc = "write" /\ out # <<>>
  /\ files' = IF target \in Writable
              THEN [files EXCEPT ![target] = @ \o Head(out)] ELSE files
  /\ out' = Tail(out)
  /\ UNCHANGED <<pc, opts, next, results, target, old, ended, updated>>

Close ==
  /\ pc = "write" /\ out = <<>>
  /\ pc' = "off" /\ ended' = TRUE /\ next' = 1 /\ target' = NoPath
  /\ UNCHANGED <<files, opts, results, out, old, updated>>

(* The program is killed.                                                  *)
Crash ==
  /\ pc # "off"
  /\ pc' = "off" /\ opts' = NoOptions
  /\ next' = 1 /\ results' = <<>> /\ out' = <<>> /\ target' = NoPath /\ old' = <<>>
  /\ UNCHANGED <<files, ended, updated>>

Test == \E a, u \in {""} \cup UNION {NamesOf(k, Table(k)) : k \in Configs} : TestCase(a, u)

Next ==
  \/ \E o \in Options : Start(o)
  \/ Test \/ SkipCase \/ EndWithoutFile \/ OpenConfig \/ WriteLine \/ Close
  \/ Crash

Spec == Init /\ [][Next]_vars

-----------------------------------------------------------------------------
TypeOK ==
  /\ \A p \in Places : files[p] = NoFile \/ files[p] \in Seq(FileLine)
  /\ pc \in {"off", "test", "write"}
  /\ opts.update \in BOOLEAN
  /\ next \in 1 .. Len(Cases) + 1
  /\ \A n \in DOMAIN results : results[n].config \in Configs \cup {""}
  /\ target \in Places \cup {NoPath}

NoEnv == [generic |-> FALSE, override |-> [k \in Configs |-> Unset]]

(* The implementation the dispatcher of a program that starts now would    *)
(* choose, and the entries of a preference list for a kernel.              *)
Ranked(k, align) == Impls[k][RankArchs(NoEnv, Prefs, k, Impls[k], Table(k), align)]
Entries(prefs, k) == {n \in DOMAIN prefs : prefs[n].name = k}

(* What a reader of the config file relies on whenever a program starts:   *)
(* the implementation it takes for unaligned buffers does not require      *)
(* alignment (read_results, write_results, volk_load_preferences).         *)
SafeForUnaligned == \A k \in Configs : ~Ranked(k, FALSE).aligned

(* It can rely on it, also while volk_profile writes or after it was       *)
(* killed, unless a run with -u wrote the file it reads.                   *)
SafeUnlessUpdated == ReadPath \notin updated => SafeForUnaligned

Wrote == ended /\ ~opts.dry /\ opts.path = NoPath /\ WritePath \in Writable

(* A run that came to its end without -p has told the dispatcher what it   *)
(* found: the next program that starts takes its two choices, wherever the *)
(* file was read from before (volk_get_config_path, write_results,         *)
(* volk_load_preferences, volk_rank_archs).                                *)
RoundTrip ==
  Wrote => \A n \in DOMAIN results : results[n].config # "" =>
    /\ Ranked(results[n].config, TRUE).name = results[n].a
    /\ Ranked(results[n].config, FALSE).name = results[n].u

(* A run with -u that came to its end keeps every kernel the file had,     *)
(* and one over all tests adds every kernel it measures, whatever runs     *)
(* were killed before (read_results, write_results).                       *)
UpdateCompletes ==
  Wrote /\ opts.update => \A k \in Configs :
    \/ Entries(old, k) # {}
    \/ /\ \A c \in DOMAIN Cases : Cases[c].name \in opts.only
       /\ Measured(k)
    => Entries(Prefs, k) # {}

(* No file has two entries for a kernel, of which the second would be      *)
(* ignored, although puppets are tested under other names (main).          *)
OneEntryPerKernel == \A k \in Configs : Cardinality(Entries(Prefs, k)) <= 1
=============================================================================
