------------------------------ MODULE RankArchs ------------------------------
(***************************************************************************)
(* How VOLK picks one implementation ("proto-kernel") of a kernel out of   *)
(* the table the generator emitted for a machine.                          *)
(*                                                                         *)
(* A kernel is described by the sequence of ALL its implementations in     *)
(* source order, each a record                                             *)
(*    name     the suffix of the C function ("generic", "a_sse2", ...)     *)
(*    deps     the architectures its #ifdef asks for (a set of LV_ bits)   *)
(*    aligned  whether it requires aligned buffers (name starts with a_)   *)
(* and a machine's table is the set of positions of that sequence which    *)
(* the machine compiles.  The C code numbers the table 0 .. n_impls-1 in   *)
(* source order; here an implementation is named by its position in the    *)
(* whole sequence (from 1), and 0 stands for the -1 the C code returns for *)
(* an empty table.                                                         *)
(***************************************************************************)
EXTENDS Integers, Sequences, FiniteSets, FiniteSetsExt

CONSTANT First20      (* the first 20 characters of a name                  *)

(* The C code keeps a mask in an int, so that no mask exceeds this.        *)
MaxInt == 2147483647

(* The integer "(1 << LV_a) | (1 << LV_b) | ..." of a set of architectures. *)
Mask(archs) == MapThenSumSet(LAMBDA a : 2^a, archs)

(* The positions of the implementations a machine with these archs has.    *)
GetImpls(impls, archs) == {i \in DOMAIN impls : impls[i].deps \subseteq archs}

First(S) == CHOOSE i \in S : \A j \in S : i <= j

(* The k-th number of S, and the elements of a sequence at the positions   *)
(* of S, in their order.                                                   *)
Nth(S, k) == CHOOSE i \in S : Cardinality({j \in S : j <= i}) = k
Picked(s, S) == [k \in 1 .. Cardinality(S) |-> s[Nth(S, k)]]

(***************************************************************************)
(* volk_get_index: the first table entry whose name is the wanted one in   *)
(* the first 20 characters (strncmp); an unknown name falls back to        *)
(* "generic", and a table without "generic" to its first entry.            *)
(***************************************************************************)
Named(impls, T, wanted) == {i \in T : First20[impls[i].name] = First20[wanted]}

(* Mutant of GetIndex: an unknown name leads to the first entry at once.   *)
GetIndexZero(impls, T, wanted) ==
  IF T = {} THEN 0
  ELSE IF Named(impls, T, wanted) # {} THEN First(Named(impls, T, wanted)) ELSE First(T)

GetIndex(impls, T, wanted) ==
  LET hits == Named(impls, T, wanted)
      generics == Named(impls, T, "generic")
  IN  IF T = {} THEN 0
      ELSE IF hits # {} THEN First(hits)
      ELSE IF generics # {} THEN First(generics)
      ELSE First(T)

(***************************************************************************)
(* The scan at the end of volk_rank_archs: the first entry with the        *)
(* largest dependency mask among those with the given alignment flag.      *)
(***************************************************************************)
OfAlignment(impls, T, aligned) == {i \in T : impls[i].aligned = aligned}

(* Mutant of Best: the first candidate whatever its dependencies.          *)
BestFirst(impls, C) == First(C)

Best(impls, C) ==
  First({i \in C : \A j \in C : Mask(impls[j].deps) <= Mask(impls[i].deps)})

(* Mutant of BestByDeps: the last of equals wins.                          *)
BestByDepsLast(impls, T, align) ==
  LET C == OfAlignment(impls, T, align)
      largest == {i \in C : \A j \in C : Mask(impls[j].deps) <= Mask(impls[i].deps)}
  IN  IF C = {} THEN First(T) ELSE CHOOSE i \in largest : \A j \in largest : j <= i

BestByDeps(impls, T, align) ==
  LET A == OfAlignment(impls, T, TRUE)
      U == OfAlignment(impls, T, FALSE)
  IN  IF T = {} THEN 0
      ELSE IF align /\ A # {} THEN Best(impls, A)
      ELSE IF U # {} THEN Best(impls, U)
      ELSE First(T)               \* best_index_u keeps its initial 0

(***************************************************************************)
(* volk_rank_archs.  env is what getenv answers: whether VOLK_GENERIC is   *)
(* set, and the value of the variable named like the kernel (Unset if it   *)
(* is not set; a set but empty variable is the name "").  prefs is the     *)
(* loaded preference list: the first entry of that name decides.           *)
(***************************************************************************)
Unset == "(unset)"

PrefsOf(prefs, name) == {p \in DOMAIN prefs : prefs[p].name = name}

RankArchs(env, prefs, name, impls, T, align) ==
  LET mine == PrefsOf(prefs, name)
      pref == prefs[First(mine)]
  IN  IF env.generic
      THEN GetIndex(impls, T, "generic")
      ELSE IF env.override[name] # Unset
      THEN GetIndex(impls, T, env.override[name])
      ELSE IF mine # {}
      THEN GetIndex(impls, T, IF align THEN pref.impl_a ELSE pref.impl_u)
      ELSE BestByDeps(impls, T, align)

(***************************************************************************)
(* pick_best of the static-dispatch header: what the code generator        *)
(* hard-wires when VOLK_STATIC_DISPATCH names the machine.                 *)
(***************************************************************************)
PickBest(impls, T, wantAligned) ==
  LET matching == OfAlignment(impls, T, wantAligned)
      others == OfAlignment(impls, T, ~wantAligned)
  IN  IF T = {} THEN 0
      ELSE Best(impls, IF matching # {} THEN matching ELSE others)
=============================================================================
