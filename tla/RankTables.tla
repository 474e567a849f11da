------------------------------ MODULE RankTables ------------------------------
(***************************************************************************)
(* How the choice of an implementation reacts when VOLK evolves: somebody  *)
(* adds an implementation to a kernel's header or takes one out, and the   *)
(* library runs, with the config file volk_profile has left, on another    *)
(* processor.  The generators (gen/), the run-time scan (volk_rank_archs), *)
(* the choice hard-wired by a static build (pick_best) and the lookup of   *)
(* saved names (volk_get_index) are compared on every table that can arise.*)
(***************************************************************************)
EXTENDS RankArchs, SequencesExt

CONSTANTS
  KnownArchs,   (* the numbers of the architectures, in the order of archs.xml *)
  Requires,     (* the sets of architectures an #ifdef may ask for          *)
  Spellings,    (* the names of implementations                             *)
  AlignedNames, (* those that start with a_                                 *)
  MaxImpls      (* bound on the implementations of the kernel               *)

(* strncmp sees the a_ at the front and the end of a name as short as      *)
(* "generic".                                                              *)
ASSUME RankTablesAssumption ==
  /\ KnownArchs \subseteq 0 .. 30 /\ Requires \subseteq SUBSET KnownArchs
  /\ \A deps \in Requires \cup {{}} : Mask(deps) \in 0 .. MaxInt
  /\ AlignedNames \subseteq Spellings /\ "generic" \in Spellings \ AlignedNames
  /\ \A n, m \in Spellings : First20[n] = First20[m] =>
       /\ n \in AlignedNames <=> m \in AlignedNames
       /\ n = "generic" => m = "generic"
  /\ MaxImpls \in Nat

VARIABLES
  impls,   (* the kernel's implementations                                  *)
  caps,    (* the architectures of the machine                              *)
  saved    (* the kernel's lines in the config file, as LoadPreferences     *)
           (* gives them: none at first, then one                           *)

tableVars == <<impls, caps, saved>>

Generic == [name |-> "generic", deps |-> {}, aligned |-> FALSE]
Kernel == "volk_k"

TableInit == impls = <<Generic>> /\ caps = {} /\ saved = <<>>

T == GetImpls(impls, caps)

(* A new implementation, before or after those there are; no two C         *)
(* functions have one name, but the names may agree in 20 characters.  The *)
(* generator takes it to be aligned if its name starts with a_.            *)
AddImpl(name, deps) ==
  /\ Len(impls) < MaxImpls
  /\ \A i \in DOMAIN impls : impls[i].name # name
  /\ LET new == [name |-> name, deps |-> deps, aligned |-> name \in AlignedNames]
     IN  impls' \in {<<new>> \o impls, Append(impls, new)}
  /\ UNCHANGED <<caps, saved>>

(* The generator refuses a kernel without "generic".                       *)
RemoveImpl(i) ==
  /\ impls[i].name # "generic"
  /\ impls' = RemoveAt(impls, i)
  /\ UNCHANGED <<caps, saved>>

OtherMachine(archs) ==
  /\ archs # caps
  /\ caps' = archs
  /\ UNCHANGED <<impls, saved>>

(* volk_profile writes down its choices by name: any implementation of     *)
(* this machine, and any that requires no alignment.                       *)
SaveChoice(i, j) ==
  /\ ~impls[j].aligned
  /\ saved' = << [name |-> Kernel, impl_a |-> impls[i].name, impl_u |-> impls[j].name] >>
  /\ UNCHANGED <<impls, caps>>

TableNext ==
  \/ \E name \in Spellings, deps \in Requires : AddImpl(name, deps)
  \/ \E i \in DOMAIN impls : RemoveImpl(i)
  \/ \E archs \in SUBSET KnownArchs : OtherMachine(archs)
  \/ \E i, j \in T : SaveChoice(i, j)

TableSpec == TableInit /\ [][TableNext]_tableVars

-----------------------------------------------------------------------------
Chosen(align) == BestByDeps(impls, T, align)
ChosenMask(align) == Mask(impls[Chosen(align)].deps)

(* A static build hard-wires what the run-time scan would choose           *)
(* (pick_best of the static-dispatch header, volk_rank_archs).             *)
StaticAgreesWithDynamic ==
  \A align \in BOOLEAN : PickBest(impls, T, align) = Chosen(align)

NoVariable == [generic |-> FALSE, override |-> [k \in {Kernel} |-> Unset]]
Taken(align) == RankArchs(NoVariable, saved, Kernel, impls, T, align)
SavedName(align) == IF align THEN saved[1].impl_a ELSE saved[1].impl_u

Alike(i, name) == First20[impls[i].name] = First20[name]
Has(name) == \E i \in T : impls[i].name = name
HasTwin(name) == \E i \in T : impls[i].name # name /\ Alike(i, name)

(* What was saved on one machine, by one release, is safe on every other:  *)
(* the implementation taken for unaligned buffers requires no alignment,   *)
(* although its name may be gone, or be that of another implementation as  *)
(* far as it is compared; and the implementation that was measured is      *)
(* taken wherever there is it and no twin of its name, "generic" only      *)
(* where there is neither (volk_rank_archs, volk_get_index).               *)
SavedChoiceHolds ==
  saved # <<>> =>
    /\ ~impls[Taken(FALSE)].aligned
    /\ \A align \in BOOLEAN : LET i == Taken(align)
                                name == SavedName(align)
         IN  /\ i \in T
             /\ Has(name) /\ ~HasTwin(name) => impls[i].name = name
             /\ Has(name) \/ HasTwin(name) => Alike(i, name)
             /\ ~Has(name) /\ ~HasTwin(name) => impls[i].name = "generic"

(* A processor with more architectures never gets an implementation for    *)
(* unaligned buffers that asks for less (GetImpls, volk_rank_archs).       *)
MoreArchsNeverWorse ==
  [][impls' = impls /\ caps \subseteq caps'
       => ChosenMask(FALSE) <= (ChosenMask(FALSE))']_tableVars
=============================================================================
