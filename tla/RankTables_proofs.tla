--------------------------- MODULE RankTables_proofs ---------------------------
(***************************************************************************)
(* Proofs about the choice of an implementation while kernels and machines *)
(* change: for any architectures, any names, any number of implementations *)
(* and any line that volk_profile has saved.                               *)
(***************************************************************************)
EXTENDS RankTables, RankArchs_proofs

Impl == {new \in [name : Spellings, deps : Requires \cup {{}}, aligned : BOOLEAN] :
           new.aligned <=> new.name \in AlignedNames}

(* Every kernel has "generic", which asks for nothing.                     *)
Sound(ii) ==
  /\ ii \in Seq(Impl)
  /\ \E i \in DOMAIN ii : ii[i] = Generic

(* What is saved are names that the kernel had at the time.                *)
SavedInv ==
  saved # <<>> => \E a \in Spellings, u \in Spellings \ AlignedNames :
    saved = << [name |-> Kernel, impl_a |-> a, impl_u |-> u] >>

KernelInv == Sound(impls) /\ SavedInv

LEMMA AddImplKeeps ==
  ASSUME KernelInv, NEW name \in Spellings, NEW deps \in Requires, AddImpl(name, deps)
  PROVE  Sound(impls)'
<1> DEFINE new == [name |-> name, deps |-> deps, aligned |-> name \in AlignedNames]
<1>1. new \in Impl
  <2>1. deps \in Requires \cup {{}} /\ (name \in AlignedNames) \in BOOLEAN
    OBVIOUS
  <2>2. new \in [name : Spellings, deps : Requires \cup {{}}, aligned : BOOLEAN]
    BY <2>1
  <2>3. new.aligned = (name \in AlignedNames) /\ new.name = name
    OBVIOUS
  <2> HIDE DEF new
  <2> QED BY <2>2, <2>3 DEF Impl
<1> HIDE DEF new
<1>2. impls \in Seq(Impl) /\ \E i \in DOMAIN impls : impls[i] = Generic
  BY DEF KernelInv, Sound
<1>3. CASE impls' = Append(impls, new)
  <2>1. impls' \in Seq(Impl)
    BY <1>1, <1>2, <1>3
  <2>2. \A i \in DOMAIN impls : i \in DOMAIN impls' /\ impls'[i] = impls[i]
    BY <1>1, <1>2, <1>3
  <2> QED BY <1>2, <2>1, <2>2 DEF Sound
<1>4. CASE impls' = <<new>> \o impls
  <2>1. impls' \in Seq(Impl)
    BY <1>1, <1>2, <1>4
  <2>2. \A i \in DOMAIN impls : i + 1 \in DOMAIN impls' /\ impls'[i + 1] = impls[i]
    BY <1>1, <1>2, <1>4
  <2> QED BY <1>2, <2>1, <2>2 DEF Sound
<1> QED BY <1>3, <1>4 DEF AddImpl, new

LEMMA RemoveImplKeeps ==
  ASSUME KernelInv, NEW i \in DOMAIN impls, RemoveImpl(i)
  PROVE  Sound(impls)'
<1> DEFINE before == SubSeq(impls, 1, i - 1)
           behind == SubSeq(impls, i + 1, Len(impls))
<1>1. impls \in Seq(Impl) /\ i \in 1 .. Len(impls) /\ Len(impls) \in Nat
  BY DEF KernelInv, Sound
<1>2. /\ before \in Seq(Impl) /\ Len(before) = i - 1
      /\ \A n \in 1 .. i - 1 : before[n] = impls[n]
  BY <1>1
<1>3. /\ behind \in Seq(Impl) /\ Len(behind) = Len(impls) - i
      /\ \A n \in 1 .. Len(impls) - i : behind[n] = impls[i + n]
  BY <1>1
<1> HIDE DEF before, behind
<1>4. impls' = before \o behind
  BY DEF RemoveImpl, RemoveAt, before, behind
<1>5. /\ impls' \in Seq(Impl) /\ DOMAIN impls' = 1 .. Len(impls) - 1
      /\ \A n \in 1 .. i - 1 : impls'[n] = impls[n]
      /\ \A n \in i .. Len(impls) - 1 : impls'[n] = impls[n + 1]
  <2>1. /\ before \o behind \in Seq(Impl)
        /\ Len(before \o behind) = Len(impls) - 1
        /\ \A n \in 1 .. Len(impls) - 1 :
             (before \o behind)[n] = IF n <= i - 1 THEN before[n] ELSE behind[n - (i - 1)]
    BY <1>1, <1>2, <1>3
  <2>2. \A n \in i .. Len(impls) - 1 :
          /\ n \in 1 .. Len(impls) - 1 /\ ~(n <= i - 1)
          /\ n - (i - 1) \in 1 .. Len(impls) - i /\ i + (n - (i - 1)) = n + 1
    BY <1>1
  <2>3. \A n \in 1 .. i - 1 : n \in 1 .. Len(impls) - 1 /\ n <= i - 1
    BY <1>1
  <2>4. \A n \in 1 .. i - 1 : (before \o behind)[n] = before[n]
    BY <2>1, <2>3
  <2>5. \A n \in i .. Len(impls) - 1 : (before \o behind)[n] = behind[n - (i - 1)]
    BY <2>1, <2>2
  <2>6. \A n \in i .. Len(impls) - 1 : (before \o behind)[n] = impls[n + 1]
    BY <1>3, <2>2, <2>5
  <2>7. DOMAIN (before \o behind) = 1 .. Len(impls) - 1
    BY <1>1, <2>1
  <2> QED BY <1>2, <1>4, <2>1, <2>4, <2>6, <2>7
<1>6. PICK n \in DOMAIN impls : impls[n] = Generic
  BY DEF KernelInv, Sound
<1>7. n # i /\ n \in 1 .. Len(impls)
  BY <1>1, <1>6 DEF RemoveImpl, Generic
<1>8. CASE n < i
  <2>1. n \in 1 .. i - 1 /\ n \in 1 .. Len(impls) - 1
    BY <1>1, <1>7, <1>8
  <2> QED BY <1>5, <1>6, <2>1 DEF Sound
<1>9. CASE n > i
  <2>1. n - 1 \in i .. Len(impls) - 1 /\ n - 1 \in 1 .. Len(impls) - 1 /\ n - 1 + 1 = n
    BY <1>1, <1>7, <1>9
  <2> QED BY <1>5, <1>6, <2>1 DEF Sound
<1> QED BY <1>1, <1>7, <1>8, <1>9

(* The inductive invariant: whatever is added, removed and saved, and      *)
(* wherever the library runs, a kernel has "generic", and the name saved   *)
(* for unaligned buffers is none that starts with a_.                      *)
THEOREM KernelInvHolds == TableSpec => []KernelInv
<1>1. TableInit => KernelInv
  <2> SUFFICES ASSUME TableInit PROVE KernelInv
    OBVIOUS
  <2>1. Generic \in Impl
    BY RankTablesAssumption DEF Impl, Generic
  <2>2. impls = <<Generic>> /\ DOMAIN impls = {1} /\ impls[1] = Generic /\ saved = <<>>
    BY DEF TableInit
  <2>3. impls \in Seq(Impl)
    BY <2>1, <2>2
  <2> QED BY <2>2, <2>3 DEF KernelInv, Sound, SavedInv
<1>2. KernelInv /\ [TableNext]_tableVars => KernelInv'
  <2> SUFFICES ASSUME KernelInv, [TableNext]_tableVars PROVE KernelInv'
    OBVIOUS
  <2>1. CASE UNCHANGED <<impls, saved>>
    BY <2>1 DEF KernelInv, Sound, SavedInv
  <2>2. ASSUME NEW name \in Spellings, NEW deps \in Requires, AddImpl(name, deps)
        PROVE  KernelInv'
    BY <2>2, AddImplKeeps DEF AddImpl, KernelInv, SavedInv
  <2>3. ASSUME NEW i \in DOMAIN impls, RemoveImpl(i) PROVE KernelInv'
    BY <2>3, RemoveImplKeeps DEF RemoveImpl, KernelInv, SavedInv
  <2>4. ASSUME NEW i \in T, NEW j \in T, SaveChoice(i, j) PROVE KernelInv'
    <3>1. \A n \in T : impls[n] \in Impl
      BY DEF KernelInv, Sound, T, GetImpls
    <3>2. impls[i].name \in Spellings /\ impls[j].name \in Spellings \ AlignedNames
      BY <2>4, <3>1 DEF Impl, SaveChoice
    <3>3. SavedInv'
      BY <2>4, <3>2 DEF SaveChoice, SavedInv
    <3> QED BY <2>4, <3>3 DEF SaveChoice, KernelInv
  <2> QED BY <2>1, <2>2, <2>3, <2>4 DEF TableNext, OtherMachine, tableVars
<1> QED BY <1>1, <1>2, PTL DEF TableSpec

(* What the lemmas about RankArchs ask of a table.                         *)
LEMMA TableFacts ==
  ASSUME NEW ii, Sound(ii), NEW cc
  PROVE  LET TT == GetImpls(ii, cc)
         IN  /\ TT \subseteq DOMAIN ii /\ TT \subseteq Nat
             /\ \E i \in TT : ~ii[i].aligned
             /\ \A i \in TT : Mask(ii[i].deps) \in 0 .. MaxInt /\ ii[i].aligned \in BOOLEAN
<1> DEFINE TT == GetImpls(ii, cc)
<1>1. TT \subseteq DOMAIN ii /\ DOMAIN ii \subseteq Nat
  BY DEF Sound, GetImpls
<1>2. PICK i \in DOMAIN ii : ii[i] = Generic
  BY DEF Sound
<1>3. i \in TT /\ ~ii[i].aligned
  BY <1>2 DEF GetImpls, Generic
<1>4. \A m \in DOMAIN ii : ii[m] \in Impl
  BY DEF Sound
<1>5. \A m \in DOMAIN ii : ii[m].deps \in Requires \cup {{}} /\ ii[m].aligned \in BOOLEAN
  BY <1>4 DEF Impl
<1> QED BY <1>1, <1>3, <1>5, RankTablesAssumption

(* A static build hard-wires what the run-time scan would choose, for any  *)
(* table with an implementation for unaligned buffers.                     *)
LEMMA PickBestIsBestByDeps ==
  ASSUME NEW ii, NEW TT, \E i \in TT : ~ii[i].aligned, \A i \in TT : ii[i].aligned \in BOOLEAN,
         NEW align \in BOOLEAN
  PROVE  PickBest(ii, TT, align) = BestByDeps(ii, TT, align)
<1>1. TT # {} /\ OfAlignment(ii, TT, FALSE) # {}
  BY DEF OfAlignment
<1>2. CASE align = TRUE
  BY <1>1, <1>2 DEF PickBest, BestByDeps
<1>3. CASE align = FALSE
  BY <1>1, <1>3 DEF PickBest, BestByDeps
<1> QED BY <1>2, <1>3

(* The static build and the run-time dispatcher choose alike, whatever     *)
(* implementations and architectures are added.                            *)
THEOREM StaticChoiceAgrees == TableSpec => []StaticAgreesWithDynamic
<1>1. KernelInv => StaticAgreesWithDynamic
  BY TableFacts, PickBestIsBestByDeps DEF KernelInv, StaticAgreesWithDynamic, Chosen, T
<1> QED BY <1>1, KernelInvHolds, PTL

(* The preferences are those of the kernel, so that a choice is a lookup.  *)
LEMMA TakenByName ==
  ASSUME SavedInv, saved # <<>>, NEW align \in BOOLEAN
  PROVE  /\ Taken(align) = GetIndex(impls, T, SavedName(align))
         /\ SavedName(align) \in Spellings
         /\ ~align => SavedName(align) \notin AlignedNames
<1>1. PICK a \in Spellings, u \in Spellings \ AlignedNames :
        saved = << [name |-> Kernel, impl_a |-> a, impl_u |-> u] >>
  BY DEF SavedInv
<1>2. saved[1] = [name |-> Kernel, impl_a |-> a, impl_u |-> u] /\ DOMAIN saved = {1}
  BY <1>1
<1>3. PrefsOf(saved, Kernel) = {1}
  BY <1>2 DEF PrefsOf
<1>4. First({1}) = 1
  BY FirstIsFirst
<1>5. NoVariable.override[Kernel] = Unset /\ NoVariable.generic = FALSE
  BY DEF NoVariable
<1>6. Taken(align) = GetIndex(impls, T, SavedName(align))
  BY <1>3, <1>4, <1>5 DEF Taken, RankArchs, SavedName
<1>7. SavedName(align) = IF align THEN a ELSE u
  BY <1>2 DEF SavedName
<1> QED BY <1>6, <1>7

(* What the lookup returns: an entry of the table that is named as asked   *)
(* for in 20 characters or, where there is none, "generic".                *)
LEMMA LookedUp ==
  ASSUME Sound(impls), NEW name
  PROVE  LET i == GetIndex(impls, T, name)
         IN  /\ i \in T
             /\ (\E n \in T : Alike(n, name)) => Alike(i, name)
             /\ ~(\E n \in T : Alike(n, name)) => impls[i].name = "generic"
<1> DEFINE i == GetIndex(impls, T, name)
<1>1. T \subseteq Nat /\ T # {} /\ \A n \in T : impls[n] \in Impl
  BY TableFacts DEF T, Sound
<1>2. i \in T
  BY <1>1, GetIndexInTable
<1>3. Named(impls, T, name) = {n \in T : Alike(n, name)}
  BY DEF Named, Alike
<1>4. CASE Named(impls, T, name) # {}
  <2>1. i \in Named(impls, T, name)
    BY <1>1, <1>4, GetIndexByName
  <2> QED BY <1>2, <1>3, <1>4, <2>1
<1>5. CASE Named(impls, T, name) = {}
  <2>1. Named(impls, T, "generic") # {}
    <3>1. PICK n \in DOMAIN impls : impls[n] = Generic
      BY DEF Sound
    <3>2. n \in T /\ impls[n].name = "generic"
      BY <3>1 DEF T, GetImpls, Generic
    <3> QED BY <3>2 DEF Named
  <2>2. i = First(Named(impls, T, "generic"))
    BY <1>1, <1>5, <2>1 DEF GetIndex
  <2>3. i \in Named(impls, T, "generic")
    BY <1>1, <2>1, <2>2, FirstIsFirst DEF Named
  <2>4. impls[i].name \in Spellings /\ First20["generic"] = First20[impls[i].name]
    BY <1>1, <1>2, <2>3 DEF Named, Impl
  <2>5. impls[i].name = "generic"
    BY <2>4, RankTablesAssumption
  <2> QED BY <1>2, <1>3, <1>5, <2>5
<1> QED BY <1>4, <1>5

(* A saved choice is safe, and is the implementation measured where there  *)
(* is it alone, in every table and on every machine it is carried to: the  *)
(* a_ of an aligned implementation is among the characters compared, and   *)
(* "generic" is always there to fall back to.                              *)
THEOREM SavedChoicesHold == TableSpec => []SavedChoiceHolds
<1>1. ASSUME KernelInv, saved # <<>> PROVE ~impls[Taken(FALSE)].aligned
  <2> DEFINE name == SavedName(FALSE)
             i == GetIndex(impls, T, name)
  <2>1. Taken(FALSE) = i /\ name \in Spellings /\ name \notin AlignedNames
    BY <1>1, TakenByName DEF KernelInv
  <2> HIDE DEF name
  <2>2. i \in T /\ (Alike(i, name) \/ impls[i].name = "generic")
    BY <1>1, LookedUp DEF KernelInv
  <2> HIDE DEF i
  <2>3. impls[i] \in Impl
    BY <1>1, <2>2 DEF KernelInv, Sound, T, GetImpls
  <2>4. impls[i].name \notin AlignedNames
    BY <2>1, <2>2, <2>3, RankTablesAssumption DEF Impl, Alike
  <2> QED BY <2>1, <2>3, <2>4 DEF Impl
<1>2. ASSUME KernelInv, saved # <<>>, NEW align \in BOOLEAN
      PROVE  LET i == Taken(align)
                 name == SavedName(align)
             IN  /\ i \in T
                 /\ Has(name) /\ ~HasTwin(name) => impls[i].name = name
                 /\ Has(name) \/ HasTwin(name) => Alike(i, name)
                 /\ ~Has(name) /\ ~HasTwin(name) => impls[i].name = "generic"
  <2> DEFINE name == SavedName(align)
             i == GetIndex(impls, T, name)
  <2>1. Taken(align) = i
    BY <1>2, TakenByName DEF KernelInv
  <2> HIDE DEF name
  <2>2. /\ i \in T
        /\ (\E n \in T : Alike(n, name)) => Alike(i, name)
        /\ ~(\E n \in T : Alike(n, name)) => impls[i].name = "generic"
    BY <1>2, LookedUp DEF KernelInv
  <2>3. (\E n \in T : Alike(n, name)) <=> Has(name) \/ HasTwin(name)
    BY DEF Has, HasTwin, Alike
  <2> HIDE DEF i
  <2>4. ~HasTwin(name) /\ Alike(i, name) => impls[i].name = name
    BY <2>2 DEF HasTwin
  <2> QED BY <2>1, <2>2, <2>3, <2>4 DEF name
<1>3. KernelInv => SavedChoiceHolds
  BY <1>1, <1>2 DEF SavedChoiceHolds
<1> QED BY <1>3, KernelInvHolds, PTL

(* The chosen implementation for unaligned buffers is one of the table     *)
(* with the largest dependencies.                                          *)
LEMMA ChosenIsLargest ==
  ASSUME NEW ii, Sound(ii), NEW cc
  PROVE  LET TT == GetImpls(ii, cc)
             c == BestByDeps(ii, TT, FALSE)
         IN  /\ c \in TT /\ ~ii[c].aligned
             /\ \A i \in TT : ~ii[i].aligned => Mask(ii[i].deps) <= Mask(ii[c].deps)
<1> DEFINE TT == GetImpls(ii, cc)
           U == OfAlignment(ii, TT, FALSE)
<1>1. U # {} /\ U \subseteq Nat /\ U \subseteq TT /\ TT # {}
  BY TableFacts DEF OfAlignment
<1>2. \A i \in U : Mask(ii[i].deps) \in 0 .. MaxInt
  BY <1>1, TableFacts
<1>3. /\ Best(ii, U) \in U
      /\ \A i \in U : Mask(ii[i].deps) <= Mask(ii[Best(ii, U)].deps)
  <2> HIDE DEF U
  <2> QED BY <1>1, <1>2, BestIsBest
<1>4. BestByDeps(ii, TT, FALSE) = Best(ii, U)
  BY <1>1 DEF BestByDeps
<1>5. \A i \in TT : ~ii[i].aligned => i \in U
  BY TableFacts DEF OfAlignment
<1>6. ~ii[Best(ii, U)].aligned
  BY <1>3 DEF OfAlignment
<1> QED BY <1>1, <1>3, <1>4, <1>5, <1>6

(* A processor with more architectures never gets an implementation for    *)
(* unaligned buffers that asks for less.                                   *)
THEOREM MoreArchsAreNeverWorse == TableSpec => MoreArchsNeverWorse
<1>1. ASSUME KernelInv, impls' = impls, caps \subseteq caps'
      PROVE  ChosenMask(FALSE) <= (ChosenMask(FALSE))'
  <2> DEFINE TT == GetImpls(impls, caps)
             TU == GetImpls(impls, caps')
             c == BestByDeps(impls, TT, FALSE)
             d == BestByDeps(impls, TU, FALSE)
  <2>2. TT \subseteq TU
    BY <1>1 DEF GetImpls
  <2>3. c \in TT /\ ~impls[c].aligned
    BY <1>1, ChosenIsLargest DEF KernelInv
  <2>4. \A i \in TU : ~impls[i].aligned => Mask(impls[i].deps) <= Mask(impls[d].deps)
    BY <1>1, ChosenIsLargest DEF KernelInv
  <2>5. Mask(impls[c].deps) <= Mask(impls[d].deps)
    BY <2>2, <2>3, <2>4
  <2> QED BY <1>1, <2>5 DEF ChosenMask, Chosen, T
<1>2. KernelInv /\ [TableNext]_tableVars
        => [impls' = impls /\ caps \subseteq caps'
              => ChosenMask(FALSE) <= (ChosenMask(FALSE))']_tableVars
  BY <1>1
<1> QED BY <1>2, KernelInvHolds, PTL DEF TableSpec, MoreArchsNeverWorse
=============================================================================
