--------------------------- MODULE RankArchs_proofs ---------------------------
(***************************************************************************)
(* What volk_get_index and volk_rank_archs return, for every table, every  *)
(* preference list and every environment.                                  *)
(***************************************************************************)
EXTENDS RankArchs, SequencesExt, FiniteSetTheorems, WellFoundedInduction, TLAPS

(* The order of the naturals is well-founded.                              *)
LessThan == {ss \in Nat \X Nat : ss[1] < ss[2]}

LEMMA LessThanWellFounded == IsWellFoundedOn(LessThan, Nat)
BY NatLessThanWellFounded, Zenon DEF OpToRel, LessThan

(* A non-empty set of naturals has a first element.                        *)
LEMMA LeastExists ==
  ASSUME NEW S, S \subseteq Nat, S # {}
  PROVE  \E x \in S : \A y \in S : x <= y
<1>1. PICK x \in S : \A y \in S : <<y, x>> \notin LessThan
  BY LessThanWellFounded, WFMin
<1>2. ASSUME NEW y \in S, y < x PROVE FALSE
  <2>1. <<y, x>> \in Nat \X Nat /\ <<y, x>>[1] < <<y, x>>[2]
    BY <1>2
  <2>2. <<y, x>> \in LessThan
    BY <2>1, Zenon DEF LessThan
  <2> QED BY <1>1, <2>2
<1> QED BY <1>2

(* What holds of 0 and of the successor of each number holds up to any.    *)
LEMMA CountedUp ==
  ASSUME NEW K \in Nat, NEW G, 0 \in G, \A n \in 0 .. K - 1 : n \in G => n + 1 \in G
  PROVE  \A n \in 0 .. K : n \in G
<1> DEFINE rest == {n \in 0 .. K : n \notin G}
<1>1. SUFFICES ASSUME rest # {} PROVE FALSE
  OBVIOUS
<1>2. PICK m \in rest : \A n \in rest : m <= n
  <2>1. rest \subseteq Nat
    OBVIOUS
  <2> HIDE DEF rest
  <2> QED
    BY <2>1, <1>1, LeastExists
<1>3. m \in 0 .. K /\ m # 0
  OBVIOUS
<1>4. m - 1 \in 0 .. K - 1 /\ m - 1 \in 0 .. K /\ ~(m <= m - 1) /\ (m - 1) + 1 = m
  BY <1>3
<1>5. m - 1 \in G
  BY <1>2, <1>4
<1> QED
  BY <1>4, <1>5

(* First returns the first element.                                        *)
LEMMA FirstIsFirst ==
  ASSUME NEW S, S \subseteq Nat, S # {}
  PROVE  /\ First(S) \in S
         /\ \A j \in S : First(S) <= j
BY LeastExists DEF First

LEMMA MaxIntIsNat == MaxInt \in Nat
BY SMT DEF MaxInt

(* Masks are bounded by the width of an int, so that among any candidates  *)
(* one has the largest mask.                                               *)
LEMMA LargestExists ==
  ASSUME NEW C, C # {}, NEW f \in [C -> 0 .. MaxInt]
  PROVE  \E i \in C : \A j \in C : f[j] <= f[i]
<1> DEFINE gaps == {MaxInt - f[i] : i \in C}
<1>1. \A i \in C : f[i] \in Nat /\ MaxInt - f[i] \in Nat
  BY MaxIntIsNat
<1>2. gaps \subseteq Nat /\ gaps # {}
  BY <1>1
<1>3. PICK g \in gaps : \A h \in gaps : g <= h
  BY <1>2, LeastExists
<1>4. PICK i \in C : g = MaxInt - f[i]
  BY <1>3
<1>5. \A j \in C : MaxInt - f[i] <= MaxInt - f[j]
  BY <1>3, <1>4
<1>6. \A j \in C : f[j] <= f[i]
  BY <1>1, <1>5, MaxIntIsNat
<1> QED BY <1>6

(* Best returns a candidate with the largest mask.                         *)
LEMMA BestIsBest ==
  ASSUME NEW impls, NEW C, C \subseteq Nat, C # {},
         \A i \in C : Mask(impls[i].deps) \in 0 .. MaxInt
  PROVE  /\ Best(impls, C) \in C
         /\ \A j \in C : Mask(impls[j].deps) <= Mask(impls[Best(impls, C)].deps)
<1> DEFINE f == [i \in C |-> Mask(impls[i].deps)]
           largest == {i \in C : \A j \in C : Mask(impls[j].deps) <= Mask(impls[i].deps)}
<1>1. f \in [C -> 0 .. MaxInt]
  OBVIOUS
<1>2. \E i \in C : \A j \in C : f[j] <= f[i]
  <2> HIDE DEF f
  <2> QED BY <1>1, LargestExists
<1>3. largest \subseteq Nat /\ largest # {}
  BY <1>2
<1>4. First(largest) \in largest
  <2> HIDE DEF largest
  <2> QED BY <1>3, FirstIsFirst
<1> QED BY <1>4 DEF Best

(***************************************************************************)
(* volk_get_index returns an entry of the table, whatever name is asked    *)
(* for; so the assertion index >= 0 in __init_kern can only fail on an     *)
(* empty table.                                                            *)
(***************************************************************************)
THEOREM GetIndexInTable ==
  ASSUME NEW impls, NEW T, T \subseteq Nat, T # {}, NEW wanted
  PROVE  GetIndex(impls, T, wanted) \in T
<1>1. \A n : Named(impls, T, n) \subseteq T
  BY DEF Named
<1>2. \A n : Named(impls, T, n) # {} => First(Named(impls, T, n)) \in T
  BY <1>1, FirstIsFirst
<1>3. First(T) \in T
  BY FirstIsFirst
<1> QED BY <1>2, <1>3 DEF GetIndex

(* If some entry's name is the one asked for, as far as it is compared,    *)
(* such an entry is found.                                                 *)
LEMMA GetIndexByName ==
  ASSUME NEW impls, NEW T, T \subseteq Nat, NEW wanted,
         Named(impls, T, wanted) # {}
  PROVE  GetIndex(impls, T, wanted) \in Named(impls, T, wanted)
<1>1. Named(impls, T, wanted) \subseteq Nat /\ T # {}
  BY DEF Named
<1>2. First(Named(impls, T, wanted)) \in Named(impls, T, wanted)
  BY <1>1, FirstIsFirst
<1> QED BY <1>1, <1>2 DEF GetIndex

(* The scan by dependencies returns an entry of the table.                 *)
LEMMA BestByDepsInTable ==
  ASSUME NEW impls, NEW T, T \subseteq Nat, T # {}, NEW align \in BOOLEAN,
         \A i \in T : Mask(impls[i].deps) \in 0 .. MaxInt
  PROVE  BestByDeps(impls, T, align) \in T
<1> DEFINE A == OfAlignment(impls, T, TRUE)
           U == OfAlignment(impls, T, FALSE)
<1>1. A \subseteq T /\ U \subseteq T
  BY DEF OfAlignment
<1>2. A # {} => Best(impls, A) \in A
  BY <1>1, BestIsBest
<1>3. U # {} => Best(impls, U) \in U
  BY <1>1, BestIsBest
<1>4. First(T) \in T
  BY FirstIsFirst
<1> QED BY <1>1, <1>2, <1>3, <1>4 DEF BestByDeps

(***************************************************************************)
(* volk_rank_archs returns an entry of the table for every environment and *)
(* every preference list, those of another machine included.               *)
(***************************************************************************)
THEOREM RankInTable ==
  ASSUME NEW env, NEW prefs, NEW name, NEW impls, NEW T, NEW align \in BOOLEAN,
         T \subseteq Nat, T # {},
         \A i \in T : Mask(impls[i].deps) \in 0 .. MaxInt
  PROVE  RankArchs(env, prefs, name, impls, T, align) \in T
<1>1. \A n : GetIndex(impls, T, n) \in T
  BY GetIndexInTable
<1>2. BestByDeps(impls, T, align) \in T
  BY BestByDepsInTable
<1> QED BY <1>1, <1>2 DEF RankArchs

(***************************************************************************)
(* Asked for an unaligned implementation, volk_rank_archs returns one that *)
(* is: if the table has an unaligned "generic" and neither an environment  *)
(* variable nor the preferences name an aligned implementation for it.     *)
(***************************************************************************)
THEOREM RankUnalignedIsUnaligned ==
  ASSUME NEW env, NEW prefs, NEW name, NEW impls, NEW T,
         DOMAIN prefs \subseteq Nat,
         T \subseteq Nat,
         \A i \in T : Mask(impls[i].deps) \in 0 .. MaxInt /\ impls[i].aligned \in BOOLEAN,
         Named(impls, T, "generic") # {},
         \A i \in Named(impls, T, "generic") : ~impls[i].aligned,
         env.override[name] # Unset =>
           \A i \in Named(impls, T, env.override[name]) : ~impls[i].aligned,
         \A p \in DOMAIN prefs : prefs[p].name = name =>
           \A i \in Named(impls, T, prefs[p].impl_u) : ~impls[i].aligned
  PROVE  ~impls[RankArchs(env, prefs, name, impls, T, FALSE)].aligned
<1> DEFINE safe(n) == \A i \in Named(impls, T, n) : ~impls[i].aligned
           mine == PrefsOf(prefs, name)
           U == OfAlignment(impls, T, FALSE)
<1>1. T # {}
  BY DEF Named
<1>2. \A n : Named(impls, T, n) # {} => First(Named(impls, T, n)) \in Named(impls, T, n)
  BY FirstIsFirst DEF Named
<1>3. \A n : safe(n) => ~impls[GetIndex(impls, T, n)].aligned
  BY <1>1, <1>2 DEF GetIndex
<1>4. mine # {} => safe(prefs[First(mine)].impl_u)
  <2>1. mine \subseteq Nat
    BY DEF PrefsOf
  <2>2. mine # {} => First(mine) \in mine
    BY <2>1, FirstIsFirst
  <2> QED BY <2>2 DEF PrefsOf
<1>5. ~impls[BestByDeps(impls, T, FALSE)].aligned
  <2>1. U # {} /\ U \subseteq T
    BY DEF OfAlignment, Named
  <2>2. Best(impls, U) \in U
    BY <2>1, BestIsBest
  <2> QED BY <1>1, <2>1, <2>2 DEF BestByDeps, OfAlignment
<1> HIDE DEF safe
<1>6. safe("generic")
  BY DEF safe
<1>7. env.override[name] # Unset => safe(env.override[name])
  BY DEF safe
<1> QED BY <1>3, <1>4, <1>5, <1>6, <1>7 DEF RankArchs

-----------------------------------------------------------------------------
(* The numbers of a finite set can be counted off in their order.          *)
LEMMA NthInOrder ==
  ASSUME NEW S, S \subseteq Nat, IsFiniteSet(S)
  PROVE  /\ Cardinality(S) \in Nat
         /\ \A k \in 1 .. Cardinality(S) : Nth(S, k) \in S
         /\ \A i \in S : \E k \in 1 .. Cardinality(S) : Nth(S, k) = i
         /\ \A k, m \in 1 .. Cardinality(S) : k < m => Nth(S, k) < Nth(S, m)
<1> DEFINE UpTo(m) == {x \in S : x <= m}
           c == [i \in S |-> Cardinality(UpTo(i))]
           N == Cardinality(S)
<1>1. N \in Nat
  BY FS_CardinalityType
<1>2. \A i : /\ UpTo(i) \subseteq S /\ IsFiniteSet(UpTo(i))
             /\ Cardinality(UpTo(i)) \in Nat /\ Cardinality(UpTo(i)) <= N
  BY FS_Subset, FS_CardinalityType
<1>3. \A i \in S : c[i] \in 1 .. N
  <2> TAKE i \in S
  <2>1. i \in UpTo(i)
    OBVIOUS
  <2>2. Cardinality(UpTo(i)) # 0
    BY <2>1, <1>2, FS_EmptySet
  <2> QED
    BY <2>2, <1>2
<1>4. ASSUME NEW i \in S, NEW j \in S, i < j
      PROVE  c[i] < c[j]
  <2>1. i \in Nat /\ j \in Nat /\ \A x \in S : x \in Nat
    OBVIOUS
  <2>a. \A x \in UpTo(i) : x \in UpTo(j)
    <3> SUFFICES ASSUME NEW x \in S, x <= i PROVE x <= j
      OBVIOUS
    <3> QED
      BY <2>1, <1>4
  <2>b. j \in UpTo(j) /\ j \notin UpTo(i)
    <3>1. j <= j /\ ~(j <= i)
      BY <2>1, <1>4
    <3> QED
      BY <3>1
  <2>2. IsFiniteSet(UpTo(j))
    BY <1>2
  <2> HIDE DEF UpTo
  <2>3. Cardinality(UpTo(i)) <= Cardinality(UpTo(j)) /\ Cardinality(UpTo(i)) # Cardinality(UpTo(j))
    BY <2>a, <2>b, <2>2, FS_Subset
  <2> QED
    BY <2>3, <1>2
<1>5. \A i, j \in S : c[i] = c[j] => i = j
  <2> TAKE i, j \in S
  <2>1. i < j \/ j < i \/ i = j
    OBVIOUS
  <2>2. c[i] \in 1 .. N /\ c[j] \in 1 .. N
    BY <1>3
  <2> HIDE DEF c
  <2> QED
    BY <2>1, <2>2, <1>4
<1>6. c \in Injection(S, 1 .. N)
  <2>1. c \in [S -> 1 .. N]
    BY <1>3
  <2> HIDE DEF c
  <2> QED
    BY <2>1, <1>5 DEF Injection, IsInjective
<1>7. IsFiniteSet(1 .. N) /\ Cardinality(1 .. N) = N
  BY <1>1, FS_Interval
<1>8. c \in Surjection(S, 1 .. N)
  <2> HIDE DEF c
  <2> QED
    BY <1>6, <1>7, FS_Injection
<1>9. \A k \in 1 .. N : \E i \in S : c[i] = k
  <2> HIDE DEF c
  <2> QED
    BY <1>8 DEF Surjection
<1>10. \A k : Nth(S, k) = CHOOSE i \in S : Cardinality(UpTo(i)) = k
  BY DEF Nth
<1>11. \A k \in 1 .. N : Nth(S, k) \in S /\ c[Nth(S, k)] = k
  <2> TAKE k \in 1 .. N
  <2>1. \E i \in S : Cardinality(UpTo(i)) = k
    BY <1>9
  <2> HIDE DEF UpTo
  <2> QED
    BY <2>1, <1>10
<1> HIDE DEF c
<1>12. \A i \in S : Nth(S, c[i]) = i
  BY <1>3, <1>5, <1>11
<1>13. \A k, m \in 1 .. N : k < m => Nth(S, k) < Nth(S, m)
  <2> TAKE k, m \in 1 .. N
  <2>1. Nth(S, k) \in Nat /\ Nth(S, m) \in Nat /\ c[Nth(S, k)] = k /\ c[Nth(S, m)] = m
    BY <1>11
  <2>2. Nth(S, m) < Nth(S, k) => m < k
    BY <2>1, <1>4, <1>11
  <2>3. k < m => Nth(S, k) # Nth(S, m)
    BY <2>1
  <2> QED
    BY <2>1, <2>2, <2>3
<1> QED
  BY <1>1, <1>3, <1>11, <1>12, <1>13

LEMMA PickedInOrder ==
  ASSUME NEW T, NEW s \in Seq(T), IsInjective(s), NEW S, S \subseteq DOMAIN s
  PROVE  /\ Picked(s, S) \in Seq(T)
         /\ IsInjective(Picked(s, S))
         /\ Range(Picked(s, S)) = {s[i] : i \in S}
<1> DEFINE p == Picked(s, S)
           N == Cardinality(S)
<1>1. S \subseteq Nat /\ IsFiniteSet(S)
  <2>1. DOMAIN s = 1 .. Len(s) /\ Len(s) \in Nat
    OBVIOUS
  <2>2. IsFiniteSet(DOMAIN s)
    BY <2>1, FS_Interval
  <2> QED
    BY <2>1, <2>2, FS_Subset
<1>2. /\ N \in Nat
      /\ \A k \in 1 .. N : Nth(S, k) \in S
      /\ \A i \in S : \E k \in 1 .. N : Nth(S, k) = i
      /\ \A k, m \in 1 .. N : k < m => Nth(S, k) < Nth(S, m)
  BY <1>1, NthInOrder
<1>3. p = [k \in 1 .. N |-> s[Nth(S, k)]]
  BY DEF Picked
<1>4. \A i \in DOMAIN s : s[i] \in T
  OBVIOUS
<1> HIDE DEF N, p
<1>5. DOMAIN p = 1 .. N /\ \A k \in 1 .. N : p[k] = s[Nth(S, k)] /\ p[k] \in T
  BY <1>2, <1>3, <1>4
<1>6. p \in Seq(T)
  BY <1>2, <1>3, <1>5
<1>7. IsInjective(p)
  <2> SUFFICES ASSUME NEW k \in 1 .. N, NEW m \in 1 .. N, p[k] = p[m]
               PROVE  k = m
    BY <1>5 DEF IsInjective
  <2>1. Nth(S, k) = Nth(S, m)
    BY <1>2, <1>5 DEF IsInjective
  <2>2. k < m \/ m < k \/ k = m
    BY <1>2
  <2>3. Nth(S, k) \in Nat
    BY <1>1, <1>2
  <2> QED
    BY <1>2, <2>1, <2>2, <2>3
<1>8. Range(p) = {s[i] : i \in S}
  <2>1. Range(p) = {p[k] : k \in 1 .. N}
    BY <1>5 DEF Range
  <2> QED
    BY <1>2, <1>5, <2>1
<1> QED
  BY <1>6, <1>7, <1>8 DEF p
=============================================================================
