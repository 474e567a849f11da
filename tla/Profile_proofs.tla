------------------------------ MODULE Profile_proofs ------------------------------
(***************************************************************************)
(* What volk_profile leaves to the library: for any tests, any tables of   *)
(* implementations, any options and any outcome of the tests, killed runs  *)
(* included; and what the test of one kernel (run_volk_tests), whose       *)
(* outcome a run of volk_profile records, finds for any implementations    *)
(* and any times; and the comparisons of outputs and the aligned memory    *)
(* that it rests on.                                                       *)
(***************************************************************************)
EXTENDS Profile, QaTests, Comparisons, TestProgram, AlignedMemory, RankArchs_proofs

(* Sequences.                                                              *)
LEMMA ElementOf ==
  ASSUME NEW T, NEW s \in Seq(T), NEW i \in DOMAIN s
  PROVE  s[i] \in T
OBVIOUS

LEMMA SeqDomain ==
  ASSUME NEW T, NEW s \in Seq(T)
  PROVE  Len(s) \in Nat /\ DOMAIN s = 1 .. Len(s)
OBVIOUS

LEMMA Appended ==
  ASSUME NEW T, NEW s \in Seq(T), NEW r \in T
  PROVE  /\ Append(s, r) \in Seq(T)
         /\ DOMAIN s \subseteq DOMAIN Append(s, r)
         /\ \A n \in DOMAIN s : Append(s, r)[n] = s[n]
         /\ Len(s) + 1 \in DOMAIN Append(s, r) /\ Append(s, r)[Len(s) + 1] = r
         /\ \A n \in DOMAIN Append(s, r) : n \in DOMAIN s \/ n = Len(s) + 1
OBVIOUS

-----------------------------------------------------------------------------
(* The test of one kernel.  Its inductive invariant: what the first loop   *)
(* has timed, what the comparisons so far have found, and what is told of  *)
(* it at the end.                                                          *)
Agrees(n) == \A k \in 1 .. Outputs : <<n, k>> \notin differed

Running ==
  testsPc = "run" =>
    /\ Len(times) = archIndex - 1
    /\ DOMAIN pass = {ArchList[n] : n \in 1 .. archIndex - 1}
    /\ \A name \in DOMAIN pass : pass[name] = TRUE
    /\ output = 1 /\ fail = FALSE /\ failGlobal = FALSE
    /\ archResults = <<>> /\ differed = {}

Compared ==
  testsPc \in {"compare", "select", "done"} =>
    /\ Len(times) = Len(ArchList)
    /\ pass \in [ArchNames -> BOOLEAN]
    /\ failGlobal <=> differed # {}
    /\ \A n \in 1 .. Len(ArchList) : pass[ArchList[n]] <=> Agrees(n)
    /\ Agrees(GenericOffset)
    /\ \A n \in DOMAIN archResults : archResults[n] <=> <<n, Outputs>> \notin differed

Comparing ==
  testsPc = "compare" =>
    /\ Len(archResults) = archIndex - 1
    /\ \A n \in 1 .. Len(ArchList), k \in 1 .. Outputs :
         <<n, k>> \in differed => n < archIndex \/ (n = archIndex /\ k < output)
    /\ fail <=> output > 1 /\ <<archIndex, output - 1>> \in differed
    /\ archIndex = GenericOffset => output = 1

Selecting ==
  /\ testsPc \in {"select", "done"} => Len(archResults) = Len(ArchList)
  /\ testsPc = "done" =>
       /\ best.a = Fastest(Passing)
       /\ best.u = Fastest({n \in Passing : ~RequiresAlignment(n)})

TestsInv == TestsTypeOK /\ Running /\ Compared /\ Comparing /\ Selecting

LEMMA JoinedInOrder ==
  ASSUME NEW T, NEW s \in Seq(T), NEW t \in Seq(T), IsInjective(s), IsInjective(t),
         Range(s) \cap Range(t) = {}
  PROVE  /\ s \o t \in Seq(T)
         /\ IsInjective(s \o t)
         /\ Range(s \o t) = Range(s) \cup Range(t)
<1> DEFINE r == s \o t
<1>1. /\ r \in Seq(T) /\ Len(s) \in Nat /\ Len(t) \in Nat
      /\ DOMAIN r = 1 .. Len(s) + Len(t)
      /\ DOMAIN s = 1 .. Len(s) /\ DOMAIN t = 1 .. Len(t)
      /\ \A i \in 1 .. Len(s) : r[i] = s[i]
      /\ \A i \in 1 .. Len(t) : r[Len(s) + i] = t[i]
  OBVIOUS
<1> HIDE DEF r
<1>2. \A i \in DOMAIN r : i \in DOMAIN s \/ (i - Len(s) \in DOMAIN t /\ i = Len(s) + (i - Len(s)))
  BY <1>1
<1>3. \A i \in DOMAIN s : i \in DOMAIN r /\ r[i] = s[i] /\ r[i] \in Range(s)
  BY <1>1 DEF Range
<1>4. \A i \in DOMAIN t : Len(s) + i \in DOMAIN r /\ r[Len(s) + i] = t[i] /\ t[i] \in Range(t)
  BY <1>1 DEF Range
<1>5. \A i \in DOMAIN r : i \notin DOMAIN s => r[i] = t[i - Len(s)] /\ i - Len(s) \in DOMAIN t /\ r[i] \in Range(t)
  BY <1>2, <1>4
<1>6. IsInjective(r)
  <2> SUFFICES ASSUME NEW i \in DOMAIN r, NEW j \in DOMAIN r, r[i] = r[j]
               PROVE  i = j
    BY DEF IsInjective
  <2>1. CASE i \in DOMAIN s /\ j \in DOMAIN s
    BY <2>1, <1>3 DEF IsInjective
  <2>2. CASE i \notin DOMAIN s /\ j \notin DOMAIN s
    <3>1. i - Len(s) = j - Len(s)
      BY <2>2, <1>5 DEF IsInjective
    <3> QED
      BY <3>1, <1>1
  <2> QED
    BY <2>1, <2>2, <1>3, <1>5
<1>7. Range(r) = Range(s) \cup Range(t)
  <2>1. \A i \in DOMAIN r : r[i] \in Range(s) \cup Range(t)
    BY <1>3, <1>5
  <2>2. \A x \in Range(s) : \E i \in DOMAIN r : r[i] = x
    <3> SUFFICES ASSUME NEW k \in DOMAIN s PROVE \E i \in DOMAIN r : r[i] = s[k]
      BY DEF Range
    <3> QED BY <1>3
  <2>3. \A x \in Range(t) : \E i \in DOMAIN r : r[i] = x
    <3> SUFFICES ASSUME NEW k \in DOMAIN t PROVE \E i \in DOMAIN r : r[i] = t[k]
      BY DEF Range
    <3> QED BY <1>4
  <2>4. Range(r) \subseteq Range(s) \cup Range(t)
    BY <2>1 DEF Range
  <2>5. \A x : (\E i \in DOMAIN r : r[i] = x) => x \in Range(r)
    BY DEF Range
  <2> QED
    BY <2>2, <2>3, <2>4, <2>5, Zenon
<1> QED
  BY <1>1, <1>6, <1>7 DEF r

(* arch_list holds every implementation of the kernel once.                *)
LEMMA ArchListHoldsAll ==
  /\ ArchList \in Seq(ArchNames) /\ IsInjective(ArchList)
  /\ Range(ArchList) = ArchNames
<1> DEFINE names == [n \in DOMAIN Archs |-> Archs[n].name]
           NamesIn(S) == Picked(names, {n \in DOMAIN names : names[n] \in S})
           g == {"generic"}
           o == Generics \ {"generic"}
           r == ArchNames \ Generics
<1>1. names \in Seq(ArchNames) /\ IsInjective(names) /\ Range(names) = ArchNames
  <2>1. /\ DOMAIN Archs = 1 .. Len(Archs) /\ Len(Archs) \in Nat
        /\ \A n \in DOMAIN Archs : names[n] \in ArchNames
    BY ArchsAssumption DEF ArchNames
  <2>2. names \in Seq(ArchNames)
    BY <2>1
  <2> QED
    BY <2>2, ArchsAssumption DEF IsInjective, Range, ArchNames
<1>2. ArchList = NamesIn(g) \o NamesIn(o) \o NamesIn(r)
  BY DEF ArchList
<1> HIDE DEF names
<1>3. ASSUME NEW S
      PROVE  /\ NamesIn(S) \in Seq(ArchNames) /\ IsInjective(NamesIn(S))
             /\ Range(NamesIn(S)) = ArchNames \cap S
  <2> DEFINE D == {n \in DOMAIN names : names[n] \in S}
  <2>1. D \subseteq DOMAIN names
    OBVIOUS
  <2>2. {names[i] : i \in D} = ArchNames \cap S
    BY <1>1 DEF Range
  <2> HIDE DEF D
  <2>3. /\ Picked(names, D) \in Seq(ArchNames) /\ IsInjective(Picked(names, D))
        /\ Range(Picked(names, D)) = {names[i] : i \in D}
    BY <1>1, <2>1, PickedInOrder
  <2> QED
    BY <2>2, <2>3 DEF D
<1> HIDE DEF NamesIn
<1>4. /\ NamesIn(g) \in Seq(ArchNames) /\ IsInjective(NamesIn(g))
      /\ Range(NamesIn(g)) = ArchNames \cap g
      /\ NamesIn(o) \in Seq(ArchNames) /\ IsInjective(NamesIn(o))
      /\ Range(NamesIn(o)) = ArchNames \cap o
      /\ NamesIn(r) \in Seq(ArchNames) /\ IsInjective(NamesIn(r))
      /\ Range(NamesIn(r)) = ArchNames \cap r
  BY <1>3
<1>5. /\ g \cap o = {} /\ (g \cup o) \cap r = {}
      /\ ArchNames \cap (g \cup o \cup r) = ArchNames
  BY ArchsAssumption
<1> HIDE DEF g, o, r
<1> DEFINE go == NamesIn(g) \o NamesIn(o)
<1>6. /\ go \in Seq(ArchNames) /\ IsInjective(go)
      /\ Range(go) = Range(NamesIn(g)) \cup Range(NamesIn(o))
  <2>1. Range(NamesIn(g)) \cap Range(NamesIn(o)) = {}
    BY <1>4, <1>5
  <2> QED
    BY <1>4, <2>1, JoinedInOrder
<1>2a. ArchList = go \o NamesIn(r)
  BY <1>2
<1> HIDE DEF go
<1>7. /\ go \o NamesIn(r) \in Seq(ArchNames)
      /\ IsInjective(go \o NamesIn(r))
      /\ Range(go \o NamesIn(r)) = Range(go) \cup Range(NamesIn(r))
  <2>1. Range(go) \cap Range(NamesIn(r)) = {}
    BY <1>4, <1>5, <1>6
  <2> QED
    BY <1>4, <1>6, <2>1, JoinedInOrder
<1>8. Range(ArchList) = ArchNames
  BY <1>2a, <1>4, <1>5, <1>6, <1>7
<1> QED
  BY <1>2a, <1>7, <1>8

LEMMA ArchListCounted ==
  /\ Len(ArchList) \in Nat /\ 1 <= Len(ArchList)
  /\ DOMAIN ArchList = 1 .. Len(ArchList)
  /\ \A n \in 1 .. Len(ArchList) : ArchList[n] \in ArchNames
  /\ \A n, m \in 1 .. Len(ArchList) : ArchList[n] = ArchList[m] => n = m
  /\ ArchNames = {ArchList[n] : n \in 1 .. Len(ArchList)}
  /\ GenericOffset \in 1 .. Len(ArchList) /\ ArchList[GenericOffset] = "generic"
<1>1. /\ Len(ArchList) \in Nat /\ DOMAIN ArchList = 1 .. Len(ArchList)
      /\ \A n \in 1 .. Len(ArchList) : ArchList[n] \in ArchNames
  BY ArchListHoldsAll
<1>2. \A n, m \in 1 .. Len(ArchList) : ArchList[n] = ArchList[m] => n = m
  BY <1>1, ArchListHoldsAll DEF IsInjective
<1>3. ArchNames = {ArchList[n] : n \in 1 .. Len(ArchList)}
  BY <1>1, ArchListHoldsAll DEF Range
<1>4. "generic" \in ArchNames
  BY ArchsAssumption DEF ArchNames
<1>5. \E n \in 1 .. Len(ArchList) : ArchList[n] = "generic"
  BY <1>3, <1>4
<1>6. GenericOffset \in 1 .. Len(ArchList) /\ ArchList[GenericOffset] = "generic"
  BY <1>1, <1>5 DEF GenericOffset
<1>7. 1 <= Len(ArchList)
  BY <1>1, <1>5
<1> QED
  BY <1>1, <1>2, <1>3, <1>6, <1>7

LEMMA InitTestsInv == TestsInit => TestsInv
<1> SUFFICES ASSUME TestsInit PROVE TestsInv
  OBVIOUS
<1>1. DOMAIN pass = {} /\ Len(times) = 0 /\ 1 .. 1 - 1 = {}
  <2>1. times = <<>> /\ pass = [n \in {} |-> TRUE]
    BY DEF TestsInit
  <2> QED
    BY <2>1
<1>2. TestsTypeOK
  <2>a. times = <<>> /\ archResults = <<>> /\ archIndex = 1 /\ output = 1
    BY DEF TestsInit
  <2>1. times \in Seq(Times) /\ archResults \in Seq(BOOLEAN)
    BY <2>a
  <2>2. archIndex \in 1 .. Len(ArchList) /\ output \in 1 .. Outputs + 1
    <3>1. Len(ArchList) \in Nat /\ 1 <= Len(ArchList) /\ Outputs \in Nat
      BY ArchListCounted, TestsAssumption
    <3> QED BY <2>a, <3>1
  <2>3. testsPc \in {"run", "compare", "select", "done", "none"}
    BY DEF TestsInit
  <2>4. /\ DOMAIN pass \subseteq ArchNames /\ fail \in BOOLEAN /\ failGlobal \in BOOLEAN
        /\ differed \subseteq (1 .. Len(ArchList)) \X (1 .. Outputs)
    BY <1>1 DEF TestsInit
  <2> QED
    BY <2>1, <2>2, <2>3, <2>4 DEF TestsTypeOK
<1>3. Running
  <2>1. /\ archIndex = 1 /\ output = 1 /\ fail = FALSE /\ failGlobal = FALSE
        /\ archResults = <<>> /\ differed = {}
    BY DEF TestsInit
  <2>2. {ArchList[n] : n \in 1 .. 1 - 1} = {}
    BY <1>1, Zenon
  <2> QED
    BY <1>1, <2>1, <2>2 DEF Running
<1> QED
  BY <1>2, <1>3 DEF TestsInv, TestsInit, Compared, Comparing, Selecting

LEMMA RunArchTestsInv ==
  ASSUME TestsInv, NEW time \in Times, RunArch(time)
  PROVE  TestsInv'
<1> USE ArchListCounted
<1>1. /\ testsPc = "run" /\ TestsTypeOK /\ Running
      /\ archIndex \in 1 .. Len(ArchList) /\ times \in Seq(Times)
  BY DEF TestsInv, RunArch, TestsTypeOK
<1>2. times' \in Seq(Times) /\ Len(times') = archIndex
  <2>0. Len(ArchList) \in Nat
    BY ArchListCounted
  <2>a. times' = Append(times, time) /\ Len(times) = archIndex - 1
    BY <1>1 DEF RunArch, Running
  <2>1. times' = Append(times, time) /\ Len(times) = archIndex - 1 /\ archIndex \in Nat
    BY <1>1, <2>0, <2>a
  <2> QED
    BY <1>1, <2>1
<1>3. /\ DOMAIN pass' = {ArchList[n] : n \in 1 .. archIndex}
      /\ \A name \in DOMAIN pass' : pass'[name] = TRUE
  <2>1. /\ DOMAIN pass' = DOMAIN pass \cup {ArchList[archIndex]}
        /\ \A name \in DOMAIN pass' : pass'[name] = TRUE
    BY <1>1 DEF RunArch, Running
  <2>2. 1 .. archIndex = (1 .. archIndex - 1) \cup {archIndex}
    BY <1>1
  <2> QED
    BY <1>1, <2>1, <2>2 DEF Running
<1>4. UNCHANGED <<output, fail, archResults, failGlobal, best, differed>>
  BY DEF RunArch
<1>5. output = 1 /\ fail = FALSE /\ failGlobal = FALSE /\ archResults = <<>> /\ differed = {}
  BY <1>1 DEF Running
<1>6. \/ archIndex = Len(ArchList) /\ testsPc' = "compare" /\ archIndex' = 1
      \/ archIndex # Len(ArchList) /\ archIndex' = archIndex + 1 /\ testsPc' = "run"
  BY <1>1 DEF RunArch
<1>7. DOMAIN pass' \subseteq ArchNames
  BY <1>1, <1>3
<1>8. TestsTypeOK'
  <2>1. archIndex' \in 1 .. Len(ArchList)
    <3>1. \A m \in Nat : archIndex \in 1 .. m /\ archIndex # m => archIndex + 1 \in 1 .. m
      OBVIOUS
    <3>2. 1 \in 1 .. Len(ArchList)
      OBVIOUS
    <3> QED
      BY <1>1, <1>6, <3>1, <3>2, Zenon
  <2>2. testsPc' \in {"run", "compare", "select", "done", "none"}
    BY <1>6
  <2>3. /\ fail' \in BOOLEAN /\ failGlobal' \in BOOLEAN /\ archResults' \in Seq(BOOLEAN)
        /\ output' \in 1 .. Outputs + 1
        /\ differed' \subseteq (1 .. Len(ArchList)) \X (1 .. Outputs)
    BY <1>1, <1>4 DEF TestsTypeOK
  <2> QED
    BY <1>2, <1>7, <2>1, <2>2, <2>3 DEF TestsTypeOK
<1>9. Running'
  <2> SUFFICES ASSUME testsPc' = "run" PROVE Running'
    BY DEF Running
  <2>1. archIndex' - 1 = archIndex
    <3>1. archIndex \in Nat
      BY <1>1
    <3>2. archIndex' = archIndex + 1
      BY <1>6, Zenon
    <3> QED BY <3>1, <3>2
  <2> QED
    BY <1>2, <1>3, <1>4, <1>5, <2>1 DEF Running
<1>10. Compared'
  <2> SUFFICES ASSUME testsPc' = "compare" PROVE Compared'
    BY <1>6 DEF Compared
  <2>1. archIndex = Len(ArchList)
    BY <1>6
  <2>2. DOMAIN pass' = ArchNames
    BY <1>3, <2>1
  <2>3. pass' \in [ArchNames -> BOOLEAN]
    <3>1. pass' = [n \in DOMAIN pass' |-> pass'[n]]
      BY DEF RunArch
    <3> QED BY <1>3, <2>2, <3>1
  <2>4. \A n : Agrees(n)'
    BY <1>4, <1>5 DEF Agrees
  <2>5. \A n \in 1 .. Len(ArchList) : pass'[ArchList[n]] = TRUE
    BY <1>3, <2>2
  <2> QED
    BY <1>2, <1>4, <1>5, <2>1, <2>3, <2>4, <2>5 DEF Compared
<1>11. Comparing'
  BY <1>4, <1>5, <1>6 DEF Comparing
<1>12. Selecting'
  BY <1>6 DEF Selecting
<1> QED
  BY <1>8, <1>9, <1>10, <1>11, <1>12 DEF TestsInv

LEMMA CompareOutputTestsInv ==
  ASSUME TestsInv, NEW differs \in BOOLEAN, CompareOutput(differs)
  PROVE  TestsInv'
<1> USE ArchListCounted
<1> DEFINE here == <<archIndex, output>>
           was == differed
<1>1. /\ testsPc = "compare" /\ TestsTypeOK /\ Compared /\ Comparing
      /\ archIndex \in 1 .. Len(ArchList) /\ output \in Nat /\ 1 <= output /\ output <= Outputs
      /\ Outputs \in Nat
      /\ archIndex # GenericOffset
  BY TestsAssumption DEF TestsInv, CompareOutput, TestsTypeOK, MoreOutputs
<1>2. /\ fail' = differs /\ output' = output + 1
      /\ UNCHANGED <<testsPc, archIndex, times, archResults, best>>
  BY DEF CompareOutput
<1>3. differed' = IF differs THEN differed \cup {here} ELSE differed
  BY DEF CompareOutput
<1>4. pass' = IF differs THEN [pass EXCEPT ![ArchList[archIndex]] = FALSE] ELSE pass
  BY DEF CompareOutput
<1>5. failGlobal' = IF differs THEN TRUE ELSE failGlobal
  BY DEF CompareOutput
<1>6. here \in (1 .. Len(ArchList)) \X (1 .. Outputs) /\ here \notin differed
  <2>1. output \in 1 .. Outputs
    BY <1>1
  <2>2. ~(archIndex < archIndex) /\ ~(output < output)
    BY <1>1
  <2> QED
    BY <1>1, <2>1, <2>2 DEF Comparing
<1>7. pass' \in [ArchNames -> BOOLEAN]
  BY <1>1, <1>4 DEF Compared
<1>8. TestsTypeOK'
  <2>1. output' \in 1 .. Outputs + 1
    BY <1>1, <1>2
  <2>2. differed' \subseteq (1 .. Len(ArchList)) \X (1 .. Outputs)
    BY <1>1, <1>3, <1>6 DEF TestsTypeOK
  <2>3. DOMAIN pass' \subseteq ArchNames
    BY <1>7
  <2>4. fail' \in BOOLEAN /\ failGlobal' \in BOOLEAN
    BY <1>1, <1>2, <1>5 DEF TestsTypeOK
  <2> QED
    BY <1>1, <1>2, <2>1, <2>2, <2>3, <2>4 DEF TestsTypeOK
<1>9. Running'
  BY <1>1, <1>2 DEF Running
<1>10. Compared'
  <2>1. failGlobal' <=> differed' # {}
    BY <1>1, <1>3, <1>5 DEF Compared
  <2>2. \A n \in 1 .. Len(ArchList) : n # archIndex => (Agrees(n)' <=> Agrees(n))
    BY <1>3 DEF Agrees
  <2>3. Agrees(archIndex)' <=> ~differs /\ Agrees(archIndex)
    <3>1. output \in 1 .. Outputs
      BY <1>1
    <3>2. differs => ~ \A k \in 1 .. Outputs : <<archIndex, k>> \notin differed'
      BY <1>3, <3>1
    <3>3. ~differs => differed' = differed
      BY <1>3
    <3> QED BY <1>2, <3>2, <3>3 DEF Agrees
  <2>4. \A n \in 1 .. Len(ArchList) : pass'[ArchList[n]] <=> Agrees(n)'
    <3> SUFFICES ASSUME NEW n \in 1 .. Len(ArchList) PROVE pass'[ArchList[n]] <=> Agrees(n)'
      OBVIOUS
    <3>1. pass[ArchList[n]] <=> Agrees(n)
      BY <1>1 DEF Compared
    <3>2. CASE n = archIndex
      <4>1. pass'[ArchList[n]] <=> ~differs /\ pass[ArchList[n]]
        BY <1>1, <1>4, <3>2 DEF Compared
      <4> QED BY <3>1, <3>2, <4>1, <2>3, <1>2
    <3>3. CASE n # archIndex
      <4>1. ArchList[n] # ArchList[archIndex]
        BY <1>1, <3>3
      <4>2. pass'[ArchList[n]] = pass[ArchList[n]]
        BY <1>1, <1>4, <4>1 DEF Compared
      <4> QED BY <3>1, <3>3, <4>2, <2>2
    <3> QED BY <3>2, <3>3
  <2>5. Agrees(GenericOffset)'
    BY <1>1, <2>2 DEF Compared
  <2>6. \A n \in DOMAIN archResults : n # archIndex
    <3>1. DOMAIN archResults = 1 .. archIndex - 1
      BY <1>1 DEF Comparing, TestsTypeOK
    <3> QED BY <1>1, <3>1
  <2>7. \A n \in DOMAIN archResults' : archResults'[n] <=> <<n, Outputs>> \notin differed'
    BY <1>1, <1>2, <1>3, <2>6 DEF Compared
  <2>8. Len(times') = Len(ArchList)
    BY <1>1, <1>2 DEF Compared
  <2> QED
    BY <1>7, <2>1, <2>4, <2>5, <2>7, <2>8 DEF Compared
<1>11. Comparing'
  <2>1. \A n \in 1 .. Len(ArchList), k \in 1 .. Outputs :
          <<n, k>> \in differed' => n < archIndex \/ (n = archIndex /\ k < output + 1)
    BY <1>1, <1>3 DEF Comparing
  <2>2. output' - 1 = output /\ output' > 1
    BY <1>1, <1>2
  <2>3. fail' <=> output' > 1 /\ <<archIndex', output' - 1>> \in differed'
    BY <1>2, <1>3, <1>6, <2>2
  <2>4. Len(archResults') = archIndex' - 1
    BY <1>1, <1>2 DEF Comparing
  <2> QED
    BY <1>1, <1>2, <2>1, <2>3, <2>4 DEF Comparing
<1>12. Selecting'
  BY <1>1, <1>2 DEF Selecting
<1> QED
  BY <1>8, <1>9, <1>10, <1>11, <1>12 DEF TestsInv

LEMMA FinishArchTestsInv ==
  ASSUME TestsInv, FinishArch
  PROVE  TestsInv'
<1> USE ArchListCounted
<1>1. /\ testsPc = "compare" /\ TestsTypeOK /\ Compared /\ Comparing
      /\ archIndex \in 1 .. Len(ArchList) /\ output \in 1 .. Outputs + 1
      /\ Outputs \in Nat /\ Outputs # 0
      /\ archIndex = GenericOffset \/ output = Outputs + 1
  <2>1. /\ testsPc = "compare" /\ TestsTypeOK /\ Compared /\ Comparing
        /\ archIndex \in 1 .. Len(ArchList) /\ output \in 1 .. Outputs + 1
        /\ archIndex = GenericOffset \/ ~(output <= Outputs)
    BY DEF TestsInv, FinishArch, TestsTypeOK, MoreOutputs
  <2> QED
    BY <2>1, TestsAssumption
<1>2. /\ archResults' = Append(archResults, ~fail)
      /\ fail' = FALSE /\ output' = 1
      /\ UNCHANGED <<times, pass, failGlobal, best, differed>>
  BY DEF FinishArch
<1>3. \/ archIndex = Len(ArchList) /\ testsPc' = "select" /\ archIndex' = archIndex
      \/ archIndex # Len(ArchList) /\ archIndex' = archIndex + 1 /\ testsPc' = "compare"
  BY <1>1 DEF FinishArch
<1>4. ~fail <=> <<archIndex, Outputs>> \notin differed
  <2>1. CASE archIndex = GenericOffset
    <3>1. ~fail
      BY <1>1, <2>1 DEF Comparing
    <3>2. Outputs \in 1 .. Outputs
      BY <1>1
    <3> QED BY <1>1, <2>1, <3>1, <3>2 DEF Compared, Agrees
  <2>2. CASE output = Outputs + 1
    <3>1. output - 1 = Outputs /\ output > 1
      BY <1>1, <2>2
    <3> QED BY <1>1, <3>1 DEF Comparing
  <2> QED BY <1>1, <2>1, <2>2
<1>5. archResults \in Seq(BOOLEAN) /\ Len(archResults) = archIndex - 1 /\ fail \in BOOLEAN
  BY <1>1 DEF TestsTypeOK, Comparing
<1>6. /\ archResults' \in Seq(BOOLEAN) /\ Len(archResults') = archIndex
      /\ DOMAIN archResults' = 1 .. archIndex
      /\ \A n \in 1 .. archIndex - 1 : archResults'[n] = archResults[n]
      /\ archResults'[archIndex] = ~fail
  BY <1>1, <1>2, <1>5
<1>7. \A n \in DOMAIN archResults' : archResults'[n] <=> <<n, Outputs>> \notin differed
  <2> SUFFICES ASSUME NEW n \in 1 .. archIndex
               PROVE  archResults'[n] <=> <<n, Outputs>> \notin differed
    BY <1>6
  <2>1. CASE n = archIndex
    BY <2>1, <1>4, <1>6
  <2>2. CASE n # archIndex
    <3>1. n \in 1 .. archIndex - 1 /\ DOMAIN archResults = 1 .. archIndex - 1
      BY <2>2, <1>1, <1>5
    <3> QED BY <3>1, <1>1, <1>6 DEF Compared
  <2> QED BY <2>1, <2>2
<1>8. TestsTypeOK'
  <2>1. archIndex' \in 1 .. Len(ArchList) /\ output' \in 1 .. Outputs + 1
    <3>1. Len(ArchList) \in Nat
      BY ArchListCounted
    <3>2. archIndex' \in 1 .. Len(ArchList)
      <4>1. archIndex \in 1 .. Len(ArchList)
        BY <1>1
      <4>2. CASE archIndex' = archIndex
        BY <4>1, <4>2
      <4>3. CASE archIndex # Len(ArchList) /\ archIndex' = archIndex + 1
        BY <3>1, <4>1, <4>3
      <4> QED
        BY <1>3, <4>2, <4>3
    <3>3. output' \in 1 .. Outputs + 1
      BY <1>1, <1>2
    <3> QED
      BY <3>2, <3>3
  <2> QED
    BY <1>1, <1>2, <1>3, <1>6, <2>1 DEF TestsTypeOK
<1>9. Running'
  BY <1>3 DEF Running
<1>10. Compared'
  <2>1. \A n : Agrees(n)' <=> Agrees(n)
    BY <1>2 DEF Agrees
  <2> QED BY <1>1, <1>2, <1>7, <2>1 DEF Compared
<1>11. Comparing'
  <2> SUFFICES ASSUME testsPc' = "compare" PROVE Comparing'
    BY DEF Comparing
  <2>1. archIndex' = archIndex + 1
    BY <1>3
  <2>2. \A n \in 1 .. Len(ArchList), k \in 1 .. Outputs : <<n, k>> \in differed => n < archIndex + 1
    BY <1>1 DEF Comparing
  <2>3. Len(archResults') = archIndex' - 1
    BY <1>1, <1>6, <2>1
  <2>4. ~(output' > 1)
    BY <1>2
  <2> QED BY <1>2, <2>1, <2>2, <2>3, <2>4 DEF Comparing
<1>12. Selecting'
  BY <1>3, <1>6 DEF Selecting
<1> QED
  BY <1>8, <1>9, <1>10, <1>11, <1>12 DEF TestsInv

LEMMA SelectTestsInv ==
  ASSUME TestsInv, Select
  PROVE  TestsInv'
<1>1. /\ testsPc = "select" /\ testsPc' = "done"
      /\ UNCHANGED <<archIndex, output, fail, times, archResults, pass, failGlobal, differed>>
      /\ best' = [a |-> Fastest(Passing), u |-> Fastest({n \in Passing : ~RequiresAlignment(n)})]
  BY DEF Select
<1>2. \A C : Fastest(C)' = Fastest(C)
  BY <1>1 DEF Fastest
<1>3. Passing' = Passing
  BY <1>1 DEF Passing
<1>4. best'.a = Fastest(Passing) /\ best'.u = Fastest({n \in Passing : ~RequiresAlignment(n)})
  BY <1>1
<1>5. Selecting'
  BY <1>1, <1>2, <1>3, <1>4 DEF Selecting, TestsInv
<1>6. \A n : Agrees(n)' <=> Agrees(n)
  BY <1>1 DEF Agrees
<1>7. Compared'
  BY <1>1, <1>6 DEF Compared, TestsInv
<1> QED
  BY <1>1, <1>5, <1>7 DEF TestsInv, TestsTypeOK, Running, Comparing

LEMMA TestsInvariantHolds == TestsSpec => []TestsInv
<1>1. TestsInv /\ [TestsNext]_testsVars => TestsInv'
  <2> SUFFICES ASSUME TestsInv, [TestsNext]_testsVars PROVE TestsInv'
    OBVIOUS
  <2>1. ASSUME UNCHANGED testsVars PROVE TestsInv'
    <3>1. /\ \A n : Agrees(n)' <=> Agrees(n)
          /\ \A C : Fastest(C)' = Fastest(C)
          /\ Passing' = Passing
      BY <2>1 DEF testsVars, Agrees, Fastest, Passing
    <3> QED
      BY <2>1, <3>1 DEF testsVars, TestsInv, TestsTypeOK, Running, Compared, Comparing, Selecting
  <2> QED
    BY <2>1, RunArchTestsInv, CompareOutputTestsInv, FinishArchTestsInv, SelectTestsInv DEF TestsNext, Returned
<1> QED
  BY <1>1, InitTestsInv, PTL DEF TestsSpec

(* The scan finds one of the fastest candidates.                           *)
LEMMA FastestIsFastest ==
  ASSUME TestsInv, testsPc = "done", NEW C, C \subseteq DOMAIN ArchList, C # {}
  PROVE  \E n \in C : Fastest(C) = ArchList[n] /\ \A m \in C : times[n] <= times[m]
<1>1. C \subseteq Nat /\ \A n \in C : times[n] \in Nat
  <2>1. /\ times \in Seq(Times) /\ Len(times) = Len(ArchList)
        /\ DOMAIN ArchList = 1 .. Len(ArchList) /\ Len(ArchList) \in Nat
    BY ArchListCounted DEF TestsInv, TestsTypeOK, Compared
  <2>2. DOMAIN times = 1 .. Len(ArchList) /\ \A n \in DOMAIN times : times[n] \in Times
    BY <2>1
  <2>3. \A n \in C : n \in Nat /\ n \in DOMAIN times
    BY <2>1, <2>2
  <2> QED
    BY <2>2, <2>3, TestsAssumption
<1> DEFINE F(n) == \A m \in C : times[n] < times[m] \/ (times[n] = times[m] /\ n <= m)
           spans == {times[n] : n \in C}
<1>2. PICK t \in spans : \A x \in spans : t <= x
  BY <1>1, LeastExists
<1> DEFINE D == {n \in C : times[n] = t}
<1>3. PICK n \in D : \A m \in D : n <= m
  <2>1. D \subseteq Nat /\ D # {}
    BY <1>1, <1>2
  <2> HIDE DEF D
  <2> QED
    BY <2>1, LeastExists
<1>4. F(n)
  <2> SUFFICES ASSUME NEW m \in C PROVE times[n] < times[m] \/ (times[n] = times[m] /\ n <= m)
    OBVIOUS
  <2>1. times[n] = t /\ t <= times[m] /\ t \in Nat /\ times[m] \in Nat
    BY <1>1, <1>2, <1>3
  <2>2. times[m] = t => n <= m
    BY <1>3
  <2> QED
    BY <2>1, <2>2
<1>5. Fastest(C) = ArchList[CHOOSE k \in C : F(k)]
  BY DEF Fastest
<1> HIDE DEF F
<1>6. PICK k \in C : k = (CHOOSE j \in C : F(j)) /\ F(k)
  BY <1>3, <1>4
<1>7. \A m \in C : times[k] <= times[m]
  BY <1>1, <1>6 DEF F
<1> QED
  BY <1>5, <1>6, <1>7

(* What the two choices are at the end.                                    *)
LEMMA ChoicesAtEnd ==
  ASSUME TestsInv, testsPc = "done"
  PROVE  LET Unaligned == {n \in Passing : ~RequiresAlignment(n)}
         IN  /\ Passing = {n \in DOMAIN ArchList : <<n, Outputs>> \notin differed}
             /\ \E n \in Passing : best.a = ArchList[n] /\ \A m \in Passing : times[n] <= times[m]
             /\ \E n \in Unaligned : best.u = ArchList[n] /\ \A m \in Unaligned : times[n] <= times[m]
<1> DEFINE Unaligned == {n \in Passing : ~RequiresAlignment(n)}
<1>1. /\ Len(archResults) = Len(ArchList) /\ Len(ArchList) \in Nat /\ archResults \in Seq(BOOLEAN)
      /\ DOMAIN ArchList = 1 .. Len(ArchList)
      /\ best.a = Fastest(Passing) /\ best.u = Fastest(Unaligned)
  BY ArchListCounted DEF TestsInv, Selecting, TestsTypeOK
<1>2. DOMAIN archResults = DOMAIN ArchList
  BY <1>1
<1>3. Passing = {n \in DOMAIN ArchList : <<n, Outputs>> \notin differed}
  BY <1>2 DEF Passing, TestsInv, Compared
<1>4. GenericOffset \in Passing
  <2>1. Outputs \in 1 .. Outputs
    BY TestsAssumption
  <2>2. Agrees(GenericOffset)
    BY DEF TestsInv, Compared
  <2> QED
    BY <1>3, <2>1, <2>2, ArchListCounted DEF Agrees
<1>5. ~RequiresAlignment(GenericOffset)
  <2>1. \A m \in DOMAIN Archs : Archs[m].name = "generic" => ~Archs[m].aligned
    BY ArchsAssumption
  <2> QED
    BY <2>1, ArchListCounted DEF RequiresAlignment
<1>6. Passing \subseteq DOMAIN ArchList /\ Passing # {}
  BY <1>3, <1>4
<1>7. Unaligned \subseteq DOMAIN ArchList /\ Unaligned # {}
  BY <1>4, <1>5, <1>6
<1>8. \E n \in Passing : best.a = ArchList[n] /\ \A m \in Passing : times[n] <= times[m]
  BY <1>1, <1>6, FastestIsFastest
<1> HIDE DEF Unaligned
<1>9. \E n \in Unaligned : best.u = ArchList[n] /\ \A m \in Unaligned : times[n] <= times[m]
  BY <1>1, <1>7, FastestIsFastest
<1> QED
  BY <1>3, <1>8, <1>9 DEF Unaligned

(* The loops over outputs and implementations stay within their ends, and  *)
(* what is recorded of a test keeps its shape (run_volk_tests).            *)
THEOREM TestsTypes == TestsSpec => []TestsTypeOK
<1>1. TestsInv => TestsTypeOK
  BY DEF TestsInv
<1> QED
  BY <1>1, TestsInvariantHolds, PTL

(* The choices agree with generic in the output compared last, and the one *)
(* for unaligned buffers has no alignment requirement.                     *)
THEOREM ChoicesAreAdmissible == TestsSpec => []ChoiceAdmissible
<1>1. ASSUME TestsInv PROVE ChoiceAdmissible
  <2> SUFFICES ASSUME testsPc = "done"
      PROVE  /\ \A n \in DOMAIN ArchList :
                  ArchList[n] \in {best.a, best.u} => <<n, Outputs>> \notin differed
             /\ \E n \in DOMAIN Archs : Archs[n].name = best.u /\ ~Archs[n].aligned
    BY DEF ChoiceAdmissible
  <2> DEFINE Good == {n \in DOMAIN ArchList : <<n, Outputs>> \notin differed}
  <2>1. PICK a \in Good : best.a = ArchList[a]
    BY <1>1, ChoicesAtEnd
  <2>2. PICK u \in Good : best.u = ArchList[u] /\ ~RequiresAlignment(u)
    BY <1>1, ChoicesAtEnd
  <2>3. \A n, m \in DOMAIN ArchList : ArchList[n] = ArchList[m] => n = m
    BY ArchListCounted
  <2>4. \A n \in DOMAIN ArchList :
          ArchList[n] \in {best.a, best.u} => <<n, Outputs>> \notin differed
    BY <2>1, <2>2, <2>3
  <2>5. PICK m \in DOMAIN Archs : Archs[m].name = best.u
    <3>1. best.u \in ArchNames
      BY <2>2, ArchListCounted
    <3> QED
      BY <3>1 DEF ArchNames
  <2>6. ~Archs[m].aligned
    BY <2>2, <2>5 DEF RequiresAlignment
  <2> QED
    BY <2>4, <2>5, <2>6
<1> QED
  BY <1>1, TestsInvariantHolds, PTL

(* No implementation that agrees with generic is faster than the choices.  *)
THEOREM NothingIsFaster == TestsSpec => []NothingFaster
<1>1. ASSUME TestsInv PROVE NothingFaster
  <2> SUFFICES ASSUME testsPc = "done", NEW n \in DOMAIN ArchList, NEW b \in DOMAIN ArchList,
                      \A k \in 1 .. Outputs : <<n, k>> \notin differed
      PROVE  /\ ArchList[b] = best.a => times[b] <= times[n]
             /\ ArchList[b] = best.u /\ ~RequiresAlignment(n) => times[b] <= times[n]
    BY DEF NothingFaster
  <2>1. Outputs \in 1 .. Outputs
    BY TestsAssumption
  <2>2. n \in Passing
    BY <1>1, <2>1, ChoicesAtEnd
  <2>3. \A i, j \in DOMAIN ArchList : ArchList[i] = ArchList[j] => i = j
    BY ArchListCounted
  <2>4. Passing \subseteq DOMAIN ArchList
    BY DEF Passing
  <2>5. ArchList[b] = best.a => times[b] <= times[n]
    <3>1. PICK a \in Passing : best.a = ArchList[a] /\ \A m \in Passing : times[a] <= times[m]
      BY <1>1, ChoicesAtEnd
    <3> QED
      BY <2>2, <2>3, <2>4, <3>1
  <2>6. ArchList[b] = best.u /\ ~RequiresAlignment(n) => times[b] <= times[n]
    <3>1. PICK u \in {m \in Passing : ~RequiresAlignment(m)} :
            /\ best.u = ArchList[u]
            /\ \A m \in {i \in Passing : ~RequiresAlignment(i)} : times[u] <= times[m]
      BY <1>1, ChoicesAtEnd
    <3> QED
      BY <2>2, <2>3, <2>4, <3>1
  <2> QED
    BY <2>5, <2>6
<1> QED
  BY <1>1, TestsInvariantHolds, PTL

(* The verdict, the records and the comparisons tell the same.             *)
THEOREM VerdictIsComplete == TestsSpec => []VerdictComplete
<1>1. ASSUME TestsInv PROVE VerdictComplete
  <2> SUFFICES ASSUME testsPc = "done" PROVE VerdictComplete
    BY DEF VerdictComplete
  <2>1. /\ \A n \in 1 .. Len(ArchList) : pass[ArchList[n]] <=> Agrees(n)
        /\ failGlobal <=> differed # {}
        /\ differed \subseteq (1 .. Len(ArchList)) \X (1 .. Outputs)
    BY <1>1 DEF TestsInv, Compared, TestsTypeOK
  <2>2. differed # {} <=> \E n \in 1 .. Len(ArchList) : ~Agrees(n)
    <3>1. ASSUME NEW d \in differed PROVE \E n \in 1 .. Len(ArchList) : ~Agrees(n)
      <4>1. PICK n \in 1 .. Len(ArchList), k \in 1 .. Outputs : d = <<n, k>>
        BY <2>1
      <4> QED
        BY <3>1, <4>1 DEF Agrees
    <3> QED
      BY <3>1 DEF Agrees
  <2>3. (\E name \in ArchNames : ~pass[name]) <=> \E n \in 1 .. Len(ArchList) : ~pass[ArchList[n]]
    BY ArchListCounted
  <2>4. failGlobal <=> \E name \in ArchNames : ~pass[name]
    BY <2>1, <2>2, <2>3
  <2>5. \A n \in DOMAIN ArchList :
          pass[ArchList[n]] <=> \A k \in 1 .. Outputs : <<n, k>> \notin differed
    BY <2>1, ArchListCounted DEF Agrees
  <2> QED
    BY <2>4, <2>5 DEF VerdictComplete
<1> QED
  BY <1>1, TestsInvariantHolds, PTL

-----------------------------------------------------------------------------
(***************************************************************************)
(* volk_test_all.  The invariant: the tests behind ii, and no others, have *)
(* been made and recorded, and there are as many failures as have failed.  *)
(***************************************************************************)
NotLaunched == argument = ""
EndSet == {Returns(d) : d \in Differing} \cup {Threw}
Failures == {n \in DOMAIN ends : Failed(ends[n])}

Recorded ==
  /\ ii \in 1 .. Len(TestCases) + 1
  /\ ends \in Seq(EndSet) /\ Len(ends) = ii - 1
  /\ suites \in Seq([name : STRING, differing : {d.differing : d \in EndSet}]) /\ Len(suites) = ii - 1
  /\ \A n \in 1 .. ii - 1 : suites[n] = Suite(n, ends[n])
  /\ qa_failures \in Seq(STRING) /\ Len(qa_failures) = Cardinality(Failures)
  /\ argument # Everything => ii = 1

ProgramInv ==
  /\ NotLaunched => status = "running"
  /\ status = "running" => Recorded
  /\ VerdictTold

LEMMA TestNumbers ==
  /\ Len(TestCases) \in Nat /\ DOMAIN TestCases = 1 .. Len(TestCases)
  /\ \A n \in 1 .. Len(TestCases) : TestCases[n] \in STRING
  /\ Everything \notin Range(TestCases)
<1>1. Len(TestCases) \in Nat /\ DOMAIN TestCases = 1 .. Len(TestCases)
  BY ProgramAssumption, SeqDomain
<1>2. \A n \in 1 .. Len(TestCases) : TestCases[n] \in STRING
  BY <1>1, ProgramAssumption, ElementOf
<1>3. Everything \notin Range(TestCases)
  BY ProgramAssumption DEF Range
<1> QED
  BY <1>1, <1>2, <1>3

(* As the program starts, nothing is recorded.                             *)
LEMMA NothingRecorded ==
  ASSUME ii = 1, ends = <<>>, suites = <<>>, qa_failures = <<>>
  PROVE  Recorded
<1>1. ii \in 1 .. Len(TestCases) + 1
  BY TestNumbers
<1>2. /\ Len(ends) = 0 /\ Len(suites) = 0 /\ Len(qa_failures) = 0 /\ DOMAIN ends = {}
      /\ ends \in Seq(EndSet) /\ qa_failures \in Seq(STRING)
      /\ suites \in Seq([name : STRING, differing : {d.differing : d \in EndSet}])
  OBVIOUS
<1>3. Failures = {}
  BY <1>2 DEF Failures
<1>4. Cardinality(Failures) = 0
  BY <1>3, FS_EmptySet
<1> QED
  BY <1>1, <1>2, <1>4 DEF Recorded

LEMMA FailuresCounted ==
  ASSUME Recorded
  PROVE  /\ DOMAIN ends = 1 .. ii - 1 /\ Failures \subseteq 1 .. ii - 1 /\ IsFiniteSet(Failures)
         /\ ii \in Nat
<1>1. ii \in Nat /\ DOMAIN ends = 1 .. ii - 1
  <2>1. ii \in 1 .. Len(TestCases) + 1 /\ ends \in Seq(EndSet) /\ Len(ends) = ii - 1
    BY DEF Recorded
  <2>2. DOMAIN ends = 1 .. Len(ends)
    BY <2>1, SeqDomain
  <2> QED
    BY <2>1, <2>2, TestNumbers
<1>2. Failures \subseteq 1 .. ii - 1
  BY <1>1 DEF Failures
<1>3. IsFiniteSet(1 .. ii - 1)
  BY <1>1, FS_Interval
<1> QED
  BY <1>1, <1>2, <1>3, FS_Subset

(* One more test among all.                                                *)
LEMMA TestOneRecorded ==
  ASSUME Recorded, NEW end \in EndSet, TestOne(end)
  PROVE  Recorded'
<1> DEFINE Suites == [name : STRING, differing : {d.differing : d \in EndSet}]
<1>1. /\ argument = Everything /\ ii <= Len(TestCases)
      /\ suites' = Append(suites, Suite(ii, end))
      /\ qa_failures' = IF Failed(end) THEN Append(qa_failures, TestCases[ii]) ELSE qa_failures
      /\ ends' = Append(ends, end) /\ ii' = ii + 1 /\ argument' = argument
  BY DEF TestOne
<1>2. /\ ii \in 1 .. Len(TestCases) /\ Len(TestCases) \in Nat /\ ii - 1 \in Nat
      /\ ii' \in 1 .. Len(TestCases) + 1 /\ ii' - 1 = ii
  BY <1>1, TestNumbers DEF Recorded
<1>3. Suite(ii, end) \in Suites /\ TestCases[ii] \in STRING
  BY <1>2, TestNumbers DEF Suite
<1>4. /\ ends \in Seq(EndSet) /\ Len(ends) = ii - 1 /\ suites \in Seq(Suites) /\ Len(suites) = ii - 1
      /\ qa_failures \in Seq(STRING) /\ Len(qa_failures) = Cardinality(Failures)
      /\ \A n \in 1 .. ii - 1 : suites[n] = Suite(n, ends[n])
  BY DEF Recorded
<1>5. /\ ends' \in Seq(EndSet) /\ Len(ends') = ii' - 1
      /\ \A n \in 1 .. ii - 1 : ends'[n] = ends[n]
      /\ ends'[ii] = end /\ DOMAIN ends' = 1 .. ii
  BY <1>1, <1>2, <1>4
<1> HIDE DEF Suites
<1>6. /\ suites' \in Seq(Suites) /\ Len(suites') = ii' - 1
      /\ \A n \in 1 .. ii - 1 : suites'[n] = suites[n]
      /\ suites'[ii] = Suite(ii, end)
  BY <1>1, <1>2, <1>3, <1>4
<1>7. \A n \in 1 .. ii' - 1 : suites'[n] = Suite(n, ends'[n])
  <2> SUFFICES ASSUME NEW n \in 1 .. ii PROVE suites'[n] = Suite(n, ends'[n])
    BY <1>2
  <2>1. n \in 1 .. ii - 1 \/ n = ii
    BY <1>2
  <2>2. CASE n \in 1 .. ii - 1
    BY <2>2, <1>4, <1>5, <1>6
  <2>3. CASE n = ii
    BY <2>3, <1>5, <1>6 DEF Suite
  <2> QED
    BY <2>1, <2>2, <2>3
<1>8. Failures' = IF Failed(end) THEN Failures \cup {ii} ELSE Failures
  <2>1. \A n \in 1 .. ii : n \in 1 .. ii - 1 \/ n = ii
    BY <1>2
  <2>2. 1 .. ii - 1 \subseteq 1 .. ii /\ ii \in 1 .. ii
    BY <1>2
  <2>3. Failures = {n \in 1 .. ii - 1 : Failed(ends[n])}
    BY FailuresCounted DEF Failures
  <2>4. Failures' = {n \in 1 .. ii : Failed(ends'[n])}
    BY <1>5 DEF Failures, Failed
  <2>5. \A n \in 1 .. ii - 1 : Failed(ends'[n]) <=> Failed(ends[n])
    BY <1>5
  <2>6. Failed(ends'[ii]) <=> Failed(end)
    BY <1>5 DEF Failed
  <2> QED
    BY <2>1, <2>2, <2>3, <2>4, <2>5, <2>6
<1>9. qa_failures' \in Seq(STRING) /\ Len(qa_failures') = Cardinality(Failures')
  <2>1. CASE Failed(end)
    <3>1. qa_failures' = Append(qa_failures, TestCases[ii]) /\ Failures' = Failures \cup {ii}
      BY <1>1, <1>8, <2>1
    <3>2. ii \notin Failures /\ IsFiniteSet(Failures)
      BY <1>2, FailuresCounted
    <3>3. Cardinality(Failures') = Cardinality(Failures) + 1
      BY <3>1, <3>2, FS_AddElement
    <3> QED
      BY <3>1, <3>3, <1>3, <1>4
  <2>2. CASE ~Failed(end)
    BY <2>2, <1>1, <1>4, <1>8
  <2> QED
    BY <2>1, <2>2
<1> QED
  BY <1>1, <1>2, <1>5, <1>6, <1>7, <1>9 DEF Recorded, Suites

LEMMA FinishTold ==
  ASSUME Recorded, Finish
  PROVE  VerdictTold'
<1>1. /\ argument = Everything /\ ii > Len(TestCases)
      /\ xml' = [failures |-> Len(qa_failures), suites |-> suites]
      /\ status' = IF qa_failures # <<>> THEN "failure" ELSE "success"
      /\ UNCHANGED <<argument, suites, ends>>
  BY DEF Finish
<1>2. /\ ii - 1 = Len(TestCases) /\ DOMAIN ends = DOMAIN TestCases
      /\ DOMAIN suites = DOMAIN TestCases
      /\ \A n \in DOMAIN TestCases : suites[n] = Suite(n, ends[n])
  <2>1. ii - 1 = Len(TestCases)
    BY <1>1, TestNumbers DEF Recorded
  <2>2. DOMAIN suites = 1 .. Len(suites)
    BY SeqDomain DEF Recorded
  <2> QED
    BY <2>1, <2>2, FailuresCounted, TestNumbers DEF Recorded
<1>3. qa_failures # <<>> <=> Failures # {}
  <2>1. qa_failures # <<>> <=> Len(qa_failures) # 0
    BY DEF Recorded
  <2>2. Cardinality(Failures) = 0 <=> Failures = {}
    BY FailuresCounted, FS_EmptySet
  <2> QED
    BY <2>1, <2>2 DEF Recorded
<1>4. [n \in DOMAIN suites |-> suites[n].name] = TestCases
  <2>1. \A n \in DOMAIN suites : suites[n].name = TestCases[n]
    BY <1>2 DEF Suite
  <2>2. TestCases = [n \in DOMAIN TestCases |-> TestCases[n]]
    BY ProgramAssumption
  <2> QED
    BY <2>1, <2>2, <1>2
<1>5. {n \in DOMAIN suites : suites[n].differing # {}} = Failures
  BY <1>2 DEF Suite, Failed, Failures
<1>6. xml'.failures = Cardinality(Failures) /\ xml'.suites = suites
  BY <1>1 DEF Recorded
<1> QED
  BY <1>1, <1>3, <1>4, <1>5, <1>6 DEF VerdictTold, Failures

LEMMA TestNamedTold ==
  ASSUME Recorded, NEW end \in EndSet, TestNamed(end)
  PROVE  VerdictTold'
<1>1. /\ argument \in Range(TestCases) /\ ends' = Append(ends, end)
      /\ status' = IF end = Threw THEN "aborted" ELSE IF Failed(end) THEN "failure" ELSE "success"
      /\ argument' = argument
  BY DEF TestNamed
<1>2. argument # Everything
  BY <1>1, TestNumbers
<1>3. ends = <<>>
  <2>1. ends \in Seq(EndSet) /\ Len(ends) = 0
    BY <1>2 DEF Recorded
  <2> QED
    BY <2>1
<1>4. DOMAIN ends' = {1} /\ ends'[1] = end
  BY <1>1, <1>3
<1>5. Range(ends') = {end} /\ Failures' = {n \in {1} : Failed(end)}
  BY <1>4 DEF Range, Failures
<1>6. ~Failed(Threw)
  BY DEF Failed, Threw
<1> QED
  BY <1>1, <1>2, <1>5, <1>6 DEF VerdictTold, Failures

LEMMA NoSuchTestTold ==
  ASSUME Recorded, NoSuchTest
  PROVE  VerdictTold'
<1>1. argument # Everything /\ argument' = argument /\ status' = "success" /\ ends' = ends
  BY DEF NoSuchTest
<1>2. ends = <<>>
  <2>1. ends \in Seq(EndSet) /\ Len(ends) = 0
    BY <1>1 DEF Recorded
  <2> QED
    BY <2>1
<1>3. DOMAIN ends' = {}
  BY <1>1, <1>2
<1>4. Range(ends') = {} /\ Failures' = {}
  BY <1>3 DEF Range, Failures
<1> QED
  BY <1>1, <1>4 DEF VerdictTold, Failures

LEMMA ProgramInvKept ==
  ASSUME ProgramInv, [ProgramNext]_programVars
  PROVE  ProgramInv'
<1>1. ASSUME NEW arg, Launch(arg) PROVE ProgramInv'
  <2>1. NotLaunched /\ UNCHANGED <<ii, suites, qa_failures, xml, status, ends>>
    BY <1>1 DEF Launch, NotLaunched
  <2>2. status = "running" /\ status' = "running" /\ Recorded
    BY <2>1 DEF ProgramInv
  <2>3. Recorded'
    <3>1. argument # Everything
      BY <2>1, Zenon DEF NotLaunched, Everything
    <3>2. ii = 1
      BY <2>2, <3>1 DEF Recorded
    <3>3. Failures' = Failures
      BY <2>1 DEF Failures
    <3> QED
      BY <2>1, <2>2, <3>2, <3>3 DEF Recorded, Suite
  <2> QED
    BY <2>2, <2>3 DEF ProgramInv, VerdictTold
<1>2. ASSUME NEW end \in EndSet, TestOne(end) PROVE ProgramInv'
  <2>1. status = "running" /\ status' = status /\ Recorded
    BY <1>2 DEF TestOne, Runs, ProgramInv
  <2>2. Recorded'
    BY <1>2, <2>1, TestOneRecorded
  <2> QED
    BY <2>1, <2>2 DEF ProgramInv, VerdictTold
<1>3. ASSUME Runs, argument' = argument, status' # "running", VerdictTold' PROVE ProgramInv'
  <2>1. ~NotLaunched'
    BY <1>3, Zenon DEF Runs, NotLaunched
  <2> QED
    BY <1>3, <2>1 DEF ProgramInv
<1>4. ASSUME NEW end \in EndSet, TestNamed(end) PROVE ProgramInv'
  <2>1. Runs /\ argument' = argument /\ status' # "running"
    BY <1>4 DEF TestNamed
  <2>2. Recorded
    BY <2>1 DEF ProgramInv, Runs
  <2> QED
    BY <1>3, <1>4, <2>1, <2>2, TestNamedTold
<1>5. CASE Finish
  <2>1. Runs /\ argument' = argument /\ status' # "running"
    BY <1>5 DEF Finish
  <2>2. Recorded
    BY <2>1 DEF ProgramInv, Runs
  <2> QED
    BY <1>3, <1>5, <2>1, <2>2, FinishTold
<1>6. CASE NoSuchTest
  <2>1. Runs /\ argument' = argument /\ status' # "running"
    BY <1>6 DEF NoSuchTest
  <2>2. Recorded
    BY <2>1 DEF ProgramInv, Runs
  <2> QED
    BY <1>3, <1>6, <2>1, <2>2, NoSuchTestTold
<1>7. CASE Exit
  <2>1. status' = "running" /\ ii' = 1 /\ suites' = <<>> /\ qa_failures' = <<>> /\ ends' = <<>>
    BY <1>7 DEF Exit
  <2>2. Recorded'
    <3>1. ii' \in 1 .. Len(TestCases) + 1
      BY <2>1, TestNumbers
    <3>2. /\ Len(ends') = 0 /\ Len(suites') = 0 /\ Len(qa_failures') = 0 /\ DOMAIN ends' = {}
          /\ ends' \in Seq(EndSet) /\ qa_failures' \in Seq(STRING)
          /\ suites' \in Seq([name : STRING, differing : {d.differing : d \in EndSet}])
      BY <2>1
    <3>3. Failures' = {}
      BY <3>2 DEF Failures
    <3>4. Cardinality(Failures') = 0
      BY <3>3, FS_EmptySet
    <3> QED
      BY <2>1, <3>1, <3>2, <3>4 DEF Recorded
  <2> QED
    BY <2>1, <2>2 DEF ProgramInv, VerdictTold
<1>8. CASE UNCHANGED programVars
  <2>1. UNCHANGED <<argument, ii, suites, qa_failures, xml, status, ends>>
    BY <1>8 DEF programVars
  <2>2. Failures' = Failures
    BY <2>1 DEF Failures
  <2>3. Recorded' <=> Recorded
    BY <2>1, <2>2 DEF Recorded, Suite
  <2>4. VerdictTold' <=> VerdictTold
    BY <2>1 DEF VerdictTold
  <2> QED
    BY <2>1, <2>3, <2>4 DEF ProgramInv, NotLaunched
<1>9. ASSUME NEW end \in {Returns(d) : d \in Differing} \cup {Threw}, TestOne(end) \/ TestNamed(end)
      PROVE  ProgramInv'
  BY <1>2, <1>4, <1>9 DEF EndSet
<1> QED
  BY <1>1, <1>5, <1>6, <1>7, <1>8, <1>9 DEF ProgramNext

(***************************************************************************)
(* For any list of tests, however each of them ends: what volk_test_all    *)
(* returns, and what kernels.xml says of each kernel and in total, is what *)
(* the tests found (main and print_qa_xml of lib/testqa.cc).               *)
(***************************************************************************)
THEOREM VerdictIsTold == ProgramSpec => []VerdictTold
<1>1. ProgramInit => ProgramInv
  <2> SUFFICES ASSUME ProgramInit PROVE ProgramInv
    OBVIOUS
  <2>1. status = "running" /\ ii = 1 /\ suites = <<>> /\ qa_failures = <<>> /\ ends = <<>>
    BY DEF ProgramInit
  <2> QED
    BY <2>1, NothingRecorded DEF ProgramInv, VerdictTold
<1>2. ProgramInv => VerdictTold
  BY DEF ProgramInv
<1> QED
  BY <1>1, <1>2, ProgramInvKept, PTL DEF ProgramSpec

-----------------------------------------------------------------------------
(* The comparisons of one output with another.  Differences and norms are  *)
(* compared by their squares, and what overflows is larger than any part   *)
(* that a tolerance allows.                                                *)
LEMMA SquaresOrdered ==
  ASSUME NEW a \in Nat, NEW b \in Nat
  PROVE  a > b <=> a * a > b * b
<1>1. ASSUME a > b PROVE a * a > b * b
  <2>1. PICK c \in Nat : a = b + c /\ c > 0
    <3>1. a - b \in Nat /\ a = b + (a - b) /\ a - b > 0
      BY <1>1
    <3> QED BY <3>1
  <2>2. a * a = b * b + (b * c + b * c) + c * c
    BY <2>1
  <2>3. b * c \in Nat /\ c * c \in Nat /\ c * c > 0 /\ b * b \in Nat
    BY <2>1
  <2> QED BY <2>2, <2>3
<1>2. ASSUME ~(a > b) PROVE ~(a * a > b * b)
  <2>1. PICK c \in Nat : b = a + c
    <3>1. b - a \in Nat /\ b = a + (b - a)
      BY <1>2
    <3> QED BY <3>1
  <2>2. b * b = a * a + (a * c + a * c) + c * c
    BY <2>1
  <2>3. a * c \in Nat /\ c * c \in Nat /\ a * a \in Nat
    BY <2>1
  <2> QED BY <2>2, <2>3
<1> QED BY <1>1, <1>2

(* Products are ordered as their factors.                                  *)
LEMMA ProductsOrdered ==
  ASSUME NEW a \in Nat, NEW b \in Nat, NEW c \in Nat, NEW d \in Nat, a <= b, c <= d
  PROVE  a * c <= b * d
<1>1. PICK x \in Nat : b = a + x
  <2>1. b - a \in Nat /\ b = a + (b - a)
    OBVIOUS
  <2> QED BY <2>1
<1>2. PICK y \in Nat : d = c + y
  <2>1. d - c \in Nat /\ d = c + (d - c)
    OBVIOUS
  <2> QED BY <2>1
<1>3. b * d = a * c + a * y + x * c + x * y
  BY <1>1, <1>2
<1>4. a * c \in Nat /\ a * y \in Nat /\ x * c \in Nat /\ x * y \in Nat
  BY <1>1, <1>2
<1> QED
  BY <1>3, <1>4

(* An error that overflows exceeds what the true one does.                 *)
AtMost(x) == IF x > Largest THEN Infinity ELSE x

LEMMA OverflowExceeds ==
  ASSUME NEW D \in Nat, NEW n \in Nat, NEW q \in Nat, NEW p \in Nat, q > 0,
         p * n <= Largest * q
  PROVE  AtMost(D) * q > p * n <=> D * q > p * n
<1>1. CASE D <= Largest
  BY <1>1, ComparisonAssumption DEF AtMost
<1>2. CASE D > Largest
  <2>1. AtMost(D) = Largest + 1 /\ Largest + 1 \in Nat /\ Largest + 1 <= D /\ Largest \in Nat
    BY <1>2, ComparisonAssumption DEF AtMost, Infinity
  <2>2. (Largest + 1) * q <= D * q
    BY <2>1, ProductsOrdered
  <2>3. (Largest + 1) * q = Largest * q + q /\ Largest * q \in Nat
    BY <2>1
  <2>4. p * n \in Nat /\ D * q \in Nat
    OBVIOUS
  <2> QED
    BY <2>1, <2>2, <2>3, <2>4
<1> QED
  BY <1>1, <1>2, ComparisonAssumption

LEMMA MagnitudeFacts ==
  ASSUME NEW x \in Int
  PROVE  /\ Magnitude(x) \in Nat /\ Magnitude(x) * Magnitude(x) = x * x
         /\ x * x \in Nat /\ Magnitude(x) <= x * x
         /\ (x * x = 0 <=> x = 0)
         /\ Magnitude(AsFloat(x)) = AtMost(Magnitude(x))
<1>1. CASE x < 0
  <2>1. PICK y \in Nat : x = -y /\ y > 0
    <3>1. -x \in Nat /\ x = -(-x) /\ -x > 0
      BY <1>1
    <3> QED BY <3>1
  <2>2. Magnitude(x) = y /\ x * x = y * y /\ y * y \in Nat
    BY <2>1 DEF Magnitude
  <2>3. y * y >= y /\ y * y > 0
    <3>1. y * y = y + y * (y - 1) /\ y - 1 \in Nat
      BY <2>1
    <3>2. y * (y - 1) \in Nat
      BY <3>1
    <3> QED BY <3>1, <3>2, <2>1
  <2>4. Magnitude(AsFloat(x)) = AtMost(y)
    BY <2>1, ComparisonAssumption DEF Magnitude, AsFloat, AtMost, Infinity
  <2> QED
    BY <2>1, <2>2, <2>3, <2>4
<1>2. CASE x >= 0
  <2>1. x \in Nat /\ Magnitude(x) = x /\ x * x \in Nat
    BY <1>2 DEF Magnitude
  <2>2. x * x >= x /\ (x * x = 0 <=> x = 0)
    <3>1. CASE x = 0
      BY <3>1
    <3>2. CASE x > 0
      <4>1. x * x = x + x * (x - 1) /\ x - 1 \in Nat
        BY <2>1, <3>2
      <4>2. x * (x - 1) \in Nat
        BY <4>1, <2>1
      <4> QED BY <4>1, <4>2, <2>1, <3>2
    <3> QED BY <2>1, <3>1, <3>2
  <2>3. Magnitude(AsFloat(x)) = AtMost(x)
    BY <2>1, ComparisonAssumption DEF Magnitude, AsFloat, AtMost, Infinity
  <2> QED
    BY <2>1, <2>2, <2>3
<1> QED
  BY <1>1, <1>2

LEMMA SquareOverflows ==
  ASSUME NEW x \in Int
  PROVE  Squared(AsFloat(x)) = AtMost(x * x) /\ AtMost(x * x) \in Nat
<1>1. x * x \in Nat /\ Magnitude(x) <= x * x /\ Magnitude(x) \in Nat
  BY MagnitudeFacts
<1>2. CASE Magnitude(x) <= Largest
  <2>1. AsFloat(x) = x
    BY <1>2, ComparisonAssumption DEF AsFloat, Magnitude
  <2> QED
    BY <2>1, <1>1, ComparisonAssumption DEF Squared, AsFloat, AtMost, Infinity
<1>3. CASE Magnitude(x) > Largest
  <2>1. AsFloat(x) \in {Infinity, -Infinity}
    BY <1>3, ComparisonAssumption DEF AsFloat, Magnitude
  <2> DEFINE M == Largest + 1
  <2>2. M \in Nat /\ M > 0 /\ Infinity = M
    BY ComparisonAssumption DEF Infinity
  <2>3. M * M >= M /\ M * M \in Nat
    <3> HIDE DEF M
    <3>1. M * M = M + M * (M - 1) /\ M - 1 \in Nat
      BY <2>2
    <3>2. M * (M - 1) \in Nat
      BY <3>1, <2>2
    <3> QED BY <3>1, <3>2, <2>2
  <2>4. AsFloat(x) * AsFloat(x) = M * M
    <3> HIDE DEF M
    <3> QED BY <2>1, <2>2
  <2>5. M * M > Largest
    BY <2>3, ComparisonAssumption
  <2>6. Squared(AsFloat(x)) = Infinity
    <3>1. Squared(AsFloat(x)) = IF M * M > Largest THEN Infinity
                                ELSE IF M * M < -Largest THEN -Infinity ELSE M * M
      BY <2>4 DEF Squared, AsFloat
    <3> QED BY <3>1, <2>5
  <2>7. AtMost(x * x) = Infinity
    BY <1>1, <1>3, ComparisonAssumption DEF AtMost
  <2> QED
    BY <2>2, <2>6, <2>7
<1> QED
  BY <1>1, <1>2, <1>3, ComparisonAssumption

LEMMA SumOverflows ==
  ASSUME NEW x \in Nat, NEW y \in Nat
  PROVE  AsFloat(AtMost(x) + AtMost(y)) = AtMost(x + y)
BY ComparisonAssumption DEF AsFloat, AtMost, Infinity

LEMMA TolFacts ==
  ASSUME NEW tol \in Tolerances
  PROVE  /\ tol[2] \in Nat /\ tol[2] > 0 /\ tol[1] \in Nat
         /\ tol[2] * tol[2] \in Nat /\ tol[2] * tol[2] > 0
         /\ tol[1] * tol[1] \in Nat
         /\ tol[1] * tol[1] <= Largest * (tol[2] * tol[2])
         /\ tol[1] <= Largest * tol[2]
<1>1. /\ tol[2] \in Nat /\ tol[2] > 0 /\ tol[1] \in Nat
      /\ tol[1] * tol[1] <= Largest * (tol[2] * tol[2]) /\ Largest \in Nat
  BY ComparisonAssumption
<1>2. tol[2] * tol[2] > 0 * 0
  BY <1>1, SquaresOrdered
<1>3. tol[2] * tol[2] \in Nat /\ tol[1] * tol[1] \in Nat
  BY <1>1
<1>4. tol[1] <= Largest * tol[2]
  <2> DEFINE m == Largest * tol[2]
  <2>1. m \in Nat
    BY <1>1
  <2>2. m * m = (Largest * Largest) * (tol[2] * tol[2])
    BY <1>1
  <2>3. Largest <= Largest * Largest /\ Largest * Largest \in Nat
    <3>1. CASE Largest = 0
      BY <3>1
    <3>2. CASE Largest # 0
      <4>1. 1 <= Largest
        BY <1>1, <3>2
      <4>2. 1 * Largest <= Largest * Largest
        BY <1>1, <4>1, ProductsOrdered
      <4> QED
        BY <1>1, <4>2
    <3> QED
      BY <3>1, <3>2
  <2>4. Largest * (tol[2] * tol[2]) <= (Largest * Largest) * (tol[2] * tol[2])
    BY <1>1, <1>3, <2>3, ProductsOrdered
  <2> HIDE DEF m
  <2>5. ~(tol[1] * tol[1] > m * m)
    <3>1. m * m \in Nat /\ Largest * (tol[2] * tol[2]) \in Nat
      BY <1>1, <1>3, <2>1
    <3> QED
      BY <1>1, <1>3, <2>2, <2>4, <3>1
  <2>6. ~(tol[1] > m)
    BY <1>1, <2>1, <2>5, SquaresOrdered
  <2>7. tol[1] <= m
    BY <1>1, <2>1, <2>6
  <2> QED
    BY <2>7 DEF m
<1> QED
  BY <1>1, <1>2, <1>3, <1>4

(* Errors can be compared by their squares.                                *)
LEMMA SquaredExceeds ==
  ASSUME NEW D \in Nat, NEW n \in Nat, NEW tol \in Tolerances
  PROVE  D * tol[2] > tol[1] * n <=> ExceedsPart(D * D, n * n, Squares(tol))
<1> DEFINE p == tol[1]
           q == tol[2]
<1>1. p \in Nat /\ q \in Nat
  BY TolFacts
<1>2. Squares(tol)[1] = p * p /\ Squares(tol)[2] = q * q
  BY DEF Squares
<1> HIDE DEF p, q
<1>3. D * q \in Nat /\ p * n \in Nat
  BY <1>1
<1>4. D * q > p * n <=> (D * q) * (D * q) > (p * n) * (p * n)
  BY <1>3, SquaresOrdered
<1>5. (D * q) * (D * q) = (D * D) * (q * q) /\ (p * n) * (p * n) = (p * p) * (n * n)
  BY <1>1
<1> QED
  BY <1>2, <1>4, <1>5 DEF ExceedsPart, p, q

(* Values that are not special are finite, and there are few.              *)
LEMMA FiniteValues ==
  ASSUME NEW kind \in {"float", "complex", "integer"}, NEW z \in Values(kind), ~HasSpecial(z)
  PROVE  /\ z[1] \in Finite /\ z[1] \in Int /\ -Largest <= z[1] /\ z[1] <= Largest
         /\ z[2] \in Int /\ -Largest <= z[2] /\ z[2] <= Largest
         /\ kind # "complex" => z[2] = 0
<1>1. Largest \in Nat /\ \A x \in Finite : x \in Int /\ -Largest <= x /\ x <= Largest
  BY ComparisonAssumption
<1>2. z[1] \notin {Infinity, -Infinity, NaN} /\ z[2] \notin {Infinity, -Infinity, NaN}
  BY DEF HasSpecial
<1>3. z[1] \in Finite /\ (z[2] \in Finite \/ z[2] = 0) /\ (kind # "complex" => z[2] = 0)
  <2>1. CASE kind = "float"
    BY <1>2, <2>1 DEF Values, Floats
  <2>2. CASE kind = "complex"
    BY <1>2, <2>2 DEF Values, Floats
  <2>3. CASE kind = "integer"
    BY <2>3 DEF Values
  <2> QED
    BY <2>1, <2>2, <2>3
<1> QED
  BY <1>1, <1>3

IsComparison(c) ==
  /\ c.kind \in {"float", "complex", "integer"} /\ c.absolute \in BOOLEAN /\ c.tol \in Tolerances
  /\ Relative(c.kind, c.absolute) => c.tol[1] <= c.tol[2]

LEMMA FloatRight ==
  ASSUME NEW e \in Int, -Largest <= e, e <= Largest, NEW a \in Int, -Largest <= a, a <= Largest,
         NEW absolute \in BOOLEAN, NEW tol \in Tolerances, absolute \/ tol[1] <= tol[2]
  PROVE  FloatFails(e, a, absolute, tol)
           <=> ExceedsPart((e - a) * (e - a), IF absolute \/ e = 0 THEN 1 ELSE e * e, Squares(tol))
<1> DEFINE D == Magnitude(e - a)
           n == IF absolute \/ e = 0 THEN 1 ELSE Magnitude(e)
<1>1. D \in Nat /\ D * D = (e - a) * (e - a) /\ Magnitude(AsFloat(e - a)) = AtMost(D)
  BY MagnitudeFacts
<1>2. Magnitude(e) \in Nat /\ Magnitude(e) * Magnitude(e) = e * e /\ Magnitude(e) <= Largest
  BY MagnitudeFacts, ComparisonAssumption DEF Magnitude
<1>3. n \in Nat /\ n * n = IF absolute \/ e = 0 THEN 1 ELSE e * e
  BY <1>2
<1>4. tol[1] * n <= Largest * tol[2]
  <2>1. CASE absolute \/ e = 0
    BY <2>1, TolFacts
  <2>2. CASE ~(absolute \/ e = 0)
    <3>1. n <= Largest /\ tol[1] <= tol[2] /\ n \in Nat /\ Largest \in Nat
      BY <1>2, <1>3, <2>2, ComparisonAssumption
    <3> HIDE DEF n
    <3>2. n * tol[1] <= Largest * tol[2]
      BY <3>1, TolFacts, ProductsOrdered
    <3> QED
      BY <3>1, <3>2, TolFacts
  <2> QED
    BY <2>1, <2>2
<1>5. FloatFails(e, a, absolute, tol) <=> AtMost(D) * tol[2] > tol[1] * n
  <2>1. tol[1] \in Nat
    BY TolFacts
  <2> HIDE DEF D
  <2> QED
    BY <1>1, <2>1 DEF FloatFails, Exceeds, ExceedsPart
<1> HIDE DEF D, n
<1>6. AtMost(D) * tol[2] > tol[1] * n <=> D * tol[2] > tol[1] * n
  BY <1>1, <1>3, <1>4, TolFacts, OverflowExceeds
<1>7. D * tol[2] > tol[1] * n <=> ExceedsPart(D * D, n * n, Squares(tol))
  BY <1>1, <1>3, SquaredExceeds
<1> QED
  BY <1>1, <1>3, <1>5, <1>6, <1>7

LEMMA ComplexRight ==
  ASSUME NEW e, e[1] \in Int, e[2] \in Int, NEW a, a[1] \in Int, a[2] \in Int,
         -Largest <= e[1], e[1] <= Largest, -Largest <= a[1], a[1] <= Largest,
         -Largest <= e[2], e[2] <= Largest, -Largest <= a[2], a[2] <= Largest,
         NEW absolute \in BOOLEAN, NEW tol \in Tolerances, absolute \/ tol[1] <= tol[2]
  PROVE  ComplexFails(e, a, absolute, tol)
           <=> /\ absolute \/ Norm(e) <= Largest
               /\ ExceedsPart(Norm(<<e[1] - a[1], e[2] - a[2]>>),
                              IF absolute \/ Norm(e) = 0 THEN 1 ELSE Norm(e), Squares(tol))
<1> DEFINE x == e[1] - a[1]
           y == e[2] - a[2]
           N == Norm(<<x, y>>)
           M == Norm(e)
           diff == <<AsFloat(x), AsFloat(y)>>
           err == AsFloat(Squared(diff[1]) + Squared(diff[2]))
           norm == AsFloat(Squared(AsFloat(e[1])) + Squared(AsFloat(e[2])))
           p == Squares(tol)[1]
           q == Squares(tol)[2]
<1>1. x \in Int /\ y \in Int
  OBVIOUS
<1>2. N = x * x + y * y /\ N \in Nat /\ M = e[1] * e[1] + e[2] * e[2] /\ M \in Nat
  <2>1. /\ x * x \in Nat /\ y * y \in Nat /\ e[1] * e[1] \in Nat /\ e[2] * e[2] \in Nat
    BY <1>1, MagnitudeFacts
  <2> HIDE DEF x, y
  <2> QED
    BY <2>1 DEF Norm
<1>3. err = AtMost(N)
  <2>1. /\ Squared(AsFloat(x)) = AtMost(x * x) /\ Squared(AsFloat(y)) = AtMost(y * y)
        /\ x * x \in Nat /\ y * y \in Nat
    BY <1>1, SquareOverflows, MagnitudeFacts
  <2> HIDE DEF x, y
  <2> QED
    BY <1>2, <2>1, SumOverflows
<1>4. norm = AtMost(M) /\ AsFloat(e[1]) = e[1] /\ AsFloat(e[2]) = e[2]
  <2>1. /\ Squared(AsFloat(e[1])) = AtMost(e[1] * e[1]) /\ Squared(AsFloat(e[2])) = AtMost(e[2] * e[2])
        /\ e[1] * e[1] \in Nat /\ e[2] * e[2] \in Nat
    BY SquareOverflows, MagnitudeFacts
  <2>2. AsFloat(e[1]) = e[1] /\ AsFloat(e[2]) = e[2]
    BY ComparisonAssumption DEF AsFloat
  <2> QED
    BY <1>2, <2>1, <2>2, SumOverflows
<1>5. /\ p \in Nat /\ q \in Nat /\ q > 0 /\ p <= Largest * q
      /\ absolute \/ p <= q
  <2>1. absolute \/ tol[1] * tol[1] <= tol[2] * tol[2]
    BY TolFacts, ProductsOrdered
  <2> QED
    BY <2>1, TolFacts DEF Squares
<1>6. ComplexFails(e, a, absolute, tol)
        <=> IF absolute \/ norm = 0 THEN err * q > p ELSE norm # Infinity /\ err * q > p * norm
  BY <1>4 DEF ComplexFails, Exceeds, ExceedsPart
<1> HIDE DEF N, M, err, norm, p, q
<1>8. /\ norm = 0 <=> M = 0
      /\ norm # Infinity <=> M <= Largest
      /\ M <= Largest => norm = M
  BY <1>2, <1>4, ComparisonAssumption DEF AtMost, Infinity
<1>9. err * q > p * 1 <=> N * q > p * 1
  <2>1. p * 1 <= Largest * q
    BY <1>5
  <2> QED
    BY <1>2, <1>3, <1>5, <2>1, OverflowExceeds
<1>10. ~absolute /\ M <= Largest => (err * q > p * M <=> N * q > p * M)
  <2> SUFFICES ASSUME ~absolute, M <= Largest PROVE err * q > p * M <=> N * q > p * M
    OBVIOUS
  <2>1. M * p <= Largest * q
    BY <1>2, <1>5, ComparisonAssumption, ProductsOrdered
  <2>2. p * M <= Largest * q
    BY <1>2, <1>5, <2>1
  <2> QED
    BY <1>2, <1>3, <1>5, <2>2, OverflowExceeds
<1>11. p * 1 = p
  BY <1>5
<1>12. M = 0 => M <= Largest
  BY ComparisonAssumption
<1>13. ComplexFails(e, a, absolute, tol)
         <=> /\ absolute \/ M <= Largest
             /\ N * q > p * (IF absolute \/ M = 0 THEN 1 ELSE M)
  <2>1. CASE absolute \/ M = 0
    BY <2>1, <1>6, <1>8, <1>9, <1>11, <1>12
  <2>2. CASE ~absolute /\ M # 0
    BY <2>2, <1>6, <1>8, <1>10
  <2> QED
    BY <2>1, <2>2
<1> QED
  BY <1>13 DEF N, M, p, q, ExceedsPart

LEMMA IntegerRight ==
  ASSUME NEW e \in Int, NEW a \in Int, NEW tol \in Tolerances
  PROVE  IntegerFails(e, a, tol) <=> ExceedsPart((e - a) * (e - a), 1, Squares(tol))
<1> DEFINE D == Magnitude(e - a)
           p == tol[1]
           q == tol[2]
<1>1. D \in Nat /\ D * D = (e - a) * (e - a)
  BY MagnitudeFacts
<1>2. p \in Nat /\ q \in Nat /\ q > 0
  BY TolFacts
<1>3. IntegerFails(e, a, tol) <=> D > p \div q
  BY DEF IntegerFails
<1>4. D * q > p * 1 <=> ExceedsPart(D * D, 1 * 1, Squares(tol))
  BY <1>1, SquaredExceeds
<1> HIDE DEF D, p, q
<1>5. PICK k \in Nat : k = p \div q /\ k * q <= p /\ p < (k + 1) * q
  <2>1. p \div q \in Nat /\ (p \div q) * q <= p /\ p < (p \div q + 1) * q
    BY <1>2
  <2> QED
    BY <2>1
<1>6. D > k <=> D * q > p
  <2>1. CASE D > k
    <3>1. (k + 1) * q <= D * q
      BY <1>1, <1>2, <1>5, <2>1, ProductsOrdered
    <3>2. (k + 1) * q \in Nat /\ D * q \in Nat
      BY <1>1, <1>2, <1>5
    <3> QED
      BY <1>2, <1>5, <2>1, <3>1, <3>2
  <2>2. CASE D <= k
    <3>1. D * q <= k * q
      BY <1>1, <1>2, <1>5, <2>2, ProductsOrdered
    <3>2. k * q \in Nat /\ D * q \in Nat
      BY <1>1, <1>2, <1>5
    <3> QED
      BY <1>1, <1>2, <1>5, <2>2, <3>1, <3>2
  <2> QED
    BY <1>1, <1>5, <2>1, <2>2
<1>7. p * 1 = p
  BY <1>2
<1> QED
  BY <1>1, <1>3, <1>4, <1>5, <1>6, <1>7

(* One point.                                                              *)
LEMMA PointRight ==
  ASSUME IsComparison(comparison),
         NEW e \in Values(comparison.kind), NEW a \in Values(comparison.kind)
  PROVE  Fails(e, a) <=> Apart(e, a)
<1> DEFINE kind == comparison.kind
           tol == comparison.tol
           d == <<e[1] - a[1], e[2] - a[2]>>
<1>1. /\ kind \in {"float", "complex", "integer"} /\ comparison.absolute \in BOOLEAN /\ tol \in Tolerances
      /\ kind = "integer" \/ comparison.absolute \/ tol[1] <= tol[2]
  BY DEF IsComparison, Relative
<1>2. CASE HasSpecial(e) \/ HasSpecial(a)
  BY <1>2 DEF Fails, Apart, Matches
<1>3. CASE ~HasSpecial(e) /\ ~HasSpecial(a)
  <2>1. /\ e[1] \in Int /\ -Largest <= e[1] /\ e[1] <= Largest
        /\ e[2] \in Int /\ -Largest <= e[2] /\ e[2] <= Largest
        /\ a[1] \in Int /\ -Largest <= a[1] /\ a[1] <= Largest
        /\ a[2] \in Int /\ -Largest <= a[2] /\ a[2] <= Largest
        /\ kind # "complex" => e[2] = 0 /\ a[2] = 0
    BY <1>1, <1>3, FiniteValues
  <2> DEFINE whole == comparison.absolute \/ kind = "integer" \/ Norm(e) = 0
  <2>2. Apart(e, a) <=> /\ kind = "complex" => comparison.absolute \/ ~(Norm(e) > Largest)
                        /\ ExceedsPart(Norm(d), IF whole THEN 1 ELSE Norm(e), Squares(tol))
    BY <1>3 DEF Apart, Blind, Relative
  <2>3. ASSUME kind # "complex"
        PROVE  /\ Norm(d) = (e[1] - a[1]) * (e[1] - a[1]) /\ Norm(e) = e[1] * e[1]
               /\ Norm(e) = 0 <=> e[1] = 0
    <3>1. e[2] = 0 /\ a[2] = 0
      BY <2>1, <2>3
    <3>2. d[1] = e[1] - a[1] /\ d[2] = 0
      BY <3>1
    <3>3. /\ e[1] * e[1] \in Nat /\ (e[1] * e[1] = 0 <=> e[1] = 0)
          /\ (e[1] - a[1]) * (e[1] - a[1]) \in Nat
      <4>1. e[1] \in Int /\ e[1] - a[1] \in Int
        BY <2>1
      <4>2. e[1] * e[1] \in Nat /\ (e[1] * e[1] = 0 <=> e[1] = 0)
        BY <4>1, MagnitudeFacts
      <4>3. (e[1] - a[1]) * (e[1] - a[1]) \in Nat
        BY <4>1, MagnitudeFacts
      <4> QED
        BY <4>2, <4>3
    <3> HIDE DEF d
    <3> QED
      BY <3>1, <3>2, <3>3 DEF Norm
  <2>4. CASE kind = "float"
    <3>1. Fails(e, a) <=> FloatFails(e[1], a[1], comparison.absolute, tol)
      BY <1>3, <2>4 DEF Fails
    <3>2. FloatFails(e[1], a[1], comparison.absolute, tol)
            <=> ExceedsPart((e[1] - a[1]) * (e[1] - a[1]),
                            IF comparison.absolute \/ e[1] = 0 THEN 1 ELSE e[1] * e[1], Squares(tol))
      BY <1>1, <2>1, <2>4, FloatRight
    <3> QED
      BY <2>2, <2>3, <2>4, <3>1, <3>2
  <2>5. CASE kind = "complex"
    <3>1. Fails(e, a) <=> ComplexFails(e, a, comparison.absolute, tol)
      BY <1>3, <2>5 DEF Fails
    <3>2. ComplexFails(e, a, comparison.absolute, tol)
           <=> /\ comparison.absolute \/ Norm(e) <= Largest
               /\ ExceedsPart(Norm(d), IF comparison.absolute \/ Norm(e) = 0 THEN 1 ELSE Norm(e),
                              Squares(tol))
      BY <1>1, <2>1, <2>5, ComplexRight
    <3>3. Norm(e) <= Largest <=> ~(Norm(e) > Largest)
      <4>1. Norm(e) \in Int
        BY <2>1 DEF Norm
      <4> QED
        BY <4>1, ComparisonAssumption
    <3> QED
      BY <2>2, <2>5, <3>1, <3>2, <3>3
  <2>6. CASE kind = "integer"
    <3>1. Fails(e, a) <=> IntegerFails(e[1], a[1], tol)
      BY <1>3, <2>6 DEF Fails
    <3>2. IntegerFails(e[1], a[1], tol)
            <=> ExceedsPart((e[1] - a[1]) * (e[1] - a[1]), 1, Squares(tol))
      BY <1>1, <2>1, IntegerRight
    <3> QED
      BY <2>2, <2>3, <2>6, <3>1, <3>2
  <2> QED
    BY <1>1, <2>4, <2>5, <2>6
<1> QED
  BY <1>2, <1>3

(* The inductive invariant.                                                *)
ComparisonInv == (comparison # NoComparison => IsComparison(comparison)) /\ FailsIfApart

(***************************************************************************)
(* A comparison of any number of points, of any finite or special values   *)
(* and for any tolerance, fails exactly if the values of some point are    *)
(* apart (fcompare, ccompare, icompare).                                   *)
(***************************************************************************)
THEOREM ComparisonsAreRight == CompareSpec => []FailsIfApart
<1>1. CompareInit => ComparisonInv
  BY DEF CompareInit, ComparisonInv, FailsIfApart
<1>2. ComparisonInv /\ [CompareNext]_comparisonVars => ComparisonInv'
  <2> SUFFICES ASSUME ComparisonInv, [CompareNext]_comparisonVars PROVE ComparisonInv'
    OBVIOUS
  <2>1. ASSUME NEW kind \in {"float", "complex", "integer"}, NEW absolute \in BOOLEAN,
               NEW tol \in Tolerances, CompareCall(kind, absolute, tol),
               Relative(kind, absolute) => tol[1] <= tol[2]
        PROVE  ComparisonInv'
    BY <2>1 DEF CompareCall, ComparisonInv, FailsIfApart, IsComparison
  <2>2. ASSUME comparison # NoComparison,
               NEW e \in Values(comparison.kind), NEW a \in Values(comparison.kind),
               ComparePoint(e, a)
        PROVE  ComparisonInv'
    <3>1. Fails(e, a) <=> Apart(e, a)
      BY <2>2, PointRight DEF ComparisonInv
    <3>2. /\ failing' = (failing \/ Fails(e, a)) /\ apart' = (apart \/ Apart(e, a))
          /\ comparison' = comparison
      BY <2>2 DEF ComparePoint
    <3> QED
      BY <3>1, <3>2, Zenon DEF ComparisonInv, FailsIfApart, IsComparison
  <2>3. CASE CompareReturn
    BY <2>3 DEF CompareReturn, ComparisonInv, FailsIfApart
  <2>4. CASE UNCHANGED comparisonVars
    BY <2>4 DEF comparisonVars, ComparisonInv, FailsIfApart, IsComparison
  <2> QED
    BY <2>1, <2>2, <2>3, <2>4 DEF CompareNext
<1>3. ComparisonInv => FailsIfApart
  BY DEF ComparisonInv
<1> QED
  BY <1>1, <1>2, <1>3, PTL DEF CompareSpec

-----------------------------------------------------------------------------
(* The runs of volk_profile.  Its inductive invariant: the files it may    *)
(* have left, the results and the tests they are of, and how much of the   *)
(* results is in the file that is being written.                           *)
Unaligned(k) == NamesOf(k, OfAlignment(Impls[k], Table(k), FALSE))

(* What a file and the results may hold.                                   *)
IsSafeFile(lines) ==
  \A n \in DOMAIN lines : Len(lines[n]) = 3 => lines[n][3] \in Unaligned(lines[n][1])

FilesInv ==
  /\ DOMAIN files = Places
  /\ \A p \in Places : files[p] = NoFile \/ IsResultFile(files[p])

SafeInv ==
  \A p \in Places : p \notin updated \/ p \notin Writable => files[p] = NoFile \/ IsSafeFile(files[p])

Text == STRING \cup {""}
Result == [name : STRING, config : Text, a : Text, u : Text]
Found(k) == \E n \in DOMAIN results : results[n].config = k

ResultsInv ==
  /\ results \in Seq(Result)
  /\ \A n \in DOMAIN results : results[n].config # "" =>
       /\ results[n].config \in Configs
       /\ results[n].a \in NamesOf(results[n].config, Table(results[n].config))
       /\ results[n].u \in NamesOf(results[n].config, Table(results[n].config))
       /\ ~opts.update => results[n].u \in Unaligned(results[n].config)
  /\ \A n, m \in DOMAIN results :
       results[n].config # "" /\ results[n].config = results[m].config => n = m

FromFile(r) == opts.update /\ r.name \in Configs /\ r.config = r.name
FromTest(r, c) == r.name = Cases[c].name /\ r.config \in {"", Cases[c].config}
              /\ (r.config = "" => ~Measured(Cases[c].config))

TestedInv ==
  pc = "test" => \A n \in DOMAIN results :
    \/ FromFile(results[n])
    \/ \E c \in DOMAIN Cases : c < next /\ FromTest(results[n], c)

Covered(c) ==
  Cases[c].name \in opts.only /\ Measured(Cases[c].config) => Found(Cases[c].config)

CoverInv ==
  /\ pc = "test" => \A c \in DOMAIN Cases : c < next => Covered(c)
  /\ pc = "write" \/ Wrote => \A c \in DOMAIN Cases : Covered(c)

KeepInv ==
  pc \in {"test", "write"} \/ ended =>
    (opts.update /\ opts.path = NoPath => \A k \in Configs : Entries(old, k) # {} => Found(k))

Written(f, d) ==
  /\ f \in Seq(FileLine) /\ Len(f) = d + 2
  /\ f[1] = Header[1] /\ f[2] = Header[2]
  /\ \A i \in 1 .. d : f[i + 2] = LineOf(results[i])

Progress(f) ==
  \/ f = <<>> /\ out = Flushes
  \/ /\ Len(out) <= Len(results)
     /\ Written(f, Len(results) - Len(out))
     /\ \A j \in 1 .. Len(out) : out[j] = <<LineOf(results[Len(results) - Len(out) + j])>>

WriteInv ==
  /\ pc = "write" =>
       /\ target \in Places
       /\ opts.update <=> target \in updated
       /\ opts.path = NoPath => target = WritePath
       /\ out \in Seq(Seq(FileLine))
       /\ target \in Writable => Progress(files[target])
  /\ ended => pc = "off"
  /\ Wrote => Written(files[WritePath], Len(results))

IsOptions(o) == {o.bench, o.update, o.dry} \subseteq BOOLEAN /\ o.path \in Places \cup {NoPath}

ProfileInv ==
  /\ next \in 1 .. Len(Cases) + 1 /\ pc \in {"off", "test", "write"} /\ ended \in BOOLEAN
  /\ IsOptions(opts)
  /\ FilesInv /\ ResultsInv /\ TestedInv /\ CoverInv /\ KeepInv /\ WriteInv

LEMMA FirstPlaceFirst ==
  ASSUME NEW P, P \subseteq {"VOLK_CONFIGPATH", "HOME", "APPDATA", "etc"}
  PROVE  /\ P = {} => FirstPlace(P) = NoPath
         /\ P # {} => FirstPlace(P) \in P
         /\ \A Q : Q \subseteq P /\ Q # {} /\ FirstPlace(P) \in Q => FirstPlace(Q) = FirstPlace(P)
<1> DEFINE at(Q) == {n \in DOMAIN Order : Order[n] \in Q}
<1>1. /\ DOMAIN Order = 1 .. 4
      /\ \A x \in P : \E n \in DOMAIN Order : Order[n] = x
      /\ \A n, m \in DOMAIN Order : Order[n] = Order[m] => n = m
  <2>1. /\ DOMAIN Order = 1 .. 4 /\ Order[1] = "VOLK_CONFIGPATH" /\ Order[2] = "HOME"
        /\ Order[3] = "APPDATA" /\ Order[4] = "etc"
    BY DEF Order
  <2>2. 1 .. 4 = {1, 2, 3, 4}
    OBVIOUS
  <2> QED BY <2>1, <2>2
<1>2. \A Q : at(Q) \subseteq Nat
  BY <1>1
<1>3. \A Q : Q # {} => FirstPlace(Q) = Order[First(at(Q))]
  BY DEF FirstPlace
<1>4. \A Q : at(Q) # {} => First(at(Q)) \in at(Q) /\ \A j \in at(Q) : First(at(Q)) <= j
  BY <1>2, FirstIsFirst
<1>5. P # {} => at(P) # {}
  <2> SUFFICES ASSUME NEW x \in P PROVE at(P) # {}
    OBVIOUS
  <2>1. PICK n \in DOMAIN Order : Order[n] = x
    BY <1>1
  <2>2. n \in at(P)
    BY <2>1
  <2> QED BY <2>2
<1>6. P # {} => FirstPlace(P) \in P
  <2> SUFFICES ASSUME P # {} PROVE FirstPlace(P) \in P
    OBVIOUS
  <2>1. First(at(P)) \in at(P) /\ FirstPlace(P) = Order[First(at(P))]
    BY <1>3, <1>4, <1>5
  <2> QED BY <2>1
<1>7. ASSUME NEW Q, Q \subseteq P, Q # {}, FirstPlace(P) \in Q
      PROVE  FirstPlace(Q) = FirstPlace(P)
  <2>0. P # {}
    BY <1>7
  <2>1. P # {} /\ FirstPlace(P) = Order[First(at(P))] /\ First(at(P)) \in at(P)
    BY <2>0, <1>3, <1>4, <1>5
  <2>2. First(at(P)) \in at(Q) /\ at(Q) \subseteq at(P)
    BY <2>1, <1>7
  <2>3. First(at(Q)) \in at(Q) /\ First(at(Q)) <= First(at(P)) /\ First(at(P)) <= First(at(Q))
    BY <2>2, <1>4
  <2>4. First(at(Q)) \in Nat /\ First(at(P)) \in Nat
    BY <2>1, <2>3, <1>2
  <2> HIDE DEF at
  <2>5. First(at(Q)) = First(at(P))
    BY <2>3, <2>4
  <2> QED
    BY <2>1, <2>5, <1>3, <1>7
<1> QED
  BY <1>6, <1>7 DEF FirstPlace

(* Where the next program reads is where the last one has written.         *)
LEMMA PathFacts ==
  /\ WritePath \in Places \cup {NoPath} /\ ReadPath \in Places \cup {NoPath}
  /\ ReadPath # NoPath => files[ReadPath] # NoFile /\ ReadPath \in Places
  /\ WritePath \in Places /\ files[WritePath] # NoFile => ReadPath = WritePath
<1> DEFINE W == EnvSet \cup (Existing \cap {"etc"})
           R == Existing \cap (EnvSet \cup {"etc"})
<1>1. /\ EnvSet \subseteq {"VOLK_CONFIGPATH", "HOME", "APPDATA", "etc"}
      /\ W \subseteq {"VOLK_CONFIGPATH", "HOME", "APPDATA", "etc"} /\ R \subseteq W
      /\ W \subseteq Places /\ R \subseteq Existing /\ R \subseteq Places
  BY PlacesAssumption DEF Places, Existing, Elsewhere
<1>2. WritePath = FirstPlace(W) /\ ReadPath = FirstPlace(R)
  BY DEF WritePath, ReadPath
<1>3. NoPath \notin Places
  BY DEF NoPath, Places, Elsewhere
<1> HIDE DEF W, R
<1>4. /\ W = {} => WritePath = NoPath
      /\ W # {} => WritePath \in W
      /\ R = {} => ReadPath = NoPath
      /\ R # {} => ReadPath \in R
  BY <1>1, <1>2, FirstPlaceFirst
<1>5. ASSUME WritePath \in Places, files[WritePath] # NoFile
      PROVE  ReadPath = WritePath
  <2>1. WritePath \in W
    BY <1>3, <1>4, <1>5
  <2>2. WritePath \in R
    BY <1>5, <2>1 DEF W, R, Existing
  <2> QED
    BY <1>1, <1>2, <2>2, FirstPlaceFirst
<1> QED
  BY <1>1, <1>3, <1>4, <1>5 DEF Existing

-----------------------------------------------------------------------------
LEMMA NamesAreStrings ==
  ASSUME NEW k \in Configs
  PROVE  /\ k \in STRING /\ k \notin {"", "#this", "#the"}
         /\ NamesOf(k, Table(k)) \subseteq STRING
         /\ Unaligned(k) \subseteq NamesOf(k, Table(k))
<1>1. PICK c \in DOMAIN Cases : k = Cases[c].config
  BY DEF Configs
<1>2. k \in STRING /\ k \notin {"", "#this", "#the"}
  <2>1. Cases[c] \in [name : STRING, config : STRING \ {"", "#this", "#the"}]
    BY <1>1, CasesAssumption, ElementOf, Zenon
  <2> QED
    BY <1>1, <2>1
<1>3. \A i \in DOMAIN Impls[k] : Impls[k][i].name \in STRING
  <2>1. Impls[k] \in Seq([name : STRING, deps : SUBSET Nat, aligned : BOOLEAN])
    BY ImplsAssumption
  <2>2. \A i \in DOMAIN Impls[k] :
          Impls[k][i] \in [name : STRING, deps : SUBSET Nat, aligned : BOOLEAN]
    BY <2>1, ElementOf, Zenon
  <2> QED
    BY <2>2
<1> QED
  BY <1>2, <1>3 DEF NamesOf, Table, Unaligned, OfAlignment

(* The lines of a file, by their lengths.                                  *)
LEMMA LinesOfFile ==
  ASSUME NEW f, IsResultFile(f)
  PROVE  /\ Len(f) \in Nat /\ DOMAIN f = 1 .. Len(f)
         /\ \A n \in DOMAIN f : Len(f[n]) = 3 =>
              /\ f[n][1] \in Configs
              /\ f[n][2] \in NamesOf(f[n][1], Table(f[n][1]))
              /\ f[n][3] \in NamesOf(f[n][1], Table(f[n][1]))
         /\ \A n \in DOMAIN f : Len(f[n]) >= 3 /\ f[n][1] \in Configs => Len(f[n]) = 3
<1>1. Len(f) \in Nat /\ DOMAIN f = 1 .. Len(f) /\ \A n \in DOMAIN f : f[n] \in FileLine
  BY DEF IsResultFile
<1>2. /\ Len(Header[1]) = 6 /\ Header[1][1] = "#this"
      /\ Len(Header[2]) = 9 /\ Header[2][1] = "#the"
  <2>1. /\ Header[1] = <<"#this", "file", "is", "generated", "by", "volk_profile.">>
        /\ Header[2] = <<"#the", "function", "name", "is", "followed", "by", "the",
                         "preferred", "architecture.">>
    BY DEF Header
  <2> QED
    BY <2>1
<1>3. ASSUME NEW n \in DOMAIN f
      PROVE  \/ f[n] = Header[1] \/ f[n] = Header[2] \/ f[n] = <<>>
             \/ \E k \in Configs : \E a, u \in NamesOf(k, Table(k)) : f[n] = <<k, a, u>>
  <2>1. f[n] \in FileLine
    BY <1>1
  <2> QED
    BY <2>1 DEF FileLine, Entry, Line
<1>4. \A k \in Configs : k # "#this" /\ k # "#the"
  BY NamesAreStrings
<1>5. ASSUME NEW n \in DOMAIN f
      PROVE  /\ Len(f[n]) = 3 =>
                  /\ f[n][1] \in Configs
                  /\ f[n][2] \in NamesOf(f[n][1], Table(f[n][1]))
                  /\ f[n][3] \in NamesOf(f[n][1], Table(f[n][1]))
             /\ Len(f[n]) >= 3 /\ f[n][1] \in Configs => Len(f[n]) = 3
  <2>1. CASE f[n] = Header[1]
    BY <2>1, <1>2, <1>4
  <2>2. CASE f[n] = Header[2]
    BY <2>2, <1>2, <1>4
  <2>3. CASE f[n] = <<>>
    BY <2>3
  <2>4. ASSUME NEW k \in Configs, NEW a \in NamesOf(k, Table(k)), NEW u \in NamesOf(k, Table(k)),
               f[n] = <<k, a, u>>
        PROVE  /\ Len(f[n]) = 3 /\ f[n][1] = k /\ f[n][2] = a /\ f[n][3] = u
    BY <2>4
  <2> QED
    BY <1>3, <2>1, <2>2, <2>3, <2>4
<1> QED
  BY <1>1, <1>5

(* The preferences a program loads are the lines for its kernels.          *)
LEMMA LoadedPreferences ==
  ASSUME NEW f, IsResultFile(f)
  PROVE  /\ DOMAIN LoadPreferences(f) \subseteq Nat
         /\ \A k \in Configs :
              Entries(LoadPreferences(f), k) = {n \in DOMAIN f : Len(f[n]) = 3 /\ f[n][1] = k}
         /\ \A n \in DOMAIN LoadPreferences(f) :
              LoadPreferences(f)[n] = [name |-> f[n][1], impl_a |-> f[n][2], impl_u |-> f[n][3]]
         /\ \A k \in Configs : \A n, m \in Entries(LoadPreferences(f), k) : n = m
<1> DEFINE S == {i \in DOMAIN f : Len(f[i]) >= 3 /\ f[i][1] \in Configs}
           P == LoadPreferences(f)
<1>1. P = [n \in S |-> [name |-> f[n][1], impl_a |-> f[n][2], impl_u |-> f[n][3]]]
  BY DEF LoadPreferences
<1>2. \A n \in DOMAIN f : n \in S <=> Len(f[n]) = 3
  BY LinesOfFile
<1>3. S \subseteq DOMAIN f /\ DOMAIN f \subseteq Nat
  BY LinesOfFile
<1> HIDE DEF S, P
<1>4. DOMAIN P = S /\ \A n \in S : P[n] = [name |-> f[n][1], impl_a |-> f[n][2], impl_u |-> f[n][3]]
  BY <1>1
<1>5. \A k \in Configs : Entries(P, k) = {n \in DOMAIN f : Len(f[n]) = 3 /\ f[n][1] = k}
  <2> TAKE k \in Configs
  <2>1. \A n \in S : P[n].name = f[n][1]
    BY <1>4
  <2> QED
    BY <1>2, <1>3, <1>4, <2>1 DEF Entries
<1>6. \A k \in Configs : \A n, m \in Entries(P, k) : n = m
  BY <1>5 DEF IsResultFile
<1> QED
  BY <1>3, <1>4, <1>5, <1>6 DEF P

(* What a run with -u reads back.                                          *)
LEMMA ResultsReadBack ==
  ASSUME NEW f, IsResultFile(f)
  PROVE  LET R == ReadResults(f)
         IN  /\ R \in Seq(Result)
             /\ \A n \in DOMAIN R :
                  /\ R[n].config \in Configs /\ R[n].name = R[n].config
                  /\ R[n].a \in NamesOf(R[n].config, Table(R[n].config))
                  /\ R[n].u \in NamesOf(R[n].config, Table(R[n].config))
             /\ \A n, m \in DOMAIN R : R[n].config = R[m].config => n = m
             /\ \A n \in DOMAIN f : Len(f[n]) = 3 => \E m \in DOMAIN R : R[m].config = f[n][1]
<1> DEFINE S == {i \in DOMAIN f : Len(f[i]) = 3}
           N == Cardinality(S)
           R == ReadResults(f)
<1>1. S \subseteq Nat /\ IsFiniteSet(S) /\ S \subseteq DOMAIN f
  <2>1. DOMAIN f = 1 .. Len(f) /\ Len(f) \in Nat
    BY LinesOfFile
  <2>2. IsFiniteSet(DOMAIN f)
    BY <2>1, FS_Interval
  <2>3. S \subseteq DOMAIN f /\ DOMAIN f \subseteq Nat
    BY <2>1
  <2> HIDE DEF S
  <2> QED
    BY <2>2, <2>3, FS_Subset
<1>2. /\ N \in Nat
      /\ \A k \in 1 .. N : Nth(S, k) \in S
      /\ \A i \in S : \E k \in 1 .. N : Nth(S, k) = i
      /\ \A k, m \in 1 .. N : k < m => Nth(S, k) < Nth(S, m)
  <2> HIDE DEF S
  <2> QED BY <1>1, NthInOrder
<1>3. \A i \in S : /\ f[i][1] \in Configs
                   /\ f[i][2] \in NamesOf(f[i][1], Table(f[i][1]))
                   /\ f[i][3] \in NamesOf(f[i][1], Table(f[i][1]))
  BY LinesOfFile
<1>4. \A i, j \in S : f[i][1] = f[j][1] => i = j
  BY DEF IsResultFile
<1>5. R = [n \in 1 .. N |-> [name |-> f[Nth(S, n)][1], config |-> f[Nth(S, n)][1],
                             u |-> f[Nth(S, n)][2], a |-> f[Nth(S, n)][3]]]
  BY DEF ReadResults, Picked
<1>6. \A i \in DOMAIN f : Len(f[i]) = 3 => i \in S
  OBVIOUS
<1> HIDE DEF R, N, S
<1>7. /\ DOMAIN R = 1 .. N
      /\ \A n \in 1 .. N : /\ R[n].name = f[Nth(S, n)][1] /\ R[n].config = f[Nth(S, n)][1]
                           /\ R[n].u = f[Nth(S, n)][2] /\ R[n].a = f[Nth(S, n)][3]
  BY <1>5
<1>8. R \in Seq(Result)
  <2>1. ASSUME NEW n \in 1 .. N
        PROVE  [name |-> f[Nth(S, n)][1], config |-> f[Nth(S, n)][1],
                u |-> f[Nth(S, n)][2], a |-> f[Nth(S, n)][3]] \in Result
    <3>1. f[Nth(S, n)][1] \in Configs
      BY <1>2, <1>3
    <3>2. f[Nth(S, n)][1] \in STRING /\ f[Nth(S, n)][2] \in STRING /\ f[Nth(S, n)][3] \in STRING
      BY <3>1, <1>2, <1>3, NamesAreStrings
    <3> QED
      BY <3>2 DEF Result, Text
  <2> QED
    BY <1>2, <1>5, <2>1
<1>9. \A n, m \in DOMAIN R : R[n].config = R[m].config => n = m
  <2> SUFFICES ASSUME NEW n \in 1 .. N, NEW m \in 1 .. N, R[n].config = R[m].config
               PROVE  n = m
    BY <1>7
  <2>1. Nth(S, n) = Nth(S, m)
    BY <1>2, <1>4, <1>7
  <2>2. n < m \/ m < n \/ n = m
    BY <1>2
  <2>3. Nth(S, n) \in Nat
    BY <1>1, <1>2
  <2> QED
    BY <1>2, <2>1, <2>2, <2>3
<1>10. \A n \in DOMAIN R :
         /\ R[n].config \in Configs /\ R[n].name = R[n].config
         /\ R[n].a \in NamesOf(R[n].config, Table(R[n].config))
         /\ R[n].u \in NamesOf(R[n].config, Table(R[n].config))
  <2> TAKE n \in DOMAIN R
  <2>1. Nth(S, n) \in S
    BY <1>2, <1>7
  <2> QED
    BY <2>1, <1>3, <1>7
<1>11. \A n \in DOMAIN f : Len(f[n]) = 3 => \E m \in DOMAIN R : R[m].config = f[n][1]
  <2> TAKE n \in DOMAIN f
  <2> HAVE Len(f[n]) = 3
  <2>1. PICK k \in 1 .. N : Nth(S, k) = n
    BY <1>2, <1>6
  <2> QED
    BY <2>1, <1>7
<1> QED
  BY <1>8, <1>9, <1>10, <1>11 DEF R

LEMMA CaseNumbers == Len(Cases) \in Nat /\ DOMAIN Cases = 1 .. Len(Cases)
BY CasesAssumption, SeqDomain, Zenon

LEMMA CaseFacts ==
  /\ \A c \in DOMAIN Cases :
       /\ Cases[c].config \in Configs /\ Cases[c].name \in STRING
       /\ Cases[c].config \in STRING /\ Cases[c].config # ""
  /\ \A k \in Configs : \E c \in DOMAIN Cases : Cases[c].config = k
  /\ \A c, d \in DOMAIN Cases :
       {Cases[c].name, Cases[c].config} \cap {Cases[d].name, Cases[d].config} # {} => c = d
  /\ NoPath \notin Places /\ Writable \subseteq Places
<1>2. ASSUME NEW c \in DOMAIN Cases
      PROVE  /\ Cases[c].config \in Configs /\ Cases[c].name \in STRING
             /\ Cases[c].config \in STRING /\ Cases[c].config # ""
  <2>1. Cases[c] \in [name : STRING, config : STRING \ {"", "#this", "#the"}]
    BY CasesAssumption, ElementOf, Zenon
  <2> QED
    BY <2>1 DEF Configs
<1>3. \A k \in Configs : \E c \in DOMAIN Cases : Cases[c].config = k
  BY DEF Configs
<1>4. NoPath \notin Places /\ Writable \subseteq Places
  BY PlacesAssumption DEF NoPath, Places, Elsewhere
<1> QED
  BY <1>2, <1>3, <1>4, CasesAssumption, Zenon

LEMMA InitProfileInv == Init => ProfileInv
<1> SUFFICES ASSUME Init PROVE ProfileInv
  OBVIOUS
<1>1. /\ pc = "off" /\ opts = NoOptions /\ next = 1 /\ results = <<>> /\ ended = FALSE
  BY DEF Init
<1>2. FilesInv
  <2>1. PICK f \in Before, p \in Places : files = [q \in Places |-> IF q = p THEN f ELSE NoFile]
    BY DEF Init
  <2>2. f = NoFile \/ IsResultFile(f)
    BY BeforeAssumption
  <2> QED
    BY <2>1, <2>2 DEF FilesInv
<1>3. ResultsInv
  BY <1>1 DEF ResultsInv
<1>4. IsOptions(opts)
  BY <1>1 DEF NoOptions, IsOptions
<1>5. next \in 1 .. Len(Cases) + 1
  BY <1>1, CaseNumbers
<1> QED
  BY <1>1, <1>2, <1>3, <1>4, <1>5
     DEF ProfileInv, TestedInv, CoverInv, Wrote, KeepInv, WriteInv

LEMMA StartProfileInv ==
  ASSUME ProfileInv, NEW o, IsOptions(o), Start(o)
  PROVE  ProfileInv'
<1> DEFINE from == IF o.path = NoPath THEN ReadPath ELSE o.path
           kept == o.update /\ from # NoPath /\ files[from] # NoFile
           R == ReadResults(files[from])
<1>1. /\ pc' = "test" /\ next' = 1 /\ ended' = FALSE /\ opts' = o
      /\ UNCHANGED <<files, out, target, updated>>
      /\ results' = IF kept THEN R ELSE <<>>
      /\ old' = IF o.update THEN Prefs ELSE <<>>
  BY DEF Start
<1>2. from \in Places \cup {NoPath} /\ from = NoPath => ~kept
  BY PathFacts DEF IsOptions
<1>3. kept => IsResultFile(files[from])
  BY <1>2, PathFacts DEF ProfileInv, FilesInv, IsOptions
<1>4. kept => /\ R \in Seq(Result)
              /\ \A n \in DOMAIN R :
                   /\ R[n].config \in Configs /\ R[n].name = R[n].config
                   /\ R[n].a \in NamesOf(R[n].config, Table(R[n].config))
                   /\ R[n].u \in NamesOf(R[n].config, Table(R[n].config))
              /\ \A n, m \in DOMAIN R : R[n].config = R[m].config => n = m
              /\ \A n \in DOMAIN files[from] : Len(files[from][n]) = 3 =>
                   \E m \in DOMAIN R : R[m].config = files[from][n][1]
  BY <1>3, ResultsReadBack
<1>5. FilesInv'
  BY <1>1 DEF ProfileInv, FilesInv
<1> HIDE DEF R, kept, from
<1>6. kept => o.update
  BY DEF kept
<1>7. ResultsInv'
  <2>1. CASE kept
    BY <2>1, <1>1, <1>4, <1>6 DEF ResultsInv
  <2>2. CASE ~kept
    <3>1. results' = <<>>
      BY <2>2, <1>1
    <3> QED BY <3>1 DEF ResultsInv
  <2> QED BY <2>1, <2>2
<1>8. TestedInv'
  <2>1. CASE kept
    BY <2>1, <1>1, <1>4, <1>6 DEF TestedInv, FromFile
  <2>2. CASE ~kept
    <3>1. results' = <<>>
      BY <2>2, <1>1
    <3> QED BY <3>1 DEF TestedInv
  <2> QED BY <2>1, <2>2
<1>9. CoverInv'
  <2>1. \A c \in DOMAIN Cases : ~(c < 1)
    BY CaseNumbers
  <2> QED
    BY <1>1, <2>1 DEF CoverInv, Wrote
<1>10. KeepInv'
  <2> SUFFICES ASSUME o.update, o.path = NoPath, NEW k \in Configs, Entries(old', k) # {}
               PROVE  \E n \in DOMAIN results' : results'[n].config = k
    BY <1>1 DEF KeepInv, Found
  <2>1. from = ReadPath /\ old' = Prefs
    BY <1>1 DEF from
  <2>2. ReadPath # NoPath
    <3> SUFFICES ASSUME ReadPath = NoPath PROVE FALSE
      OBVIOUS
    <3>1. old' = <<>>
      BY <2>1 DEF Prefs
    <3> QED
      BY <3>1 DEF Entries
  <2>3. kept /\ old' = LoadPreferences(files[from])
    BY <2>1, <2>2, PathFacts DEF kept, Prefs
  <2>4. PICK n \in DOMAIN files[from] : Len(files[from][n]) = 3 /\ files[from][n][1] = k
    BY <2>3, <1>3, LoadedPreferences
  <2> QED
    BY <2>3, <2>4, <1>1, <1>4
<1>11. WriteInv'
  BY <1>1 DEF WriteInv, Wrote
<1>12. next' \in 1 .. Len(Cases) + 1
  BY <1>1, CaseNumbers
<1> QED
  BY <1>1, <1>5, <1>7, <1>8, <1>9, <1>10, <1>11, <1>12 DEF ProfileInv

LEMMA TestCaseProfileInv ==
  ASSUME ProfileInv, NEW a, NEW u, TestCase(a, u)
  PROVE  ProfileInv'
<1> DEFINE c == Cases[next]
           many == Measured(c.config)
           r == [name |-> c.name, config |-> IF many THEN c.config ELSE "", a |-> a, u |-> u]
           last == Len(results) + 1
<1>1. /\ pc = "test" /\ next \in DOMAIN Cases /\ Wanted(next)
      /\ UNCHANGED <<files, pc, opts, out, target, old, ended, updated>>
      /\ next' = next + 1
  <2>1. /\ pc = "test" /\ next <= Len(Cases) /\ Wanted(next)
        /\ UNCHANGED <<files, pc, opts, out, target, old, ended, updated>>
        /\ next' = next + 1
    BY DEF TestCase
  <2>2. next \in DOMAIN Cases
    BY <2>1, CaseNumbers DEF ProfileInv
  <2> QED
    BY <2>1, <2>2
<1>a. \A d \in DOMAIN Cases : d < next => d # next
  BY <1>1, CaseNumbers
<1>0. ResultsInv /\ TestedInv /\ CoverInv /\ KeepInv /\ WriteInv /\ results \in Seq(Result)
      /\ next \in 1 .. Len(Cases) + 1 /\ ended = FALSE
  BY <1>1 DEF ProfileInv, ResultsInv, WriteInv
<1>3. results' = Append(results, r)
  BY DEF TestCase, ConfigName
<1>4. /\ many => a \in NamesOf(c.config, Table(c.config)) /\ u \in Unaligned(c.config)
      /\ ~many => a = "" /\ u = ""
  BY DEF TestCase, Unaligned
<1>5. c.config \in Configs /\ c.config # "" /\ c.name \in STRING /\ c.config \in STRING
  BY <1>1, CaseFacts
<1>6. many => u \in NamesOf(c.config, Table(c.config)) /\ a \in STRING /\ u \in STRING
  BY <1>4, <1>5, NamesAreStrings
<1>7. r \in Result
  <2>1. CASE many
    BY <2>1, <1>5, <1>6 DEF Result, Text
  <2>2. CASE ~many
    <3>1. r = [name |-> c.name, config |-> "", a |-> "", u |-> ""]
      BY <2>2, <1>4
    <3> HIDE DEF r
    <3> QED
      BY <3>1, <1>5, Zenon DEF Result, Text
  <2> QED
    BY <2>1, <2>2
<1>8. /\ r.name = c.name /\ r.a = a /\ r.u = u
      /\ r.config = IF many THEN c.config ELSE ""
  OBVIOUS
<1> HIDE DEF r, many, c
<1>9. /\ results' \in Seq(Result) /\ DOMAIN results \subseteq DOMAIN results'
      /\ \A n \in DOMAIN results : results'[n] = results[n]
      /\ last \in DOMAIN results' /\ results'[last] = r
      /\ \A n \in DOMAIN results' : n \in DOMAIN results \/ n = last
  BY <1>0, <1>3, <1>7, Appended
<1> HIDE DEF last
<1>10. r.config # "" => \A n \in DOMAIN results : results[n].config # r.config
  <2> SUFFICES ASSUME r.config # "", NEW n \in DOMAIN results, results[n].config = r.config
               PROVE  FALSE
    OBVIOUS
  <2>1. results[n].config = c.config
    BY <1>8
  <2>2. ~FromFile(results[n])
    BY <2>1, <1>1 DEF FromFile, Wanted, c
  <2>3. PICK d \in DOMAIN Cases : d < next /\ FromTest(results[n], d)
    BY <1>0, <1>1, <2>2 DEF TestedInv
  <2>4. Cases[d].config = Cases[next].config
    BY <2>1, <2>3, <1>5 DEF FromTest, c
  <2>5. d = next
    BY <2>4, <1>1, CaseFacts
  <2> QED
    BY <2>3, <2>5, <1>a, Zenon
<1>11. ResultsInv'
  <2>1. \A n \in DOMAIN results' : results'[n].config # "" =>
          /\ results'[n].config \in Configs
          /\ results'[n].a \in NamesOf(results'[n].config, Table(results'[n].config))
          /\ results'[n].u \in NamesOf(results'[n].config, Table(results'[n].config))
          /\ ~opts.update => results'[n].u \in Unaligned(results'[n].config)
    <3> SUFFICES ASSUME NEW n \in DOMAIN results', results'[n].config # ""
                 PROVE  /\ results'[n].config \in Configs
                        /\ results'[n].a \in NamesOf(results'[n].config, Table(results'[n].config))
                        /\ results'[n].u \in NamesOf(results'[n].config, Table(results'[n].config))
                        /\ ~opts.update => results'[n].u \in Unaligned(results'[n].config)
      OBVIOUS
    <3>1. CASE n \in DOMAIN results
      BY <3>1, <1>0, <1>9 DEF ResultsInv
    <3>2. CASE n = last
      BY <3>2, <1>4, <1>5, <1>6, <1>8, <1>9
    <3> QED
      BY <3>1, <3>2, <1>9
  <2>2. \A n, m \in DOMAIN results' :
          results'[n].config # "" /\ results'[n].config = results'[m].config => n = m
    <3> SUFFICES ASSUME NEW n \in DOMAIN results', NEW m \in DOMAIN results',
                        results'[n].config # "", results'[n].config = results'[m].config
                 PROVE  n = m
      OBVIOUS
    <3>1. CASE n \in DOMAIN results /\ m \in DOMAIN results
      BY <3>1, <1>0, <1>9 DEF ResultsInv
    <3> QED
      BY <3>1, <1>9, <1>10
  <2> QED
    BY <1>1, <1>9, <2>1, <2>2 DEF ResultsInv
<1>12. TestedInv'
  <2> SUFFICES ASSUME NEW n \in DOMAIN results'
               PROVE  \/ FromFile(results'[n])
                      \/ \E d \in DOMAIN Cases : d < next + 1 /\ FromTest(results'[n], d)
    BY <1>1 DEF TestedInv, FromFile, FromTest, Measured
  <2>1. next < next + 1 /\ \A d \in DOMAIN Cases : d < next => d < next + 1
    BY <1>1, CaseNumbers
  <2>2. CASE n \in DOMAIN results
    BY <2>1, <2>2, <1>0, <1>1, <1>9 DEF TestedInv
  <2>3. CASE n = last
    <3>1. r.name = Cases[next].name /\ r.config \in {"", Cases[next].config}
      BY <1>8 DEF c
    <3>2. r.config = "" => ~Measured(Cases[next].config)
      BY <1>5, <1>8 DEF c, many
    <3>3. FromTest(r, next)
      BY <3>1, <3>2 DEF FromTest
    <3> QED
      BY <2>1, <2>3, <3>3, <1>1, <1>9
  <2> QED
    BY <2>2, <2>3, <1>9
<1>13. \A k : Found(k) => Found(k)'
  BY <1>9 DEF Found
<1>14. CoverInv'
  <2> SUFFICES ASSUME NEW d \in DOMAIN Cases, d < next + 1 PROVE Covered(d)'
    BY <1>0, <1>1 DEF CoverInv, Wrote
  <2>1. CASE d < next
    BY <2>1, <1>0, <1>1, <1>13 DEF CoverInv, Covered, Measured
  <2>2. CASE d = next
    <3>1. ASSUME many PROVE \E n \in DOMAIN results' : results'[n].config = Cases[d].config
      BY <2>2, <3>1, <1>8, <1>9 DEF c
    <3>2. Measured(Cases[d].config) => many
      BY <2>2 DEF many, c
    <3> QED
      BY <1>1, <3>1, <3>2 DEF Covered, Found, Measured
  <2> QED
    BY <2>1, <2>2, <1>1, CaseNumbers
<1>15. KeepInv'
  BY <1>0, <1>1, <1>13 DEF KeepInv, Entries
<1>16. WriteInv'
  BY <1>0, <1>1 DEF WriteInv, Wrote
<1>17. next' \in 1 .. Len(Cases) + 1
  BY <1>1, CaseNumbers
<1>18. FilesInv'
  BY <1>1 DEF ProfileInv, FilesInv
<1> QED
  BY <1>0, <1>1, <1>11, <1>12, <1>14, <1>15, <1>16, <1>17, <1>18 DEF ProfileInv

LEMMA SkipCaseProfileInv ==
  ASSUME ProfileInv, SkipCase
  PROVE  ProfileInv'
<1>1. /\ pc = "test" /\ next \in DOMAIN Cases /\ ~Wanted(next)
      /\ UNCHANGED <<files, pc, opts, results, out, target, old, ended, updated>>
      /\ next' = next + 1
  BY CaseNumbers DEF SkipCase, ProfileInv
<1>2. /\ ResultsInv /\ TestedInv /\ CoverInv /\ KeepInv /\ WriteInv /\ FilesInv
      /\ next \in 1 .. Len(Cases) + 1 /\ ended = FALSE
  BY <1>1 DEF ProfileInv, WriteInv
<1>3. Covered(next)
  <2> SUFFICES ASSUME Cases[next].name \in opts.only PROVE Found(Cases[next].config)
    BY DEF Covered
  <2>1. PICK n \in DOMAIN results : results[n].name \in {Cases[next].name, Cases[next].config}
    BY <1>1 DEF Wanted
  <2>2. ASSUME NEW d \in DOMAIN Cases, d < next
        PROVE  ~FromTest(results[n], d)
    <3> SUFFICES ASSUME results[n].name = Cases[d].name PROVE FALSE
      BY DEF FromTest
    <3>1. d = next
      BY <2>1, <1>1, CaseFacts, Zenon
    <3> QED
      BY <2>2, <3>1, CaseNumbers
  <2>3. FromFile(results[n])
    BY <2>2, <1>1, <1>2 DEF TestedInv
  <2>4. PICK d \in DOMAIN Cases : Cases[d].config = results[n].name
    BY <2>3, CaseFacts DEF FromFile
  <2>5. d = next
    BY <2>1, <2>4, <1>1, CaseFacts, Zenon
  <2> QED
    BY <2>3, <2>4, <2>5 DEF Found, FromFile
<1>4. \A k : Found(k)' <=> Found(k)
  BY <1>1 DEF Found
<1>5. CoverInv'
  <2> SUFFICES ASSUME NEW d \in DOMAIN Cases, d < next + 1 PROVE Covered(d)'
    BY <1>1, <1>2 DEF CoverInv, Wrote
  <2>1. d < next \/ d = next
    BY <1>1, CaseNumbers
  <2> QED
    BY <2>1, <1>1, <1>2, <1>3, <1>4 DEF CoverInv, Covered, Measured
<1>6. TestedInv'
  <2>1. \A d \in DOMAIN Cases : d < next => d < next + 1
    BY <1>1, CaseNumbers
  <2> QED
    BY <2>1, <1>1, <1>2 DEF TestedInv, FromFile, FromTest, Measured
<1>7. next' \in 1 .. Len(Cases) + 1
  BY <1>1, CaseNumbers
<1>8. ResultsInv' /\ FilesInv'
  BY <1>1, <1>2 DEF ResultsInv, FilesInv
<1>9. KeepInv'
  BY <1>1, <1>2, <1>4 DEF KeepInv, Entries
<1>10. WriteInv'
  BY <1>1, <1>2 DEF WriteInv, Wrote
<1> QED
  BY <1>1, <1>2, <1>5, <1>6, <1>7, <1>8, <1>9, <1>10 DEF ProfileInv

(* The line of an entry of the results.                                    *)
LEMMA LineOfResult ==
  ASSUME ResultsInv, NEW n \in DOMAIN results
  PROVE  /\ LineOf(results[n]) \in FileLine
         /\ results[n].config = "" => LineOf(results[n]) = <<>>
         /\ results[n].config # "" =>
              LineOf(results[n]) = <<results[n].config, results[n].a, results[n].u>>
<1>1. CASE results[n].config = ""
  BY <1>1, Zenon DEF LineOf, FileLine
<1>2. CASE results[n].config # ""
  <2>1. LineOf(results[n]) = <<results[n].config, results[n].a, results[n].u>>
    BY <1>2 DEF LineOf, Line
  <2>2. /\ results[n].config \in Configs
        /\ results[n].a \in NamesOf(results[n].config, Table(results[n].config))
        /\ results[n].u \in NamesOf(results[n].config, Table(results[n].config))
    BY <1>2 DEF ResultsInv
  <2>3. LineOf(results[n]) \in Entry(results[n].config)
    BY <2>1, <2>2 DEF Entry, Line
  <2>4. LineOf(results[n]) \in FileLine
    BY <2>2, <2>3 DEF FileLine
  <2> QED
    BY <1>2, <2>1, <2>4, Zenon
<1> QED
  BY <1>1, <1>2, Zenon

LEMMA HeaderShape ==
  /\ Header \in Seq(FileLine) /\ Len(Header) = 2 /\ DOMAIN Header = 1 .. 2
  /\ Len(Header[1]) = 6 /\ Len(Header[2]) = 9
<1>1. /\ Header[1] = <<"#this", "file", "is", "generated", "by", "volk_profile.">>
      /\ Header[2] = <<"#the", "function", "name", "is", "followed", "by", "the",
                       "preferred", "architecture.">>
      /\ Len(Header) = 2 /\ Header = <<Header[1], Header[2]>>
  BY DEF Header
<1>2. Len(Header[1]) = 6 /\ Len(Header[2]) = 9
  BY <1>1
<1> HIDE DEF Header
<1>3. Header \in Seq(FileLine) /\ DOMAIN Header = 1 .. 2
  <2>1. Header[1] \in FileLine /\ Header[2] \in FileLine
    BY DEF FileLine
  <2>2. \A x, y \in FileLine : <<x, y>> \in Seq(FileLine) /\ DOMAIN <<x, y>> = 1 .. 2
    OBVIOUS
  <2> QED
    BY <1>1, <2>1, <2>2, Zenon
<1> QED
  BY <1>1, <1>2, <1>3

(* Nothing is flushed but the header and the lines, one at a time.         *)
LEMMA FlushesShape ==
  ASSUME ResultsInv
  PROVE  /\ Flushes \in Seq(Seq(FileLine)) /\ Flushes # <<>>
         /\ Len(results) \in Nat /\ DOMAIN results = 1 .. Len(results)
         /\ Len(results) = 0 => Flushes = <<Header>>
         /\ Len(results) # 0 =>
              /\ Len(Flushes) = Len(results)
              /\ Flushes[1] = Header \o <<LineOf(results[1])>>
              /\ \A j \in 1 .. Len(results) : j # 1 => Flushes[j] = <<LineOf(results[j])>>
<1> DEFINE lines == [n \in DOMAIN results |-> <<LineOf(results[n])>>]
           N == Len(results)
<1>1. N \in Nat /\ DOMAIN results = 1 .. N
  BY SeqDomain DEF ResultsInv
<1>2. Flushes = IF lines = <<>> THEN <<Header>> ELSE <<Header \o lines[1]>> \o Tail(lines)
  BY DEF Flushes
<1>3. \A n \in 1 .. N : LineOf(results[n]) \in FileLine
  BY <1>1, LineOfResult
<1>4. /\ lines \in Seq(Seq(FileLine)) /\ Len(lines) = N
      /\ \A n \in 1 .. N : lines[n] = <<LineOf(results[n])>>
  <2>1. lines = [n \in 1 .. N |-> <<LineOf(results[n])>>]
    BY <1>1
  <2>2. \A n \in 1 .. N : <<LineOf(results[n])>> \in Seq(FileLine)
    BY <1>3
  <2> HIDE DEF lines, N
  <2> QED
    BY <1>1, <2>1, <2>2
<1> HIDE DEF lines, N
<1>5. CASE N = 0
  <2>1. lines = <<>>
    BY <1>4, <1>5
  <2>2. Flushes = <<Header>>
    BY <1>2, <2>1
  <2> QED
    BY <1>1, <1>5, <2>2, HeaderShape DEF N
<1>6. CASE N # 0
  <2> DEFINE first == Header \o <<LineOf(results[1])>>
             rest == Tail(lines)
  <2>1. lines # <<>> /\ lines[1] = <<LineOf(results[1])>> /\ LineOf(results[1]) \in FileLine
    BY <1>1, <1>3, <1>4, <1>6
  <2>2. Flushes = <<first>> \o rest
    BY <1>2, <2>1
  <2>3. first \in Seq(FileLine)
    BY <2>1, HeaderShape
  <2>4. /\ rest \in Seq(Seq(FileLine)) /\ Len(rest) = N - 1
        /\ \A j \in 1 .. N - 1 : rest[j] = <<LineOf(results[j + 1])>>
    BY <1>1, <1>4, <1>6, <2>1
  <2> HIDE DEF first, rest
  <2>5. /\ Flushes \in Seq(Seq(FileLine)) /\ Len(Flushes) = N /\ Flushes[1] = first
        /\ \A j \in 1 .. N - 1 : Flushes[j + 1] = rest[j]
    BY <1>1, <1>6, <2>2, <2>3, <2>4
  <2>6. \A j \in 1 .. N : j # 1 => Flushes[j] = <<LineOf(results[j])>>
    <3> SUFFICES ASSUME NEW j \in 1 .. N, j # 1 PROVE Flushes[j] = <<LineOf(results[j])>>
      OBVIOUS
    <3>1. j - 1 \in 1 .. N - 1 /\ (j - 1) + 1 = j
      BY <1>1
    <3>2. Flushes[(j - 1) + 1] = rest[j - 1] /\ rest[j - 1] = <<LineOf(results[(j - 1) + 1])>>
      BY <2>4, <2>5, <3>1
    <3> QED
      BY <3>1, <3>2
  <2>7. Flushes # <<>>
    BY <1>1, <1>6, <2>5
  <2> QED
    BY <1>1, <1>6, <2>5, <2>6, <2>7 DEF N, first
<1> QED
  BY <1>5, <1>6

(* What has been written so far is a file that a run may leave.            *)
LEMMA WrittenIsResultFile ==
  ASSUME ResultsInv, NEW f, NEW d \in Nat, d <= Len(results), Written(f, d)
  PROVE  /\ IsResultFile(f) /\ f # NoFile
         /\ \A i \in DOMAIN f : Len(f[i]) = 3 =>
              /\ i - 2 \in DOMAIN results /\ i - 2 <= d /\ results[i - 2].config = f[i][1]
              /\ results[i - 2].a = f[i][2] /\ results[i - 2].u = f[i][3]
              /\ results[i - 2].config # ""
         /\ \A n \in 1 .. d : results[n].config # "" =>
              /\ n + 2 \in DOMAIN f
              /\ f[n + 2] = <<results[n].config, results[n].a, results[n].u>>
<1>1. /\ f \in Seq(FileLine) /\ DOMAIN f = 1 .. d + 2 /\ Len(f) = d + 2
      /\ f[1] = Header[1] /\ f[2] = Header[2]
      /\ \A i \in 1 .. d : f[i + 2] = LineOf(results[i])
  BY DEF Written
<1>2. 1 .. d \subseteq DOMAIN results
  BY FlushesShape
<1>3. ASSUME NEW i \in DOMAIN f
      PROVE  i = 1 \/ i = 2 \/ (i - 2 \in 1 .. d /\ (i - 2) + 2 = i)
  <2>1. i \in 1 .. d + 2
    BY <1>1
  <2> QED
    BY <2>1
<1>4. ASSUME NEW i \in DOMAIN f, Len(f[i]) = 3
      PROVE  /\ i - 2 \in 1 .. d /\ results[i - 2].config # ""
             /\ f[i] = <<results[i - 2].config, results[i - 2].a, results[i - 2].u>>
  <2>1. Len(f[1]) # 3 /\ Len(f[2]) # 3
    BY <1>1, HeaderShape
  <2>2. i - 2 \in 1 .. d /\ f[i] = LineOf(results[i - 2])
    <3>1. i - 2 \in 1 .. d /\ (i - 2) + 2 = i
      BY <1>3, <1>4, <2>1
    <3>2. f[(i - 2) + 2] = LineOf(results[i - 2])
      BY <1>1, <3>1
    <3> QED
      BY <3>1, <3>2
  <2>3. Len(<<>>) # 3
    OBVIOUS
  <2>4. i - 2 \in DOMAIN results
    BY <1>2, <2>2
  <2>5. results[i - 2].config # ""
    BY <1>4, <2>2, <2>3, <2>4, LineOfResult, Zenon
  <2> QED
    BY <2>2, <2>4, <2>5, LineOfResult, Zenon
<1>6. \A i \in DOMAIN f : Len(f[i]) = 3 =>
        /\ i - 2 \in DOMAIN results /\ i - 2 <= d /\ results[i - 2].config = f[i][1]
        /\ results[i - 2].a = f[i][2] /\ results[i - 2].u = f[i][3]
        /\ results[i - 2].config # ""
  <2> SUFFICES ASSUME NEW i \in DOMAIN f, Len(f[i]) = 3
               PROVE  /\ i - 2 \in DOMAIN results /\ i - 2 <= d /\ results[i - 2].config = f[i][1]
                      /\ results[i - 2].a = f[i][2] /\ results[i - 2].u = f[i][3]
                      /\ results[i - 2].config # ""
    OBVIOUS
  <2>1. i - 2 \in 1 .. d /\ results[i - 2].config # ""
    BY <1>4
  <2>2. \A j \in 1 .. d : j <= d
    OBVIOUS
  <2>3. f[i] = <<results[i - 2].config, results[i - 2].a, results[i - 2].u>>
    BY <1>4
  <2>4. /\ results[i - 2].config = f[i][1]
        /\ results[i - 2].a = f[i][2] /\ results[i - 2].u = f[i][3]
    BY <2>3
  <2>5. i - 2 \in DOMAIN results /\ i - 2 <= d
    BY <1>2, <2>1, <2>2, Zenon
  <2> QED
    BY <2>1, <2>4, <2>5, Zenon
<1>8. \A i, j \in DOMAIN f : Len(f[i]) = 3 /\ Len(f[j]) = 3 /\ f[i][1] = f[j][1] => i = j
  <2> SUFFICES ASSUME NEW i \in DOMAIN f, NEW j \in DOMAIN f, Len(f[i]) = 3, Len(f[j]) = 3,
                      f[i][1] = f[j][1]
               PROVE  i = j
    OBVIOUS
  <2>1. i - 2 = j - 2
    BY <1>6, Zenon DEF ResultsInv
  <2> QED
    BY <2>1, <1>1
<1>9. IsResultFile(f)
  BY <1>1, <1>8 DEF IsResultFile
<1>10. f # NoFile
  <2>1. Len(NoFile) = 1
    BY DEF NoFile
  <2>2. Len(f) # 1
    BY <1>1
  <2> QED
    BY <2>1, <2>2, Zenon
<1>11. \A n \in 1 .. d : results[n].config # "" =>
         /\ n + 2 \in DOMAIN f
         /\ f[n + 2] = <<results[n].config, results[n].a, results[n].u>>
  <2> TAKE n \in 1 .. d
  <2>1. n + 2 \in DOMAIN f /\ f[n + 2] = LineOf(results[n]) /\ n \in DOMAIN results
    BY <1>1, <1>2
  <2> QED
    BY <2>1, LineOfResult, Zenon
<1> QED
  BY <1>6, <1>9, <1>10, <1>11, Zenon

LEMMA WritePathKept ==
  /\ (files'["etc"] # NoFile <=> files["etc"] # NoFile) => WritePath' = WritePath
  /\ WritePath = "etc" => files["etc"] # NoFile
<1>1. ASSUME files'["etc"] # NoFile <=> files["etc"] # NoFile
      PROVE  WritePath' = WritePath
  <2>1. (Existing \cap {"etc"})' = Existing \cap {"etc"}
    BY <1>1 DEF Existing
  <2> QED
    BY <2>1 DEF WritePath
<1>2. ASSUME WritePath = "etc" PROVE files["etc"] # NoFile
  <2> DEFINE W == EnvSet \cup (Existing \cap {"etc"})
  <2>1. W \subseteq {"VOLK_CONFIGPATH", "HOME", "APPDATA", "etc"} /\ "etc" \notin EnvSet
    BY PlacesAssumption DEF Places, Existing, Elsewhere
  <2>2. WritePath = FirstPlace(W)
    BY DEF WritePath
  <2> HIDE DEF W
  <2>3. "etc" \in W
    BY <1>2, <2>1, <2>2, FirstPlaceFirst DEF NoPath
  <2> QED
    BY <2>1, <2>3 DEF W, Existing
<1> QED
  BY <1>1, <1>2

(* Only files, out and target are different while a file is written.       *)
LEMMA OthersKept ==
  ASSUME ProfileInv, UNCHANGED <<opts, results, old>>, ended' \in BOOLEAN,
         pc \in {"test", "write"}, pc' \in {"write", "off"}, ended' => pc' = "off",
         pc' = "off" => ended',
         pc' = "write" \/ Wrote' => \A c \in DOMAIN Cases : Covered(c)
  PROVE  ResultsInv' /\ TestedInv' /\ CoverInv' /\ KeepInv'
<1>1. \A k : Found(k)' <=> Found(k)
  BY DEF Found
<1>2. CoverInv'
  BY <1>1 DEF CoverInv, Covered, Measured
<1>3. KeepInv'
  BY <1>1 DEF ProfileInv, KeepInv, Entries
<1>4. ResultsInv'
  BY DEF ProfileInv, ResultsInv
<1>5. TestedInv'
  BY DEF TestedInv
<1> QED
  BY <1>2, <1>3, <1>4, <1>5

LEMMA OpenConfigProfileInv ==
  ASSUME ProfileInv, OpenConfig
  PROVE  ProfileInv'
<1>1. /\ pc = "test" /\ next > Len(Cases) /\ Destination # NoPath
      /\ pc' = "write" /\ target' = Destination /\ out' = Flushes
      /\ files' = IF Destination \in Writable THEN [files EXCEPT ![Destination] = <<>>] ELSE files
      /\ updated' = IF opts.update THEN updated \cup {Destination} ELSE updated \ {Destination}
      /\ UNCHANGED <<opts, next, results, old, ended>>
  BY DEF OpenConfig, TestsOver
<1>2. /\ ResultsInv /\ CoverInv /\ FilesInv /\ IsOptions(opts)
      /\ next \in 1 .. Len(Cases) + 1 /\ ended = FALSE
  BY <1>1 DEF ProfileInv, WriteInv
<1>3. Destination \in Places
  BY <1>1, <1>2, PathFacts DEF Destination, IsOptions
<1>4. <<>> # NoFile /\ IsResultFile(<<>>)
  <2>1. Len(<<>>) = 0 /\ Len(NoFile) = 1
    BY DEF NoFile
  <2>2. <<>> \in Seq(FileLine) /\ DOMAIN <<>> = {}
    OBVIOUS
  <2> QED
    BY <2>1, <2>2 DEF IsResultFile
<1>5. /\ \A p \in Places : p # Destination => files'[p] = files[p]
      /\ Destination \in Writable => files'[Destination] = <<>>
      /\ Destination \notin Writable => files' = files
      /\ DOMAIN files' = Places
  BY <1>1, <1>2, <1>3 DEF FilesInv
<1>6. FilesInv'
  BY <1>2, <1>4, <1>5 DEF FilesInv
<1>7. \A c \in DOMAIN Cases : Covered(c)
  <2>1. \A c \in DOMAIN Cases : c < next
    BY <1>1, <1>2, CaseNumbers
  <2> QED
    BY <2>1, <1>1, <1>2 DEF CoverInv
<1>8. ResultsInv' /\ TestedInv' /\ CoverInv' /\ KeepInv'
  BY <1>1, <1>2, <1>7, OthersKept
<1>9. opts.path = NoPath => target' = WritePath'
  <2> SUFFICES ASSUME opts.path = NoPath PROVE WritePath = WritePath'
    BY <1>1 DEF Destination
  <2>1. Destination = WritePath /\ "etc" \in Places
    BY DEF Destination, Places
  <2>2. files'["etc"] # NoFile <=> files["etc"] # NoFile
    BY <2>1, <1>4, <1>5, WritePathKept
  <2> QED
    BY <2>2, WritePathKept
<1>10. opts.update <=> target' \in updated'
  BY <1>1
<1>11. out' \in Seq(Seq(FileLine))
  BY <1>1, <1>2, FlushesShape
<1>12. target' \in Writable => Progress(files[target])'
  <2> SUFFICES ASSUME Destination \in Writable PROVE Progress(files[target])'
    BY <1>1
  <2>1. Flushes' = Flushes
    BY <1>1 DEF Flushes
  <2>2. files'[target'] = <<>> /\ out' = Flushes'
    BY <1>1, <1>5, <2>1
  <2> QED
    BY <2>2 DEF Progress
<1>13. WriteInv'
  BY <1>1, <1>2, <1>3, <1>9, <1>10, <1>11, <1>12 DEF WriteInv, Wrote
<1> QED
  BY <1>1, <1>2, <1>6, <1>8, <1>13 DEF ProfileInv

LEMMA Extended ==
  ASSUME NEW T, NEW s \in Seq(T), NEW l \in T
  PROVE  /\ s \o <<l>> \in Seq(T) /\ Len(s \o <<l>>) = Len(s) + 1
         /\ \A i \in 1 .. Len(s) : (s \o <<l>>)[i] = s[i]
         /\ (s \o <<l>>)[Len(s) + 1] = l
OBVIOUS

(* What a file holds while out is still to be written to it, and then.    *)
Unfinished(f, o) ==
  \/ f = <<>> /\ o = Flushes
  \/ /\ Len(o) <= Len(results)
     /\ Written(f, Len(results) - Len(o))
     /\ \A j \in 1 .. Len(o) : o[j] = <<LineOf(results[Len(results) - Len(o) + j])>>

Flushed(g, p) ==
  /\ Len(p) <= Len(results) /\ Len(p) \in Nat
  /\ Written(g, Len(results) - Len(p))
  /\ \A j \in 1 .. Len(p) : p[j] = <<LineOf(results[Len(results) - Len(p) + j])>>

(* The next flush.                                                         *)
LEMMA FlushProgress ==
  ASSUME ResultsInv, NEW f, NEW g, NEW o, NEW p,
         o \in Seq(Seq(FileLine)), o # <<>>, g = f \o Head(o), p = Tail(o), Unfinished(f, o)
  PROVE  Flushed(g, p)
<1> USE DEF Unfinished, Flushed
<1> DEFINE N == Len(results)
           M == Len(o)
<1>1. /\ N \in Nat /\ DOMAIN results = 1 .. N
      /\ \A n \in 1 .. N : LineOf(results[n]) \in FileLine
  BY FlushesShape, LineOfResult
<1>2. /\ M \in Nat /\ M # 0 /\ Len(p) = M - 1 /\ p \in Seq(Seq(FileLine))
      /\ \A j \in 1 .. M - 1 : p[j] = o[j + 1]
      /\ Head(o) = o[1]
  <2> HIDE DEF M
  <2> QED BY DEF M
<1>3. CASE f = <<>> /\ o = Flushes /\ N = 0
  <2>1. o = <<Header>>
    BY <1>3, FlushesShape
  <2>2. Head(o) = Header /\ M = 1
    BY <2>1
  <2>3. g = Header
    <3>1. \A s \in Seq(FileLine) : <<>> \o s = s
      OBVIOUS
    <3> QED
      BY <1>3, <2>2, <3>1, HeaderShape
  <2>4. Len(p) = 0 /\ N - Len(p) = 0
    BY <1>2, <1>3, <2>2
  <2>5. Written(Header, 0)
    BY HeaderShape DEF Written
  <2>6. 1 .. 0 = {}
    OBVIOUS
  <2> QED
    BY <1>1, <1>3, <2>3, <2>4, <2>5, <2>6
<1>4. CASE f = <<>> /\ o = Flushes /\ N # 0
  <2> DEFINE l == LineOf(results[1])
  <2>1. /\ M = N /\ o[1] = Header \o <<l>>
        /\ \A j \in 1 .. N : j # 1 => o[j] = <<LineOf(results[j])>>
    BY <1>4, FlushesShape, Zenon
  <2>a. l \in FileLine
    <3>1. 1 \in 1 .. N
      BY <1>1, <1>4
    <3> QED
      BY <1>1, <3>1, Zenon
  <2> HIDE DEF l, M, N
  <2>2. /\ Header \o <<l>> \in Seq(FileLine) /\ Len(Header \o <<l>>) = 3
        /\ (Header \o <<l>>)[1] = Header[1] /\ (Header \o <<l>>)[2] = Header[2]
        /\ (Header \o <<l>>)[3] = l
    <3>1. 2 + 1 = 3 /\ 1 \in 1 .. 2 /\ 2 \in 1 .. 2
      OBVIOUS
    <3>2. Header \in Seq(FileLine) /\ Len(Header) = 2
      BY HeaderShape
    <3>3. /\ Header \o <<l>> \in Seq(FileLine) /\ Len(Header \o <<l>>) = Len(Header) + 1
          /\ \A i \in 1 .. Len(Header) : (Header \o <<l>>)[i] = Header[i]
          /\ (Header \o <<l>>)[Len(Header) + 1] = l
      BY <2>a, <3>2, Extended, Zenon
    <3> QED
      BY <3>1, <3>2, <3>3, Zenon
  <2>3. g = Header \o <<l>>
    <3>1. \A s \in Seq(FileLine) : <<>> \o s = s
      OBVIOUS
    <3> QED
      BY <1>2, <1>4, <2>1, <2>2, <3>1
  <2>4. Len(p) = N - 1 /\ N - Len(p) = 1 /\ Len(p) \in Nat /\ Len(p) <= N
    BY <1>1, <1>2, <1>4, <2>1
  <2>5. Written(g, 1)
    <3>1. \A i \in 1 .. 1 : i = 1
      OBVIOUS
    <3>2. 1 + 2 = 3
      OBVIOUS
    <3> QED
      BY <2>2, <2>3, <3>1, <3>2 DEF Written, l
  <2>6. \A j \in 1 .. Len(p) : p[j] = <<LineOf(results[1 + j])>>
    <3> SUFFICES ASSUME NEW j \in 1 .. N - 1 PROVE p[j] = <<LineOf(results[1 + j])>>
      BY <2>4
    <3>1. j + 1 \in 1 .. N /\ j + 1 # 1 /\ j + 1 = 1 + j /\ j \in 1 .. M - 1
      BY <1>1, <2>1
    <3> QED
      BY <1>2, <2>1, <3>1
  <2> QED
    BY <2>4, <2>5, <2>6 DEF N
<1>5. CASE /\ M <= N /\ Written(f, N - M)
           /\ \A j \in 1 .. M : o[j] = <<LineOf(results[N - M + j])>>
  <2> DEFINE d == N - M
             l == LineOf(results[d + 1])
  <2>1. d \in Nat /\ d + 1 \in 1 .. N /\ 1 \in 1 .. M
    BY <1>1, <1>2, <1>5
  <2>2. o[1] = <<l>> /\ l \in FileLine
    BY <1>1, <1>5, <2>1
  <2>3. /\ f \in Seq(FileLine) /\ Len(f) = d + 2 /\ f[1] = Header[1] /\ f[2] = Header[2]
        /\ \A i \in 1 .. d : f[i + 2] = LineOf(results[i])
    BY <1>5 DEF Written
  <2>4. /\ Len(p) = M - 1 /\ Len(p) \in Nat /\ Len(p) <= N /\ N - Len(p) = d + 1
    BY <1>1, <1>2, <1>5
  <2>5. \A j \in 1 .. M - 1 : p[j] = <<LineOf(results[(d + 1) + j])>>
    <3> TAKE j \in 1 .. M - 1
    <3>1. j + 1 \in 1 .. M /\ N - M + (j + 1) = (d + 1) + j
      BY <1>1, <1>2
    <3>2. o[j + 1] = <<LineOf(results[N - M + (j + 1)])>>
      BY <1>5, <3>1
    <3> QED
      BY <1>2, <3>1, <3>2
  <2>6. g = f \o <<l>>
    BY <1>2, <2>2
  <2> HIDE DEF l, d, N, M
  <2>7. /\ g \in Seq(FileLine) /\ Len(g) = (d + 1) + 2
        /\ \A i \in 1 .. d + 2 : g[i] = f[i]
        /\ g[d + 3] = l
    BY <2>1, <2>2, <2>3, <2>6
  <2>8. Written(g, d + 1)
    <3>1. g[1] = Header[1] /\ g[2] = Header[2]
      BY <2>1, <2>3, <2>7
    <3>2. ASSUME NEW i \in 1 .. d + 1 PROVE g[i + 2] = LineOf(results[i])
      <4>1. CASE i = d + 1
        <5>1. i + 2 = d + 3
          BY <4>1, <2>1
        <5> QED
          BY <4>1, <5>1, <2>7 DEF l
      <4>2. CASE i # d + 1
        <5>1. i \in 1 .. d /\ i + 2 \in 1 .. d + 2
          BY <4>2, <2>1
        <5> QED
          BY <5>1, <2>3, <2>7
      <4> QED
        BY <4>1, <4>2
    <3> QED
      BY <2>7, <3>1, <3>2 DEF Written
  <2> QED
    BY <2>4, <2>5, <2>8 DEF N
<1> QED
  BY <1>3, <1>4, <1>5

LEMMA WriteLineProfileInv ==
  ASSUME ProfileInv, WriteLine
  PROVE  ProfileInv'
<1> DEFINE f == files[target]
<1>1. /\ pc = "write" /\ out # <<>>
      /\ files' = IF target \in Writable THEN [files EXCEPT ![target] = @ \o Head(out)] ELSE files
      /\ out' = Tail(out)
      /\ UNCHANGED <<pc, opts, next, results, target, old, ended, updated>>
  BY DEF WriteLine
<1>2. /\ ResultsInv /\ CoverInv /\ FilesInv /\ WriteInv
      /\ target \in Places /\ out \in Seq(Seq(FileLine)) /\ ended = FALSE
      /\ opts.path = NoPath => target = WritePath
      /\ opts.update <=> target \in updated
  BY <1>1 DEF ProfileInv, WriteInv
<1>3. out' \in Seq(Seq(FileLine))
  BY <1>1, <1>2
<1>4. ASSUME target \in Writable
      PROVE  /\ Progress(files[target])'
             /\ IsResultFile(files'[target]) /\ files'[target] # NoFile /\ files[target] # NoFile
  <2> DEFINE g == f \o Head(out)
             N == Len(results)
  <2>1. files'[target] = g
    BY <1>1, <1>2, <1>4 DEF FilesInv
  <2>2. Progress(f)
    BY <1>1, <1>2, <1>4 DEF WriteInv
  <2>3. N \in Nat
    BY <1>2, FlushesShape
  <2>4. /\ Len(out') <= N /\ Len(out') \in Nat
        /\ Written(g, N - Len(out'))
        /\ \A j \in 1 .. Len(out') : out'[j] = <<LineOf(results[N - Len(out') + j])>>
    <3>1. /\ ResultsInv /\ out \in Seq(Seq(FileLine)) /\ out # <<>> /\ g = f \o Head(out)
          /\ out' = Tail(out)
      BY <1>1, <1>2
    <3>2. Unfinished(f, out)
      BY <2>2 DEF Progress, Unfinished
    <3>3. Flushed(g, out')
      <4> HIDE DEF f, g
      <4> QED BY <3>1, <3>2, FlushProgress, Zenon
    <3> HIDE DEF f, g
    <3> QED
      BY <3>3 DEF Flushed, N
  <2> HIDE DEF g, N
  <2>5. N - Len(out') \in Nat /\ N - Len(out') <= N
    BY <2>3, <2>4
  <2>6. IsResultFile(g) /\ g # NoFile
    BY <1>2, <2>4, <2>5, WrittenIsResultFile DEF N
  <2>7. f # NoFile
    <3>1. Len(NoFile) = 1 /\ Len(<<>>) = 0
      BY DEF NoFile
    <3>2. CASE f = <<>>
      BY <3>1, <3>2
    <3>3. ASSUME Len(out) <= N, Written(f, N - Len(out)) PROVE f # NoFile
      <4>1. Len(out) \in Nat
        BY <1>2
      <4>2. Len(f) = N - Len(out) + 2
        BY <3>3 DEF Written
      <4>3. Len(f) # 1
        BY <2>3, <3>3, <4>1, <4>2
      <4> QED
        BY <3>1, <4>3
    <3> QED
      BY <2>2, <3>2, <3>3 DEF Progress, N
  <2>8. results' = results /\ target' = target
    BY <1>1
  <2>9. Progress(files[target])'
    BY <2>1, <2>4, <2>8 DEF Progress, Written, N, LineOf
  <2> QED
    BY <2>1, <2>6, <2>7, <2>9
<1>5. /\ DOMAIN files' = Places
      /\ \A p \in Places : p # target \/ target \notin Writable => files'[p] = files[p]
  BY <1>1, <1>2 DEF FilesInv
<1>6. FilesInv'
  BY <1>2, <1>4, <1>5 DEF FilesInv
<1>7. \A c \in DOMAIN Cases : Covered(c)
  BY <1>1, <1>2 DEF CoverInv
<1>8. ResultsInv' /\ TestedInv' /\ CoverInv' /\ KeepInv'
  BY <1>1, <1>2, <1>7, OthersKept
<1>9. WritePath' = WritePath
  <2>1. "etc" \in Places
    BY DEF Places
  <2>2. files'["etc"] # NoFile <=> files["etc"] # NoFile
    BY <1>4, <1>5, <2>1
  <2> QED
    BY <2>2, WritePathKept
<1>10. WriteInv'
  BY <1>1, <1>2, <1>3, <1>4, <1>9 DEF WriteInv, Wrote
<1> QED
  BY <1>1, <1>6, <1>8, <1>10 DEF ProfileInv

LEMMA CloseProfileInv ==
  ASSUME ProfileInv, Close
  PROVE  ProfileInv'
<1>1. /\ pc = "write" /\ out = <<>>
      /\ pc' = "off" /\ ended' = TRUE /\ next' = 1 /\ target' = NoPath
      /\ UNCHANGED <<files, opts, results, out, old, updated>>
  BY DEF Close
<1>2. /\ ResultsInv /\ CoverInv /\ FilesInv /\ WriteInv
  BY DEF ProfileInv
<1>3. \A c \in DOMAIN Cases : Covered(c)
  BY <1>1, <1>2 DEF CoverInv
<1>4. ResultsInv' /\ TestedInv' /\ CoverInv' /\ KeepInv'
  BY <1>1, <1>3, OthersKept
<1>5. WritePath' = WritePath
  BY <1>1, WritePathKept
<1>6. Wrote' => Written(files[WritePath], Len(results))'
  <2> SUFFICES ASSUME opts.path = NoPath, WritePath \in Writable
               PROVE  Written(files[WritePath], Len(results))'
    BY <1>1, <1>5 DEF Wrote
  <2>1. target = WritePath /\ Progress(files[target])
    BY <1>1, <1>2 DEF WriteInv
  <2>2. Len(results) \in Nat /\ Flushes # <<>>
    BY <1>2, FlushesShape
  <2>3. Written(files[target], Len(results) - Len(out)) /\ Len(out) = 0
    BY <1>1, <2>1, <2>2 DEF Progress
  <2>4. Len(results) - Len(out) = Len(results)
    BY <2>2, <2>3
  <2>5. Written(files[WritePath], Len(results))
    BY <2>1, <2>3, <2>4
  <2>6. files'[WritePath'] = files[WritePath] /\ results' = results
    BY <1>1, <1>5
  <2> QED
    BY <2>5, <2>6 DEF Written, LineOf
<1>7. WriteInv'
  BY <1>1, <1>6 DEF WriteInv
<1>8. FilesInv'
  BY <1>1, <1>2 DEF FilesInv
<1>9. next' \in 1 .. Len(Cases) + 1
  BY <1>1, CaseNumbers
<1> QED
  BY <1>1, <1>4, <1>7, <1>8, <1>9 DEF ProfileInv

LEMMA EndWithoutFileProfileInv ==
  ASSUME ProfileInv, EndWithoutFile
  PROVE  ProfileInv'
<1>1. /\ pc = "test" /\ (opts.dry \/ Destination = NoPath)
      /\ pc' = "off" /\ ended' = TRUE
      /\ UNCHANGED <<files, opts, next, results, out, target, old, updated>>
  BY DEF EndWithoutFile, TestsOver
<1>2. WritePath' = WritePath
  BY <1>1, WritePathKept
<1>3. ~Wrote'
  <2> SUFFICES ASSUME Wrote' PROVE FALSE
    OBVIOUS
  <2>1. ~opts.dry /\ opts.path = NoPath /\ WritePath \in Writable
    BY <1>1, <1>2 DEF Wrote
  <2>2. WritePath = NoPath
    BY <1>1, <2>1 DEF Destination
  <2>3. NoPath \in Writable
    BY <2>1, <2>2
  <2> QED
    BY <2>3, PlacesAssumption DEF Places, NoPath, Elsewhere
<1>4. ResultsInv' /\ TestedInv' /\ CoverInv' /\ KeepInv'
  BY <1>1, <1>3, OthersKept
<1>5. FilesInv' /\ WriteInv'
  BY <1>1, <1>3 DEF ProfileInv, FilesInv, WriteInv
<1> QED
  BY <1>1, <1>4, <1>5 DEF ProfileInv

LEMMA CrashProfileInv ==
  ASSUME ProfileInv, Crash
  PROVE  ProfileInv'
<1>1. /\ pc # "off" /\ pc' = "off" /\ opts' = NoOptions /\ next' = 1 /\ results' = <<>>
      /\ UNCHANGED <<files, ended, updated>>
  BY DEF Crash
<1>2. ended' = FALSE
  BY <1>1 DEF ProfileInv, WriteInv
<1>3. next' \in 1 .. Len(Cases) + 1
  BY <1>1, CaseNumbers
<1>4. FilesInv'
  BY <1>1 DEF ProfileInv, FilesInv
<1>5. ResultsInv'
  BY <1>1 DEF ResultsInv
<1>6. IsOptions(opts')
  BY <1>1 DEF IsOptions, NoOptions
<1> QED
  BY <1>1, <1>2, <1>3, <1>4, <1>5, <1>6
     DEF ProfileInv, TestedInv, CoverInv, KeepInv, WriteInv, Wrote

LEMMA UnchangedProfileInv ==
  ASSUME ProfileInv, UNCHANGED vars
  PROVE  ProfileInv'
<1>1. UNCHANGED <<files, pc, opts, next, results, out, target, old, ended, updated>>
  BY DEF vars
<1>2. WritePath' = WritePath
  BY <1>1, WritePathKept
<1>3. /\ \A k : Found(k)' <=> Found(k)
      /\ Wrote' <=> Wrote
      /\ Flushes' = Flushes
  BY <1>1, <1>2 DEF Found, Wrote, Flushes
<1>4. FilesInv' /\ ResultsInv'
  BY <1>1 DEF ProfileInv, FilesInv, ResultsInv
<1>5. TestedInv'
  BY <1>1 DEF ProfileInv, TestedInv, FromFile, FromTest, Measured
<1>6. CoverInv'
  BY <1>1, <1>3 DEF ProfileInv, CoverInv, Covered, Measured
<1>7. KeepInv'
  BY <1>1, <1>3 DEF ProfileInv, KeepInv, Entries
<1>8. WriteInv'
  <2>1. \A f, d : Written(f, d)' <=> Written(f, d)
    BY <1>1 DEF Written
  <2>2. \A f : Progress(f)' <=> Progress(f)
    BY <1>1, <1>3, <2>1 DEF Progress
  <2> QED
    BY <1>1, <1>2, <1>3, <2>1, <2>2 DEF ProfileInv, WriteInv
<1> QED
  BY <1>1, <1>4, <1>5, <1>6, <1>7, <1>8 DEF ProfileInv

(* The inductive invariant of the profiler.                                *)
THEOREM ProfileInvariantHolds == Spec => []ProfileInv
<1>1. ProfileInv /\ [Next]_vars => ProfileInv'
  <2> SUFFICES ASSUME ProfileInv, [Next]_vars PROVE ProfileInv'
    OBVIOUS
  <2>1. ASSUME NEW o \in Options, Start(o) PROVE ProfileInv'
    <3>1. IsOptions(o)
      BY PlacesAssumption DEF IsOptions
    <3> QED
      BY <2>1, <3>1, StartProfileInv
  <2>2. CASE Test
    BY <2>2, TestCaseProfileInv DEF Test
  <2> QED
    BY <2>1, <2>2, SkipCaseProfileInv, EndWithoutFileProfileInv, OpenConfigProfileInv,
       WriteLineProfileInv, CloseProfileInv, CrashProfileInv, UnchangedProfileInv DEF Next
<1> QED
  BY <1>1, InitProfileInv, PTL DEF Spec

(* The files, also half written ones, hold the comments, blank lines, and  *)
(* lines of a kernel and two of its implementations; a result is of a      *)
(* kernel of the list, also when a puppet has been tested; the file that   *)
(* is written lies at one of the places (main, write_results).             *)
THEOREM ProfileTypes == Spec => []TypeOK
<1> DEFINE TargetKnown == target \in Places \cup {NoPath}
<1>1. Init => TargetKnown
  BY DEF Init
<1>2. ProfileInv /\ TargetKnown /\ [Next]_vars => TargetKnown'
  <2> SUFFICES ASSUME ProfileInv, TargetKnown, [Next]_vars PROVE TargetKnown'
    OBVIOUS
  <2>1. CASE OpenConfig
    <3>1. Destination \in Places \cup {NoPath}
      BY PathFacts DEF Destination, ProfileInv, IsOptions
    <3> QED
      BY <2>1, <3>1 DEF OpenConfig
  <2>2. CASE ~OpenConfig /\ ~Close /\ ~Crash
    BY <2>2 DEF Next, Start, Test, TestCase, SkipCase, EndWithoutFile, WriteLine, vars
  <2> QED
    BY <2>1, <2>2 DEF Close, Crash
<1>3. ProfileInv /\ TargetKnown => TypeOK
  <2> SUFFICES ASSUME ProfileInv, TargetKnown PROVE TypeOK
    OBVIOUS
  <2>1. \A p \in Places : files[p] = NoFile \/ files[p] \in Seq(FileLine)
    BY DEF ProfileInv, FilesInv, IsResultFile
  <2>2. \A n \in DOMAIN results : results[n].config \in Configs \cup {""}
    BY DEF ProfileInv, ResultsInv
  <2> QED
    BY <2>1, <2>2 DEF TypeOK, ProfileInv, IsOptions
<1> QED
  BY <1>1, <1>2, <1>3, ProfileInvariantHolds, PTL DEF Spec

(* The preferences a program finds when it starts.                         *)
LEMMA PrefsFacts ==
  ASSUME FilesInv
  PROVE  /\ DOMAIN Prefs \subseteq Nat
         /\ \A k \in Configs : \A n, m \in Entries(Prefs, k) : n = m
         /\ ReadPath = NoPath => Prefs = <<>> /\ DOMAIN Prefs = {}
         /\ ReadPath # NoPath => /\ ReadPath \in Places /\ files[ReadPath] # NoFile
                                 /\ IsResultFile(files[ReadPath])
                                 /\ Prefs = LoadPreferences(files[ReadPath])
<1>1. ASSUME ReadPath = NoPath
      PROVE  Prefs = <<>> /\ DOMAIN Prefs = {} /\ \A k \in Configs : Entries(Prefs, k) = {}
  <2>1. Prefs = <<>> /\ DOMAIN <<>> = {}
    BY <1>1 DEF Prefs
  <2> QED
    BY <2>1 DEF Entries
<1>2. ASSUME ReadPath # NoPath
      PROVE  /\ ReadPath \in Places /\ files[ReadPath] # NoFile /\ IsResultFile(files[ReadPath])
             /\ Prefs = LoadPreferences(files[ReadPath])
  BY <1>2, PathFacts DEF FilesInv, Prefs
<1> QED
  BY <1>1, <1>2, LoadedPreferences

(* What a run without -u has written so far prefers no aligned             *)
(* implementation for unaligned buffers.                                   *)
TargetSafe ==
  pc = "write" /\ target \in Writable /\ ~opts.update => IsSafeFile(files[target])

LEMMA TargetIsSafe == ProfileInv => TargetSafe
<1> SUFFICES ASSUME ProfileInv, pc = "write", target \in Writable, ~opts.update
             PROVE  IsSafeFile(files[target])
  BY DEF TargetSafe
<1> DEFINE f == files[target]
           d == Len(results) - Len(out)
<1>1. ResultsInv /\ Progress(f) /\ out \in Seq(Seq(FileLine))
  BY DEF ProfileInv, WriteInv
<1>2. CASE f = <<>>
  <2>1. DOMAIN <<>> = {}
    OBVIOUS
  <2> QED
    BY <1>2, <2>1 DEF IsSafeFile
<1>3. CASE Len(out) <= Len(results) /\ Written(f, d)
  <2>1. Len(results) \in Nat /\ Len(out) \in Nat
    BY <1>1, FlushesShape
  <2>2. d \in Nat /\ d <= Len(results)
    BY <1>3, <2>1
  <2> HIDE DEF f, d
  <2>3. \A i \in DOMAIN f : Len(f[i]) = 3 =>
          /\ i - 2 \in DOMAIN results /\ results[i - 2].config = f[i][1]
          /\ results[i - 2].u = f[i][3] /\ results[i - 2].config # ""
    BY <1>1, <1>3, <2>2, WrittenIsResultFile, Zenon
  <2>4. \A n \in DOMAIN results : results[n].config # "" =>
          results[n].u \in Unaligned(results[n].config)
    BY <1>1, Zenon DEF ResultsInv
  <2> SUFFICES ASSUME NEW i \in DOMAIN f, Len(f[i]) = 3 PROVE f[i][3] \in Unaligned(f[i][1])
    BY DEF IsSafeFile, f
  <2> QED
    BY <2>3, <2>4, Zenon
<1> QED
  BY <1>1, <1>2, <1>3 DEF Progress

LEMMA SafeInvKept ==
  ASSUME ProfileInv, TargetSafe', SafeInv, [Next]_vars
  PROVE  SafeInv'
<1>1. CASE UNCHANGED <<files, updated>>
  BY <1>1 DEF SafeInv
<1>2. CASE WriteLine
  <2>1. /\ pc' = "write" /\ pc = "write" /\ opts' = opts /\ target' = target /\ updated' = updated
        /\ files' = IF target \in Writable THEN [files EXCEPT ![target] = @ \o Head(out)] ELSE files
    BY <1>2 DEF WriteLine
  <2>2. /\ target \in Places /\ DOMAIN files = Places
        /\ opts.update <=> target \in updated
    BY <2>1 DEF ProfileInv, WriteInv, FilesInv
  <2>3. \A p \in Places : p # target \/ target \notin Writable => files'[p] = files[p]
    BY <2>1, <2>2
  <2>4. target \in Writable /\ target \notin updated => IsSafeFile(files'[target])
    BY <2>1, <2>2 DEF TargetSafe
  <2> QED
    BY <2>1, <2>3, <2>4 DEF SafeInv
<1>3. CASE OpenConfig
  <2>1. /\ Destination # NoPath
        /\ files' = IF Destination \in Writable THEN [files EXCEPT ![Destination] = <<>>] ELSE files
        /\ updated' = IF opts.update THEN updated \cup {Destination} ELSE updated \ {Destination}
    BY <1>3 DEF OpenConfig
  <2>2. DOMAIN files = Places
    BY DEF ProfileInv, FilesInv
  <2>3. \A p \in Places : p # Destination =>
          files'[p] = files[p] /\ (p \in updated' <=> p \in updated)
    BY <2>1, <2>2
  <2>4. Destination \in Places =>
          IF Destination \in Writable THEN files'[Destination] = <<>>
          ELSE files'[Destination] = files[Destination]
    BY <2>1, <2>2
  <2>5. IsSafeFile(<<>>)
    <3>1. DOMAIN <<>> = {}
      OBVIOUS
    <3> QED
      BY <3>1 DEF IsSafeFile
  <2> QED
    BY <2>3, <2>4, <2>5 DEF SafeInv
<1>4. Test \/ SkipCase \/ EndWithoutFile \/ Close \/ Crash \/ UNCHANGED vars
      => UNCHANGED <<files, updated>>
  BY DEF Start, Test, TestCase, SkipCase, EndWithoutFile, Close, Crash, vars
<1>5. ASSUME NEW o \in Options, Start(o) PROVE UNCHANGED <<files, updated>>
  BY <1>5 DEF Start
<1> QED
  BY <1>1, <1>2, <1>3, <1>4, <1>5 DEF Next

LEMMA SafeForThePrograms ==
  ASSUME ProfileInv, SafeInv
  PROVE  SafeUnlessUpdated
<1> SUFFICES ASSUME ReadPath \notin updated, NEW k \in Configs PROVE ~Ranked(k, FALSE).aligned
  BY DEF SafeUnlessUpdated, SafeForUnaligned
<1> DEFINE T == Table(k)
           impls == Impls[k]
<1>1. /\ DOMAIN impls \subseteq Nat
      /\ \A i \in DOMAIN impls : Mask(impls[i].deps) \in 0 .. MaxInt /\ impls[i].aligned \in BOOLEAN
      /\ \A i, j \in DOMAIN impls : First20[impls[i].name] = First20[impls[j].name] => i = j
      /\ \E i \in DOMAIN impls : impls[i].name = "generic" /\ ~impls[i].aligned
  <2>1. impls \in Seq([name : STRING, deps : SUBSET Nat, aligned : BOOLEAN])
    BY ImplsAssumption
  <2>2. DOMAIN impls \subseteq Nat /\ \A i \in DOMAIN impls : impls[i].aligned \in BOOLEAN
    <3>1. DOMAIN impls = 1 .. Len(impls) /\ Len(impls) \in Nat
      BY <2>1, SeqDomain, Zenon
    <3>2. \A i \in DOMAIN impls : impls[i] \in [name : STRING, deps : SUBSET Nat, aligned : BOOLEAN]
      BY <2>1, ElementOf, Zenon
    <3> HIDE DEF impls
    <3> QED BY <3>1, <3>2
  <2> QED
    BY <2>2, ImplsAssumption
<1>2. T = DOMAIN impls
  BY DEF Table
<1>3. \A p \in DOMAIN Prefs : Prefs[p].name = k => Prefs[p].impl_u \in Unaligned(k)
  <2> SUFFICES ASSUME NEW p \in DOMAIN Prefs, Prefs[p].name = k PROVE Prefs[p].impl_u \in Unaligned(k)
    OBVIOUS
  <2>1. FilesInv
    BY DEF ProfileInv
  <2>2. ReadPath # NoPath
    BY <2>1, PrefsFacts
  <2> DEFINE f == files[ReadPath]
  <2>3. ReadPath \in Places /\ f # NoFile /\ IsResultFile(f) /\ Prefs = LoadPreferences(f)
    BY <2>1, <2>2, PrefsFacts
  <2>4. IsSafeFile(f)
    BY <2>3 DEF SafeInv
  <2> HIDE DEF f
  <2>5. p \in Entries(Prefs, k)
    BY DEF Entries
  <2>6. p \in DOMAIN f /\ Len(f[p]) = 3 /\ f[p][1] = k
    BY <2>3, <2>5, LoadedPreferences
  <2>7. Prefs[p] = [name |-> f[p][1], impl_a |-> f[p][2], impl_u |-> f[p][3]]
    BY <2>3, LoadedPreferences
  <2> QED
    BY <2>4, <2>6, <2>7 DEF IsSafeFile
<1>4. \A n \in Unaligned(k) : \A i \in Named(impls, T, n) : ~impls[i].aligned
  BY <1>1, <1>2 DEF Unaligned, NamesOf, OfAlignment, Named
<1>5. NoEnv.override[k] = Unset
  BY DEF NoEnv
<1>6. DOMAIN Prefs \subseteq Nat
  BY PrefsFacts DEF ProfileInv
<1>7. Named(impls, T, "generic") # {} /\ \A i \in Named(impls, T, "generic") : ~impls[i].aligned
  BY <1>1, <1>2 DEF Named
<1>8. \A p \in DOMAIN Prefs : Prefs[p].name = k =>
        \A i \in Named(impls, T, Prefs[p].impl_u) : ~impls[i].aligned
  BY <1>3, <1>4
<1> HIDE DEF T, impls
<1>9. ~impls[RankArchs(NoEnv, Prefs, k, impls, T, FALSE)].aligned
  BY <1>1, <1>2, <1>5, <1>6, <1>7, <1>8, RankUnalignedIsUnaligned
<1> QED
  BY <1>9 DEF Ranked, impls, T

(***************************************************************************)
(* A program that starts at any moment, while volk_profile writes and      *)
(* after it was killed included, takes no implementation that requires     *)
(* alignment for unaligned buffers, unless a run with -u wrote the file it *)
(* reads (main, write_results, volk_load_preferences): if the files the    *)
(* first run found were of that kind.                                      *)
(***************************************************************************)
THEOREM ConfigIsSafe ==
  ASSUME \A f \in Before : f = NoFile \/ IsSafeFile(f)
  PROVE  Spec => []SafeUnlessUpdated
<1>1. Init => SafeInv
  <2> SUFFICES ASSUME Init PROVE SafeInv
    OBVIOUS
  <2>1. PICK f \in Before, p \in Places : files = [q \in Places |-> IF q = p THEN f ELSE NoFile]
    BY DEF Init
  <2> QED
    BY <2>1 DEF SafeInv
<1>2. ProfileInv /\ TargetSafe' /\ SafeInv /\ [Next]_vars => SafeInv'
  BY SafeInvKept
<1>3. ProfileInv /\ SafeInv => SafeUnlessUpdated
  BY SafeForThePrograms
<1> QED
  BY <1>1, <1>2, <1>3, TargetIsSafe, ProfileInvariantHolds, PTL DEF Spec

-----------------------------------------------------------------------------
(* After a run that came to its end: the file that is read has an entry    *)
(* for every kernel of the results, and no other entry for it.             *)
LEMMA ReadsWhatWasWritten ==
  ASSUME ProfileInv, Wrote, NEW n \in DOMAIN results, results[n].config \in Configs
  PROVE  LET r == results[n]
         IN  /\ Entries(Prefs, r.config) = {n + 2} /\ n + 2 \in Nat
             /\ Prefs[n + 2] = [name |-> r.config, impl_a |-> r.a, impl_u |-> r.u]
<1> DEFINE r == results[n]
           f == files[WritePath]
           N == Len(results)
<1>1. ResultsInv /\ FilesInv /\ Written(f, N)
  BY DEF ProfileInv, WriteInv
<1>2. N \in Nat /\ n \in 1 .. N /\ N <= N
  BY <1>1, FlushesShape
<1>3. WritePath \in Places
  BY PlacesAssumption DEF Wrote
<1> HIDE DEF f, N
<1>4. IsResultFile(f) /\ f # NoFile /\ n + 2 \in DOMAIN f /\ f[n + 2] = <<r.config, r.a, r.u>>
  BY <1>1, <1>2, WrittenIsResultFile, NamesAreStrings, Zenon DEF N
<1>5. ReadPath = WritePath /\ ReadPath # NoPath
  BY <1>3, <1>4, PathFacts, CaseFacts DEF f
<1>6. Prefs = LoadPreferences(f)
  BY <1>1, <1>5, PrefsFacts DEF f
<1>7. r.config \in Configs
  OBVIOUS
<1> HIDE DEF r
<1>8. Len(f[n + 2]) = 3 /\ f[n + 2][1] = r.config /\ f[n + 2][2] = r.a /\ f[n + 2][3] = r.u
  BY <1>4
<1>9. n + 2 \in Entries(Prefs, r.config)
  BY <1>4, <1>6, <1>7, <1>8, LoadedPreferences
<1>10. Entries(Prefs, r.config) = {n + 2}
  BY <1>4, <1>6, <1>7, <1>9, LoadedPreferences
<1>11. n + 2 \in DOMAIN Prefs
  BY <1>9 DEF Entries
<1> QED
  BY <1>2, <1>4, <1>6, <1>8, <1>10, <1>11, LoadedPreferences DEF r

(***************************************************************************)
(* The next program that starts takes for every kernel the two             *)
(* implementations that volk_profile found the fastest (write_results,     *)
(* volk_get_config_path, volk_load_preferences, volk_rank_archs).          *)
(***************************************************************************)
THEOREM ResultsReachTheLibrary == Spec => []RoundTrip
<1>1. ASSUME ProfileInv, Wrote, NEW n \in DOMAIN results, results[n].config \in Configs,
             NEW align \in BOOLEAN
      PROVE  Ranked(results[n].config, align).name = IF align THEN results[n].a ELSE results[n].u
  <2> DEFINE k == results[n].config
             a == results[n].a
             u == results[n].u
             w == IF align THEN a ELSE u
             T == Table(k)
  <2>1. /\ Entries(Prefs, k) = {n + 2} /\ n + 2 \in Nat
        /\ Prefs[n + 2] = [name |-> k, impl_a |-> a, impl_u |-> u]
    BY <1>1, ReadsWhatWasWritten
  <2>2. k \in Configs /\ a \in NamesOf(k, T) /\ u \in NamesOf(k, T)
    BY <1>1, NamesAreStrings, Zenon DEF ProfileInv, ResultsInv
  <2> HIDE DEF k, a, u
  <2>3. PrefsOf(Prefs, k) = {n + 2}
    BY <2>1 DEF Entries, PrefsOf
  <2>4. First({n + 2}) = n + 2
    BY <2>1, FirstIsFirst
  <2>5. NoEnv.override[k] = Unset /\ NoEnv.generic = FALSE
    BY <2>2 DEF NoEnv
  <2>6. RankArchs(NoEnv, Prefs, k, Impls[k], T, align) = GetIndex(Impls[k], T, w)
    BY <2>1, <2>3, <2>4, <2>5 DEF RankArchs
  <2>7. Named(Impls[k], T, w) # {} /\ T \subseteq Nat /\ \E i \in T : Impls[k][i].name = w
    <3>1. w \in NamesOf(k, T)
      BY <2>2
    <3>2. DOMAIN Impls[k] \subseteq Nat
      <4>1. Impls[k] \in Seq([name : STRING, deps : SUBSET Nat, aligned : BOOLEAN])
        BY <2>2, ImplsAssumption
      <4> QED
        BY <4>1
    <3> QED
      BY <3>1, <3>2 DEF NamesOf, Named, Table
  <2> HIDE DEF w, T
  <2>8. Impls[k][GetIndex(Impls[k], T, w)].name = w
    <3>1. GetIndex(Impls[k], T, w) \in Named(Impls[k], T, w)
      BY <2>7, GetIndexByName
    <3>2. PICK i \in T : Impls[k][i].name = w
      BY <2>7
    <3>3. \A m \in T : First20[Impls[k][m].name] = First20[Impls[k][i].name] => m = i
      BY <2>2, <3>2, ImplsAssumption DEF T, Table
    <3> QED
      BY <3>1, <3>2, <3>3 DEF Named
  <2> QED
    BY <2>6, <2>8 DEF Ranked, T, w, k, a, u
<1>2. ProfileInv => RoundTrip
  <2> SUFFICES ASSUME ProfileInv, Wrote, NEW n \in DOMAIN results, results[n].config # ""
               PROVE  /\ Ranked(results[n].config, TRUE).name = results[n].a
                      /\ Ranked(results[n].config, FALSE).name = results[n].u
    BY Zenon DEF RoundTrip
  <2>1. results[n].config \in Configs
    BY Zenon DEF ProfileInv, ResultsInv
  <2>2. TRUE \in BOOLEAN /\ FALSE \in BOOLEAN
    BY Zenon
  <2>3. /\ Ranked(results[n].config, TRUE).name = IF TRUE THEN results[n].a ELSE results[n].u
        /\ Ranked(results[n].config, FALSE).name = IF FALSE THEN results[n].a ELSE results[n].u
    BY <1>1, <2>1, <2>2, Zenon
  <2> QED
    BY <2>3, Zenon
<1> QED
  BY <1>2, ProfileInvariantHolds, PTL

(***************************************************************************)
(* A run with -u that came to its end has lost no kernel of the file, and  *)
(* one over all tests has an entry for every kernel with a choice          *)
(* (read_results, write_results).                                          *)
(***************************************************************************)
THEOREM UpdatesAreComplete == Spec => []UpdateCompletes
<1>1. ASSUME ProfileInv, Wrote, opts.update, NEW k \in Configs,
             \/ Entries(old, k) # {}
             \/ /\ \A c \in DOMAIN Cases : Cases[c].name \in opts.only
                /\ Measured(k)
      PROVE  Entries(Prefs, k) # {}
  <2>1. Found(k)
    <3>1. CASE Entries(old, k) # {}
      BY <1>1, <3>1 DEF ProfileInv, KeepInv, Wrote
    <3>2. CASE /\ \A c \in DOMAIN Cases : Cases[c].name \in opts.only
               /\ Measured(k)
      <4>1. PICK c \in DOMAIN Cases : Cases[c].config = k
        BY CaseFacts, Zenon
      <4> QED
        BY <1>1, <3>2, <4>1 DEF ProfileInv, CoverInv, Covered
    <3> QED
      BY <1>1, <3>1, <3>2
  <2>2. PICK n \in DOMAIN results : results[n].config = k
    BY <2>1 DEF Found
  <2>3. Entries(Prefs, k) = {n + 2}
    BY <1>1, <2>2, ReadsWhatWasWritten
  <2> QED
    BY <2>3
<1>2. ProfileInv => UpdateCompletes
  BY <1>1 DEF UpdateCompletes
<1> QED
  BY <1>2, ProfileInvariantHolds, PTL

(***************************************************************************)
(* The file that is read never has two entries for a kernel, although      *)
(* puppets are tested under other names (main, read_results).              *)
(***************************************************************************)
THEOREM EntriesAreUnique == Spec => []OneEntryPerKernel
<1>1. ASSUME ProfileInv, NEW k \in Configs PROVE Cardinality(Entries(Prefs, k)) <= 1
  <2>1. \A n, m \in Entries(Prefs, k) : n = m
    BY <1>1, PrefsFacts DEF ProfileInv
  <2>2. CASE Entries(Prefs, k) = {}
    BY <2>2, FS_EmptySet
  <2>3. ASSUME NEW n \in Entries(Prefs, k) PROVE Cardinality(Entries(Prefs, k)) = 1
    <3>1. Entries(Prefs, k) = {n}
      BY <2>1
    <3> QED
      BY <3>1, FS_Singleton
  <2> QED
    BY <2>2, <2>3
<1>2. ProfileInv => OneEntryPerKernel
  BY <1>1 DEF OneEntryPerKernel
<1> QED
  BY <1>2, ProfileInvariantHolds, PTL

-----------------------------------------------------------------------------
(* The memory that buffers are made of.                                    *)
(* What a block is; the invariant needs it for arithmetic.                 *)
IsBlock(b) ==
  /\ b.at \in Nat /\ b.asked \in 0 .. SizeWords - 1
  /\ b.alignment \in Machines \ {0}
  /\ b.bytes = Rounded(b.asked, b.alignment)
  /\ b.at % b.alignment = 0

MemoryInv == \A b \in blocks : IsBlock(b)

(* The alignments a machine has, one by one, for the solver.               *)
LEMMA MachineCases ==
  ASSUME NEW m \in Machines \ {0}
  PROVE  /\ m \in Nat /\ SizeWords \in Nat /\ SizeWords % m = 0
         /\ m = 1 \/ m = 2 \/ m = 4 \/ m = 8 \/ m = 16 \/ m = 32 \/ m = 64 \/ m = 128
  BY MemoryAssumption DEF MemoryAssumption, Powers

(* A size that fits is rounded to the next multiple, unless that is 2^w.   *)
LEMMA RoundedUp ==
  ASSUME NEW m \in Machines \ {0}, NEW size \in 0 .. SizeWords - 1
  PROVE  /\ Rounded(size, m) % m = 0
         /\ Rounded(size, m) >= size <=> ~(size > SizeWords - m)
<1> DEFINE r == size % m
           up == size + m - r
<1>1. m \in Nat /\ SizeWords \in Nat /\ SizeWords % m = 0 /\ SizeWords > 0
  BY MachineCases, MemoryAssumption DEF MemoryAssumption
<1>2. r = 0 => Rounded(size, m) = size /\ size % m = 0 /\ size <= SizeWords - m
  <2>1. r = 0 => size <= SizeWords - m
    BY <1>1, MachineCases
  <2>2. QED BY <2>1 DEF Rounded
<1>3. r # 0 => /\ up \in Nat /\ up % m = 0 /\ up > size /\ up <= SizeWords
               /\ size <= SizeWords - m <=> up < SizeWords
  BY <1>1, MachineCases
<1>4. r # 0 /\ up = SizeWords => Rounded(size, m) = 0 /\ size > 0
  BY <1>1, <1>3 DEF Rounded
<1>5. r # 0 /\ up < SizeWords => Rounded(size, m) = up
  BY <1>1, <1>3 DEF Rounded
<1>6. 0 % m = 0
  BY <1>1, MachineCases
<1>7. QED BY <1>1, <1>2, <1>3, <1>4, <1>5, <1>6

(* A block that is one is right.                                           *)
LEMMA BlockHolds ==
  ASSUME NEW b, IsBlock(b)
  PROVE  /\ b.at % b.alignment = 0 /\ b.bytes % b.alignment = 0
         /\ b.bytes >= b.asked <=> ~RoundsOver(b)
<1>1. b.alignment \in Machines \ {0} /\ b.asked \in 0 .. SizeWords - 1
  BY DEF IsBlock
<1>2. /\ Rounded(b.asked, b.alignment) % b.alignment = 0
      /\ Rounded(b.asked, b.alignment) >= b.asked <=> ~(b.asked > SizeWords - b.alignment)
  BY <1>1, RoundedUp
<1>3. QED BY <1>2 DEF IsBlock, RoundsOver

(* Where there is memory, its address suits the alignment.                 *)
LEMMA PointersSuit ==
  ASSUME NEW m \in Machines, NEW size, NEW at \in Pointers(size, m), at # 0
  PROVE  m # 0 /\ at \in Nat /\ at % m = 0
<1>1. m # 0 /\ m \in Machines \ {0}
  BY DEF Pointers
<1>2. QED BY <1>1 DEF Pointers, Malloc, Aligned, Fits

(* A block that is received in a step is one of the invariant.             *)
LEMMA Received ==
  ASSUME MemoryInv, NEW m \in Machines, NEW size \in 0 .. SizeWords - 1,
         NEW at \in Pointers(size, m), Receive(at, size, m)
  PROVE  MemoryInv'
<1>1. CASE at = 0
  BY <1>1 DEF Receive, MemoryInv
<1>2. CASE at # 0
  <2>1. IsBlock(Block(at, size, m))
    BY <1>2, PointersSuit DEF IsBlock, Block
  <2>2. blocks' = blocks \cup {Block(at, size, m)}
    BY <1>2 DEF Receive
  <2>3. QED BY <2>1, <2>2 DEF MemoryInv
<1>3. QED BY <1>1, <1>2

(* What allocate has checked makes the product a size.                     *)
LEMMA Product ==
  ASSUME NEW n \in Nat, NEW e \in Nat \ {0}, n <= (SizeWords - 1) \div e
  PROVE  /\ n * e \in 0 .. SizeWords - 1
         /\ (n * e) % SizeWords = n * e
<1>1. SizeWords \in Nat \ {0}
  BY MemoryAssumption DEF MemoryAssumption
<1> DEFINE q == (SizeWords - 1) \div e
<1>2. q \in Nat /\ q * e <= SizeWords - 1
  BY <1>1, SMTT(30)
<1> HIDE DEF q
<1>3. n * e <= q * e /\ n * e \in Nat
  <2>1. n <= q
    BY DEF q
  <2>2. QED BY <2>1, <1>2, SMTT(30)
<1>4. n * e \in 0 .. SizeWords - 1
  BY <1>1, <1>2, <1>3, SMTT(30)
<1>5. \A p \in 0 .. SizeWords - 1 : p % SizeWords = p
  BY <1>1
<1>6. QED BY <1>4, <1>5

(* Every block is what volk_malloc or allocate made of a size.             *)
THEOREM MemoryInvariant == MemorySpec => []MemoryInv
<1>1. MemoryInit => MemoryInv
  BY DEF MemoryInit, MemoryInv
<1>2. MemoryInv /\ [MemoryNext]_memoryVars => MemoryInv'
  <2> SUFFICES ASSUME MemoryInv, [MemoryNext]_memoryVars PROVE MemoryInv'
    OBVIOUS
  <2>1. ASSUME NEW size \in Counts, NEW m \in Machines, VolkMalloc(size, m)
        PROVE  MemoryInv'
    <3>1. PICK at \in Pointers(size, m) : Receive(at, size, m)
      BY <2>1 DEF VolkMalloc
    <3>2. size \in 0 .. SizeWords - 1
      BY MemoryAssumption DEF MemoryAssumption
    <3>3. QED BY <3>1, <3>2, Received
  <2>2. ASSUME NEW n \in Counts, NEW e \in Elements, NEW m \in Machines, Allocate(n, e, m)
        PROVE  MemoryInv'
    <3>1. n \in Nat /\ e \in Nat \ {0} /\ n <= (SizeWords - 1) \div e
      BY <2>2, MemoryAssumption DEF MemoryAssumption, Allocate
    <3>2. n * e \in 0 .. SizeWords - 1 /\ (n * e) % SizeWords = n * e
      BY <3>1, Product
    <3>3. PICK at \in Pointers((n * e) % SizeWords, m) : Receive(at, n * e, m)
      BY <2>2 DEF Allocate
    <3>4. at \in Pointers(n * e, m)
      BY <3>2, <3>3
    <3>5. QED BY <3>2, <3>3, <3>4, Received
  <2>3. ASSUME NEW b \in blocks, VolkFree(b)
        PROVE  MemoryInv'
    BY <2>3 DEF VolkFree, MemoryInv
  <2>4. CASE UNCHANGED memoryVars
    BY <2>4 DEF memoryVars, MemoryInv
  <2>5. QED BY <2>1, <2>2, <2>3, <2>4 DEF MemoryNext
<1>3. QED BY <1>1, <1>2, PTL DEF MemorySpec

(* volk_malloc and volk::alloc give as much memory as was asked for, where *)
(* the aligned implementations can take it, but for sizes whose rounding   *)
(* goes over the end of size_t: for every width of size_t, every heap, the *)
(* three libraries, and all sizes and alignments.                          *)
THEOREM BlocksAlwaysHold == MemorySpec => []BlocksHold
<1>1. MemoryInv => BlocksHold
  BY BlockHolds DEF MemoryInv, BlocksHold
<1>2. QED BY <1>1, MemoryInvariant, PTL
=================================================================================
