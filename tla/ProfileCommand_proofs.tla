------------------------- MODULE ProfileCommand_proofs -------------------------
(***************************************************************************)
(* What the command line of volk_profile comes to: for any options, any    *)
(* arguments in any order, and any lines.                                  *)
(***************************************************************************)
EXTENDS ProfileCommand, RankArchs_proofs

(* Sequences.                                                              *)
LEMMA ElementOf ==
  ASSUME NEW T, NEW s \in Seq(T), NEW i \in DOMAIN s
  PROVE  s[i] \in T
OBVIOUS

(* The list of options.                                                    *)
Listed == DOMAIN OptionTable

LEMMA TableFacts ==
  /\ Len(OptionTable) \in Nat /\ Listed = 1 .. Len(OptionTable)
  /\ \A o \in Listed : /\ OptionTable[o].kind \in {"bool", "number", "string"}
                      /\ Names(OptionTable[o]) \subseteq Dashed \ Help
  /\ \A o, q \in Listed : \A a : a \in Names(OptionTable[o]) \cap Names(OptionTable[q]) => o = q
<1>1. OptionTable \in Seq([long : Dashed, short : Dashed, kind : {"bool", "number", "string"}])
  BY OptionTableAssumption
<1>2. Len(OptionTable) \in Nat /\ Listed = 1 .. Len(OptionTable)
  BY <1>1 DEF Listed
<1>3. \A o \in Listed : OptionTable[o] \in [long : Dashed, short : Dashed, kind : {"bool", "number", "string"}]
  BY <1>1, ElementOf DEF Listed
<1> QED
  BY <1>2, <1>3, OptionTableAssumption DEF Listed, Names

(* The options compared one after the other.                               *)
LEMMA FoldedOptions ==
  ASSUME NEW b
  PROVE  \E at : /\ at[0] = b
                 /\ \A n \in Listed : at[n] = Matching(at[n - 1], OptionTable[n])
                 /\ FoldLeft(Matching, b, OptionTable) = at[Len(OptionTable)]
<1> DEFINE K == Len(OptionTable)
           Step(f, s) == IF s = {} THEN b ELSE Matching(f[s \ {Max(s)}], OptionTable[Max(s)])
           Rec(D, f) == f = [s \in SUBSET D |-> Step(f, s)]
<1>1. K \in Nat /\ Listed = 1 .. K
  BY TableFacts
<1>m. \A n \in Nat : \A s \in SUBSET (1 .. n + 1) : n + 1 \in s => Max(s) = n + 1
  <2> TAKE n \in Nat
  <2> TAKE s \in SUBSET (1 .. n + 1)
  <2> HAVE n + 1 \in s
  <2>1. \A y \in s : y \in Int /\ n + 1 >= y
    OBVIOUS
  <2>2. \A x \in s : (\A y \in s : x >= y) => x = n + 1
    BY <2>1
  <2> QED
    BY <2>1, <2>2 DEF Max
<1>2. \E f : Rec(1 .. 0, f)
  <2> DEFINE f == [s \in SUBSET (1 .. 0) |-> b]
  <2>1. 1 .. 0 = {}
    OBVIOUS
  <2>2. f = [s \in SUBSET (1 .. 0) |-> Step(f, s)]
    BY <2>1
  <2> QED
    BY <2>2
<1>3. ASSUME NEW n \in Nat, \E f : Rec(1 .. n, f)
      PROVE  \E f : Rec(1 .. n + 1, f)
  <2> PICK f : Rec(1 .. n, f)
    BY <1>3
  <2> DEFINE g == [s \in SUBSET (1 .. n + 1) |->
                     IF n + 1 \in s THEN Matching(f[s \ {n + 1}], OptionTable[n + 1]) ELSE f[s]]
  <2>1. \A s \in SUBSET (1 .. n + 1) : n + 1 \notin s => s \in SUBSET (1 .. n)
    OBVIOUS
  <2>2. \A s \in SUBSET (1 .. n) : s \in SUBSET (1 .. n + 1) /\ n + 1 \notin s /\ g[s] = f[s]
    <3> TAKE s \in SUBSET (1 .. n)
    <3>1. s \in SUBSET (1 .. n + 1) /\ n + 1 \notin s
      OBVIOUS
    <3> QED
      BY <3>1
  <2>3. ASSUME NEW s \in SUBSET (1 .. n + 1) PROVE g[s] = Step(g, s)
    <3>1. CASE n + 1 \in s
      <4>1. Max(s) = n + 1 /\ s \ {n + 1} \in SUBSET (1 .. n) /\ s # {}
        BY <3>1, <1>m
      <4>2. g[s \ {n + 1}] = f[s \ {n + 1}]
        BY <4>1, <2>2
      <4>3. g[s] = Matching(f[s \ {n + 1}], OptionTable[n + 1])
        BY <3>1
      <4> HIDE DEF g
      <4> QED
        BY <4>1, <4>2, <4>3
    <3>2. CASE n + 1 \notin s
      <4>1. s \in SUBSET (1 .. n) /\ s \ {Max(s)} \in SUBSET (1 .. n)
        BY <3>2, <2>1
      <4>2. f[s] = Step(f, s)
        BY <4>1
      <4>3. g[s] = f[s] /\ g[s \ {Max(s)}] = f[s \ {Max(s)}]
        BY <4>1, <2>2
      <4> HIDE DEF g
      <4> QED
        BY <4>2, <4>3
    <3> QED
      BY <3>1, <3>2
  <2>4. g = [s \in SUBSET (1 .. n + 1) |-> g[s]]
    OBVIOUS
  <2> HIDE DEF g
  <2>5. g = [s \in SUBSET (1 .. n + 1) |-> Step(g, s)]
    BY <2>3, <2>4
  <2> QED
    BY <2>5
<1>4. \E f : Rec(1 .. K, f)
  <2> DEFINE Good(m) == \E f : Rec(1 .. m, f)
             good == {m \in 0 .. K : Good(m)}
  <2>1. Good(0) /\ \A m \in Nat : Good(m) => Good(m + 1)
    BY <1>2, <1>3
  <2> HIDE DEF Good
  <2>2. 0 \in good /\ \A m \in 0 .. K - 1 : m \in good => m + 1 \in good
    BY <2>1, <1>1
  <2>3. \A m \in 0 .. K : m \in good
    <3> HIDE DEF good
    <3> QED
      BY <2>2, <1>1, CountedUp
  <2>4. Good(K)
    BY <2>3, <1>1
  <2> QED
    BY <2>4 DEF Good
<1> DEFINE iter == CHOOSE f : Rec(Listed, f)
<1>5. Rec(Listed, iter)
  <2>1. \E f : Rec(Listed, f)
    BY <1>1, <1>4
  <2> HIDE DEF Rec
  <2> QED
    BY <2>1
<1>6. FoldLeft(Matching, b, OptionTable) = iter[Listed]
  BY DEF FoldLeft, MapThenFoldSet, Listed
<1> HIDE DEF iter
<1> DEFINE at == [n \in 0 .. K |-> iter[1 .. n]]
<1>7. at[0] = b
  <2>1. 1 .. 0 = {} /\ {} \in SUBSET Listed
    OBVIOUS
  <2>2. iter[{}] = b
    BY <1>5, <2>1
  <2> QED
    BY <2>1, <2>2, <1>1
<1>8. ASSUME NEW n \in Listed PROVE at[n] = Matching(at[n - 1], OptionTable[n])
  <2>1. n \in Nat /\ n - 1 \in Nat /\ n <= K /\ n \in 1 .. n /\ n = (n - 1) + 1
    BY <1>1
  <2>2. 1 .. n \in SUBSET Listed /\ 1 .. n # {} /\ Max(1 .. n) = n
    <3>1. 1 .. n \in SUBSET (1 .. (n - 1) + 1)
      BY <2>1
    <3>2. Max(1 .. n) = (n - 1) + 1
      BY <2>1, <3>1, <1>m
    <3> QED
      BY <1>1, <2>1, <3>2
  <2>3. (1 .. n) \ {n} = 1 .. n - 1
    BY SMTT(30), <2>1
  <2>4. iter[1 .. n] = Matching(iter[1 .. n - 1], OptionTable[n])
    BY <1>5, <2>2, <2>3
  <2> QED
    BY <2>1, <2>4, <1>1
<1>9. FoldLeft(Matching, b, OptionTable) = at[K]
  BY <1>1, <1>6
<1> HIDE DEF at
<1> QED
  BY <1>7, <1>8, <1>9

-----------------------------------------------------------------------------
(* What the line says.                                                     *)
LEMMA KindOfOption ==
  /\ \A o \in Listed : \A a : a \in Names(OptionTable[o]) => KindOf(a) = OptionTable[o].kind
  /\ \A a : (\A o \in Listed : a \notin Names(OptionTable[o])) => KindOf(a) = "none"
<1>1. ToSet(OptionTable) = {OptionTable[o] : o \in Listed}
  BY DEF ToSet, Listed
<1>2. ASSUME NEW o \in Listed, NEW a, a \in Names(OptionTable[o])
      PROVE  KindOf(a) = OptionTable[o].kind
  <2>1. \A p \in ToSet(OptionTable) : a \in Names(p) => p = OptionTable[o]
    BY <1>1, <1>2, TableFacts
  <2>2. OptionTable[o] \in ToSet(OptionTable) /\ a \in Names(OptionTable[o])
    BY <1>1, <1>2
  <2>3. (CHOOSE p \in ToSet(OptionTable) : a \in Names(p)) = OptionTable[o]
    BY <2>1, <2>2
  <2> QED
    BY <2>2, <2>3 DEF KindOf
<1>3. ASSUME NEW a, \A o \in Listed : a \notin Names(OptionTable[o])
      PROVE  KindOf(a) = "none"
  BY <1>1, <1>3 DEF KindOf
<1> QED
  BY <1>2, <1>3

(* An argument is said unless it is the value of one that is.              *)
SaidRule ==
  /\ Said \subseteq 1 .. Len(line)
  /\ \A i \in 1 .. Len(line) :
       i \in Said <=> i = 1 \/ ~(i - 1 \in Said /\ HasValue(i - 1))

LEMMA SaidByRule == line \in Seq(STRING) => SaidRule
<1> SUFFICES ASSUME line \in Seq(STRING) PROVE SaidRule
  OBVIOUS
<1> DEFINE N == Len(line)
           Rec(m, f) == f = [i \in 1 .. m |-> i > 1 /\ ~f[i - 1] /\ HasValue(i - 1)]
           Good(m) == \E f : Rec(m, f)
           good == {m \in 0 .. N : Good(m)}
<1>1. N \in Nat
  OBVIOUS
<1>2. Good(0)
  <2> DEFINE f == [i \in 1 .. 0 |-> TRUE]
  <2>1. f = [i \in 1 .. 0 |-> i > 1 /\ ~f[i - 1] /\ HasValue(i - 1)]
    OBVIOUS
  <2> QED
    BY <2>1
<1>3. ASSUME NEW m \in Nat, Good(m) PROVE Good(m + 1)
  <2> PICK f : Rec(m, f)
    BY <1>3
  <2> DEFINE last == m + 1 > 1 /\ ~f[m] /\ HasValue(m)
             g == [i \in 1 .. m + 1 |-> IF i <= m THEN f[i] ELSE last]
  <2>1. \A i \in 1 .. m : i \in 1 .. m + 1 /\ g[i] = f[i]
    OBVIOUS
  <2>2. \A i \in 1 .. m : f[i] = (i > 1 /\ ~f[i - 1] /\ HasValue(i - 1))
    OBVIOUS
  <2>3. ASSUME NEW i \in 1 .. m + 1
        PROVE  g[i] = (i > 1 /\ ~g[i - 1] /\ HasValue(i - 1))
    <3>1. CASE i <= m
      <4>1. g[i] = f[i] /\ f[i] = (i > 1 /\ ~f[i - 1] /\ HasValue(i - 1))
        BY <3>1, <2>1, <2>2
      <4>2. i > 1 => g[i - 1] = f[i - 1]
        BY <3>1, <2>1
      <4> HIDE DEF g
      <4> QED
        BY <4>1, <4>2
    <3>2. CASE ~(i <= m)
      <4>1. i = m + 1 /\ g[i] = last /\ i - 1 = m
        BY <3>2
      <4>2. i > 1 => g[m] = f[m]
        BY <4>1, <2>1
      <4> HIDE DEF g
      <4> QED
        BY <4>1, <4>2
    <3> QED
      BY <3>1, <3>2
  <2>4. g = [i \in 1 .. m + 1 |-> g[i]]
    OBVIOUS
  <2> HIDE DEF g
  <2>5. g = [i \in 1 .. m + 1 |-> i > 1 /\ ~g[i - 1] /\ HasValue(i - 1)]
    BY <2>3, <2>4
  <2> QED
    BY <2>5
<1>4. Good(N)
  <2>1. Good(0) /\ \A m \in Nat : Good(m) => Good(m + 1)
    BY <1>2, <1>3
  <2> HIDE DEF Good
  <2>2. 0 \in good /\ \A m \in 0 .. N - 1 : m \in good => m + 1 \in good
    BY <2>1, <1>1
  <2>3. \A m \in 0 .. N : m \in good
    <3> HIDE DEF good
    <3> QED
      BY <2>2, <1>1, CountedUp
  <2> QED
    BY <2>3, <1>1
<1> DEFINE isValue == CHOOSE f : Rec(N, f)
<1>5. Rec(N, isValue)
  <2> HIDE DEF Rec
  <2> QED
    BY <1>4
<1>6. Said = {i \in 1 .. N : ~isValue[i]}
  BY DEF Said
<1> HIDE DEF isValue
<1>7. \A i \in 1 .. N : isValue[i] = (i > 1 /\ ~isValue[i - 1] /\ HasValue(i - 1))
  BY <1>5
<1>8. \A i \in 1 .. N : i \in Said <=> i = 1 \/ ~(i - 1 \in Said /\ HasValue(i - 1))
  <2> TAKE i \in 1 .. N
  <2>1. i \in Said <=> ~(i > 1 /\ ~isValue[i - 1] /\ HasValue(i - 1))
    BY <1>6, <1>7
  <2>2. i > 1 => i - 1 \in 1 .. N
    OBVIOUS
  <2>3. i > 1 => (i - 1 \in Said <=> ~isValue[i - 1])
    BY <2>2, <1>6
  <2> QED
    BY <2>1, <2>3
<1> QED
  BY <1>6, <1>8 DEF SaidRule

(* It does not depend on anything but the line.                            *)
LEMMA SaidStays == (line' = line) => Said' = Said
BY DEF Said, HasValue, KindOf, NumberBehind

-----------------------------------------------------------------------------
(* What a round of the loop makes of an argument that is said: the one     *)
(* option of that name is called, and those further down do not take its   *)
(* value for a name.                                                       *)
LEMMA RoundCallsOne ==
  ASSUME line \in Seq(STRING), Proper, NEW a \in Said, NEW g
  PROVE  LET start == [arg |-> a, given |-> g, alive |-> TRUE]
             s == FoldLeft(Matching, start, OptionTable)
         IN  /\ (\A o \in Listed : line[a] \notin Names(OptionTable[o])) => s = start
             /\ \A o \in Listed :
                  line[a] \in Names(OptionTable[o]) => s = Matching(start, OptionTable[o])
<1> DEFINE start == [arg |-> a, given |-> g, alive |-> TRUE]
           K == Len(OptionTable)
<1>1. PICK at : /\ at[0] = start
                /\ \A n \in Listed : at[n] = Matching(at[n - 1], OptionTable[n])
                /\ FoldLeft(Matching, start, OptionTable) = at[K]
  BY FoldedOptions
<1>2. K \in Nat /\ Listed = 1 .. K
  BY TableFacts
<1>3. start.arg = a /\ start.alive /\ a \in 1 .. Len(line) /\ Len(line) \in Nat
  BY SaidByRule DEF SaidRule
<1>4. ASSUME \A o \in Listed : line[a] \notin Names(OptionTable[o])
      PROVE  at[K] = start
  <2> DEFINE same == {n \in 0 .. K : at[n] = start}
  <2>1. \A o \in Listed : Matching(start, OptionTable[o]) = start
    BY <1>3, <1>4 DEF Matching
  <2>2. 0 \in same /\ \A n \in 0 .. K - 1 : n \in same => n + 1 \in same
    <3>1. 0 \in same
      BY <1>1, <1>2
    <3>2. ASSUME NEW n \in 0 .. K - 1, n \in same PROVE n + 1 \in same
      <4>1. n + 1 \in Listed /\ (n + 1) - 1 = n /\ n + 1 \in 0 .. K /\ at[n] = start
        BY <1>2, <3>2
      <4>2. at[n + 1] = start
        BY <4>1, <2>1, <1>1
      <4> QED
        BY <4>1, <4>2
    <3> QED
      BY <3>1, <3>2
  <2>3. \A n \in 0 .. K : n \in same
    <3> HIDE DEF same
    <3> QED
      BY <2>2, <1>2, CountedUp
  <2>4. K \in 0 .. K
    BY <1>2
  <2> QED
    BY <2>3, <2>4
<1>5. ASSUME NEW o \in Listed, line[a] \in Names(OptionTable[o])
      PROVE  at[K] = Matching(start, OptionTable[o])
  <2> DEFINE s == Matching(start, OptionTable[o])
  <2>1. KindOf(line[a]) = OptionTable[o].kind /\ OptionTable[o].kind \in {"bool", "number", "string"}
    BY <1>5, KindOfOption, TableFacts
  <2>2. OptionTable[o].kind # "bool" => HasValue(a) /\ a < Len(line)
    BY <2>1, <1>3 DEF HasValue, Proper
  <2>3. /\ s.alive
        /\ s.arg = IF HasValue(a) THEN a + 1 ELSE a
    <3>1. CASE OptionTable[o].kind = "bool"
      <4>1. HasValue(a) <=> TakesNext(a)
        BY <2>1, <3>1 DEF HasValue, TakesNext, NumberBehind
      <4>2. s = [start EXCEPT !.given = IF IsTrue(a) THEN Set(g, OptionTable[o].long, "") ELSE g,
                              !.arg = IF TakesNext(a) THEN a + 1 ELSE a]
        BY <1>3, <1>5, <3>1 DEF Matching
      <4> HIDE DEF s
      <4> QED
        BY <4>1, <4>2
    <3>2. CASE OptionTable[o].kind # "bool"
      <4>1. s = [start EXCEPT !.given = Set(g, OptionTable[o].long, line[a + 1]), !.arg = a + 1]
        BY <1>3, <1>5, <2>2, <3>2 DEF Matching
      <4> HIDE DEF s
      <4> QED
        BY <4>1, <2>2, <3>2
    <3> QED
      BY <3>1, <3>2
  <2>4. ASSUME NEW q \in Listed, q # o PROVE Matching(start, OptionTable[q]) = start
    BY <1>3, <1>5, <2>4, TableFacts DEF Matching
  <2>5. ASSUME NEW q \in Listed, q > o PROVE Matching(s, OptionTable[q]) = s
    <3> HIDE DEF s
    <3>1. line[s.arg] \notin Names(OptionTable[q])
      <4>a. q # o /\ o < q
        BY <1>2, <2>5
      <4>1. CASE ~HasValue(a)
        BY <1>5, <2>3, <4>a, <4>1, TableFacts
      <4>2. CASE HasValue(a)
        <5>1. ~Later(line[a], line[a + 1])
          BY <4>2 DEF Proper
        <5> QED
          BY <1>5, <2>3, <4>a, <4>2, <5>1 DEF Later, Listed
      <4> QED
        BY <4>1, <4>2
    <3> QED
      BY <3>1 DEF Matching
  <2> DEFINE right == {n \in 0 .. K : at[n] = IF n < o THEN start ELSE s}
  <2>6. 0 \in right
    BY <1>1, <1>2
  <2>7. ASSUME NEW n \in 0 .. K - 1, n \in right PROVE n + 1 \in right
    <3>1. /\ n + 1 \in Listed /\ (n + 1) - 1 = n /\ n + 1 \in 0 .. K
          /\ at[n] = (IF n < o THEN start ELSE s)
          /\ at[n + 1] = Matching(at[n], OptionTable[n + 1])
      BY <1>1, <1>2, <2>7
    <3> HIDE DEF start, s
    <3>2. CASE n + 1 < o
      BY <3>1, <3>2, <2>4, <1>2
    <3>3. CASE n + 1 = o
      <4>1. at[n] = start
        BY <3>1, <3>3, <1>2
      <4> QED
        BY <3>1, <3>3, <4>1, <1>2 DEF s
    <3>4. CASE n + 1 > o
      BY <3>1, <3>4, <2>5, <1>2
    <3> QED
      BY <3>2, <3>3, <3>4, <1>2
  <2>8. \A n \in 0 .. K : n \in right
    <3> HIDE DEF right
    <3> QED
      BY <2>6, <2>7, <1>2, CountedUp
  <2>9. K \in 0 .. K /\ ~(K < o)
    BY <1>2
  <2> QED
    BY <2>8, <2>9
<1> QED
  BY <1>1, <1>4, <1>5

(* Which option a name is of, by the callbacks.                            *)
LEMMA CalledByName ==
  ASSUME NEW o \in Listed, NEW a \in Names(OptionTable[o])
  PROVE  LET q == OptionTable[o] IN
         /\ q.long = "--benchmark" <=> a \in {"-b", "--benchmark"}
         /\ q.long = "--update" <=> a \in {"-u", "--update"}
         /\ q.long = "--dry-run" <=> a \in {"-n", "--dry-run"}
         /\ q.long = "--tests-substr" <=> a \in {"-R", "--tests-substr"}
         /\ q.long = "--path" <=> a \in {"-p", "--path"}
         /\ a \notin Help
         /\ q.long \in {"--benchmark", "--update", "--dry-run"} => q.kind = "bool"
         /\ q.long \in {"--tests-substr", "--path"} => q.kind = "string"
<1>1. ASSUME NEW c \in Called
      PROVE  /\ OptionTable[o].long = c.long <=> a \in Names(c)
             /\ OptionTable[o].long = c.long => OptionTable[o] = c
  <2>1. PICK p \in Listed : OptionTable[p] = c
    BY OptionTableAssumption DEF ToSet, Listed
  <2>2. c.long \in Names(c) /\ OptionTable[o].long \in Names(OptionTable[o])
    BY DEF Names
  <2>3. a \in Names(c) => o = p
    BY <2>1, TableFacts
  <2>4. OptionTable[o].long = c.long => o = p
    BY <2>1, <2>2, TableFacts
  <2> QED
    BY <2>1, <2>3, <2>4
<1>2. a \notin Help
  BY TableFacts
<1> QED
  BY <1>1, <1>2 DEF Called, Names

-----------------------------------------------------------------------------
(* The invariant: the callbacks have been told what was said up to here.   *)
GivenUpTo(S, n) == {i \in Given(S) : i < n}
PathUpTo(n) ==
  LET S == GivenUpTo({"-p", "--path"}, n) IN IF S = {} THEN "" ELSE line[Max(S) + 1]
Told(g, n) ==
  /\ g.bench = (\E i \in GivenUpTo({"-b", "--benchmark"}, n) : ~TurnedOff(i))
  /\ g.update = (\E i \in GivenUpTo({"-u", "--update"}, n) : ~TurnedOff(i))
  /\ g.dry = (\E i \in GivenUpTo({"-n", "--dry-run"}, n) : ~TurnedOff(i))
  /\ g.patterns = {line[i + 1] : i \in GivenUpTo({"-R", "--tests-substr"}, n)}
  /\ g.path = PathUpTo(n)
  /\ g.help = (GivenUpTo(Help, n) # {})

ArgumentValues == STRING \cup {""}
GivenTypes ==
  [bench : BOOLEAN, update : BOOLEAN, dry : BOOLEAN, patterns : SUBSET ArgumentValues,
   path : ArgumentValues, help : BOOLEAN]

OptInv ==
  /\ line \in Seq(STRING) /\ phase \in {"parse", "parsed", "killed", "over"}
  /\ phase = "parsed" => arg > Len(line)
  /\ Proper =>
       /\ phase # "killed"
       /\ phase \in {"parse", "parsed"} =>
            /\ arg \in Nat \ {0} /\ given \in GivenTypes /\ Told(given, arg)
            /\ arg <= Len(line) => arg \in Said

(* The indices of those said up to n and after one round.                  *)
LEMMA OneMoreSaid ==
  ASSUME line \in Seq(STRING), NEW a \in Said, NEW S
  PROVE  LET n == IF HasValue(a) THEN a + 2 ELSE a + 1 IN
         /\ n \in Nat \ {0} /\ (n <= Len(line) => n \in Said)
         /\ line[a] \in S => a \in Given(S) /\ GivenUpTo(S, n) = GivenUpTo(S, a) \cup {a}
         /\ line[a] \notin S => GivenUpTo(S, n) = GivenUpTo(S, a)
<1>1. SaidRule /\ Len(line) \in Nat
  BY SaidByRule
<1> DEFINE n == IF HasValue(a) THEN a + 2 ELSE a + 1
<1>2. a \in 1 .. Len(line)
  BY <1>1 DEF SaidRule
<1>3. n \in Nat \ {0} /\ (n <= Len(line) => n \in Said)
  <2>1. CASE HasValue(a)
    <3>1. a + 1 <= Len(line) => a + 1 \notin Said
      BY <1>1, <1>2, <2>1 DEF SaidRule
    <3>2. n = a + 2 /\ n - 1 = a + 1
      BY <2>1, <1>2
    <3> QED
      BY <1>1, <1>2, <3>1, <3>2 DEF SaidRule
  <2>2. CASE ~HasValue(a)
    <3>1. n = a + 1 /\ n - 1 = a
      BY <2>2, <1>2
    <3> QED
      BY <1>1, <1>2, <2>2, <3>1 DEF SaidRule
  <2> QED
    BY <2>1, <2>2
<1>4. \A i \in Said : i < n <=> i < a \/ i = a
  <2> TAKE i \in Said
  <2>1. i \in 1 .. Len(line)
    BY <1>1 DEF SaidRule
  <2>2. HasValue(a) => i # a + 1
    BY <1>1, <1>2, <2>1 DEF SaidRule
  <2> QED
    BY <1>2, <2>1, <2>2
<1>5. Given(S) = {i \in Said : line[i] \in S}
  BY DEF Given
<1> HIDE DEF n
<1>6. line[a] \in S => a \in Given(S) /\ GivenUpTo(S, n) = GivenUpTo(S, a) \cup {a}
  BY <1>4, <1>5 DEF GivenUpTo
<1>7. line[a] \notin S => GivenUpTo(S, n) = GivenUpTo(S, a)
  BY <1>4, <1>5 DEF GivenUpTo
<1> QED
  BY <1>3, <1>6, <1>7 DEF n

(* One round tells the callbacks what it has come past.                    *)
LEMMA RoundTells ==
  ASSUME line \in Seq(STRING), Proper, NEW a \in Said, NEW g \in GivenTypes, Told(g, a)
  PROVE  LET s == FoldLeft(Matching, [arg |-> a, given |-> g, alive |-> TRUE], OptionTable)
             r == [s.given EXCEPT !.help = @ \/ (s.alive /\ line[s.arg] \in Help)]
             n == IF HasValue(a) THEN a + 2 ELSE a + 1
         IN  s.alive /\ s.arg + 1 = n /\ r \in GivenTypes /\ Told(r, n)
<1> DEFINE start == [arg |-> a, given |-> g, alive |-> TRUE]
           s == FoldLeft(Matching, start, OptionTable)
           r == [s.given EXCEPT !.help = @ \/ (s.alive /\ line[s.arg] \in Help)]
           n == IF HasValue(a) THEN a + 2 ELSE a + 1
           B == {"-b", "--benchmark"}
           U == {"-u", "--update"}
           D == {"-n", "--dry-run"}
           R == {"-R", "--tests-substr"}
           P == {"-p", "--path"}
<1>1. a \in 1 .. Len(line) /\ Len(line) \in Nat /\ \A i \in 1 .. Len(line) : line[i] \in STRING
  BY SaidByRule DEF SaidRule
<1>2. /\ (\A o \in Listed : line[a] \notin Names(OptionTable[o])) => s = start
      /\ \A o \in Listed : line[a] \in Names(OptionTable[o]) => s = Matching(start, OptionTable[o])
  BY RoundCallsOne
<1>3. \A S : /\ line[a] \in S => a \in Given(S) /\ GivenUpTo(S, n) = GivenUpTo(S, a) \cup {a}
             /\ line[a] \notin S => GivenUpTo(S, n) = GivenUpTo(S, a)
  BY OneMoreSaid
<1>4. \A S : \A i \in GivenUpTo(S, a) : i \in Nat /\ i < a
  BY SaidByRule DEF GivenUpTo, Given, SaidRule
<1>5. line[a] \notin P => PathUpTo(n) = PathUpTo(a)
  BY <1>3 DEF PathUpTo
<1>6. line[a] \in P => PathUpTo(n) = line[a + 1]
  <2> HAVE line[a] \in P
  <2> DEFINE S == GivenUpTo(P, n)
  <2>1. S = GivenUpTo(P, a) \cup {a}
    BY <1>3
  <2> HIDE DEF S
  <2>2. a \in S /\ \A y \in S : y \in Nat /\ a >= y
    BY <1>1, <1>4, <2>1
  <2>3. Max(S) = a
    <3>1. \A x \in S : (\A y \in S : x >= y) => x = a
      BY <1>1, <2>2
    <3> QED
      BY <3>1, <2>2 DEF Max
  <2> QED
    BY <2>2, <2>3 DEF PathUpTo, S
<1> HIDE DEF s
<1>7. CASE \A o \in Listed : line[a] \notin Names(OptionTable[o])
  <2>1. s = start /\ ~HasValue(a)
    BY <1>2, <1>7, KindOfOption DEF HasValue
  <2>2. r = [g EXCEPT !.help = @ \/ line[a] \in Help] /\ n = a + 1
    BY <2>1
  <2>3. line[a] \notin B \cup U \cup D \cup R \cup P
    <3>1. \A c \in Called : \E o \in Listed : OptionTable[o] = c
      BY OptionTableAssumption DEF ToSet, Listed
    <3> QED
      BY <3>1, <1>7 DEF Called, Names
  <2> HIDE DEF n, r
  <2>4. /\ r \in GivenTypes
        /\ r.bench = g.bench /\ r.update = g.update /\ r.dry = g.dry /\ r.patterns = g.patterns /\ r.path = g.path
        /\ r.help = (g.help \/ line[a] \in Help)
    BY <2>2 DEF GivenTypes
  <2>5. Told(r, n)
    BY <1>3, <1>5, <2>3, <2>4 DEF Told
  <2> QED
    <3>1. s.alive /\ s.arg + 1 = n
      BY <2>1, <1>1 DEF n
    <3> QED
      BY <3>1, <2>4, <2>5 DEF n, r, s
<1>8. ASSUME NEW o \in Listed, line[a] \in Names(OptionTable[o])
      PROVE  s.alive /\ s.arg + 1 = n /\ r \in GivenTypes /\ Told(r, n)
  <2> DEFINE q == OptionTable[o]
             boolean == q.kind = "bool"
             value == IF boolean THEN "" ELSE line[a + 1]
             told == IF boolean /\ ~IsTrue(a) THEN g ELSE Set(g, q.long, value)
  <2>1. KindOf(line[a]) = q.kind /\ q.kind \in {"bool", "number", "string"}
    BY <1>8, KindOfOption, TableFacts
  <2>2. HasValue(a) => a < Len(line) /\ line[a + 1] \notin Help
    BY DEF Proper
  <2>3. boolean => (HasValue(a) <=> TakesNext(a)) /\ (IsTrue(a) <=> ~TurnedOff(a))
    <3> SUFFICES ASSUME boolean
                 PROVE  (HasValue(a) <=> TakesNext(a)) /\ (IsTrue(a) <=> ~TurnedOff(a))
      OBVIOUS
    <3>1. HasValue(a) <=> TakesNext(a)
      BY <2>1 DEF HasValue, TakesNext, NumberBehind
    <3>2. TakesNext(a) => line[a + 1] \in {"0", "1"}
      <4>1. ~WrongValue(a)
        BY DEF Proper
      <4> QED
        BY <2>1, <4>1 DEF WrongValue, TakesNext, NumberBehind
    <3>3. {"0", "1"} \subseteq DOMAIN Numbers \ Dashed /\ Numbers["0"] = 0 /\ Numbers["1"] = 1
      BY OptionTableAssumption
    <3>4. CASE TakesNext(a)
      <4>1. a < Len(line) /\ line[a + 1] # "false"
        BY <3>4 DEF TakesNext
      <4>2. IsTrue(a) <=> line[a + 1] # "0"
        BY <3>2, <3>3, <3>4 DEF IsTrue, Atoi
      <4> QED
        BY <3>1, <4>1, <4>2 DEF TurnedOff
    <3>5. CASE ~TakesNext(a)
      <4>1. a < Len(line) => line[a + 1] # "0"
        BY <3>3, <3>5 DEF TakesNext
      <4> QED
        BY <1>1, <3>1, <3>5, <4>1 DEF IsTrue, TurnedOff
    <3> QED
      BY <3>4, <3>5
  <2>4. ~boolean => HasValue(a)
    BY <2>1 DEF HasValue
  <2>5. s = [arg |-> IF HasValue(a) THEN a + 1 ELSE a, given |-> told, alive |-> TRUE]
    <3>1. s = Matching(start, q)
      BY <1>2, <1>8
    <3>2. CASE boolean
      <4>1. s = [start EXCEPT !.given = IF IsTrue(a) THEN Set(g, q.long, "") ELSE g,
                              !.arg = IF TakesNext(a) THEN a + 1 ELSE a]
        BY <3>1, <3>2, <1>1, <1>8 DEF Matching
      <4> QED
        BY <4>1, <2>3, <3>2
    <3>3. CASE ~boolean
      <4>1. a # Len(line)
        BY <2>2, <2>4, <3>3, <1>1
      <4>2. s = [start EXCEPT !.given = Set(g, q.long, line[a + 1]), !.arg = a + 1]
        BY <3>1, <3>3, <4>1, <1>1, <1>8 DEF Matching
      <4> QED
        BY <4>2, <2>4, <3>3
    <3> QED
      BY <3>2, <3>3
  <2>6. line[s.arg] \notin Help
    <3>1. line[a] \notin Help
      BY <1>8, CalledByName
    <3> QED
      BY <3>1, <2>2, <2>5
  <2>7. value \in ArgumentValues
    <3>1. ~boolean => a + 1 \in 1 .. Len(line)
      BY <1>1, <2>2, <2>4
    <3>2. CASE boolean
      <4>1. value = ""
        BY <3>2
      <4> HIDE DEF value
      <4> QED
        BY <4>1 DEF ArgumentValues
    <3>3. CASE ~boolean
      <4>1. value = line[a + 1]
        BY <3>3
      <4> QED
        BY <1>1, <3>1, <3>3, <4>1 DEF ArgumentValues
    <3> QED
      BY <3>2, <3>3
  <2> HIDE DEF value
  <2>8. told \in GivenTypes
    BY <2>7 DEF Set, GivenTypes
  <2> HIDE DEF told
  <2>9. s.alive /\ s.arg + 1 = n
    BY <1>1, <2>5
  <2>10. r = told
    <3>1. r = [told EXCEPT !.help = @ \/ FALSE]
      BY <2>5, <2>6
    <3> QED
      BY <3>1, <2>8 DEF GivenTypes
  <2> HIDE DEF r, n
  <2>11. Told(told, n)
    <3>n. /\ q.long = "--benchmark" <=> line[a] \in B
          /\ q.long = "--update" <=> line[a] \in U
          /\ q.long = "--dry-run" <=> line[a] \in D
          /\ q.long = "--tests-substr" <=> line[a] \in R
          /\ q.long = "--path" <=> line[a] \in P
          /\ line[a] \notin Help
          /\ q.long \in {"--benchmark", "--update", "--dry-run"} => boolean
          /\ q.long \in {"--tests-substr", "--path"} => ~boolean
      BY <1>8, CalledByName
    <3>g. g \in GivenTypes /\ Told(g, a)
      OBVIOUS
    <3> HIDE DEF B, U, D, R, P
    <3>0. told.bench = (g.bench \/ (line[a] \in B /\ ~TurnedOff(a)))
      BY <3>n, <3>g, <2>3 DEF told, Set, GivenTypes
    <3>1. told.update = (g.update \/ (line[a] \in U /\ ~TurnedOff(a)))
      BY <3>n, <3>g, <2>3 DEF told, Set, GivenTypes
    <3>2. told.dry = (g.dry \/ (line[a] \in D /\ ~TurnedOff(a)))
      BY <3>n, <3>g, <2>3 DEF told, Set, GivenTypes
    <3>3. told.patterns = g.patterns \cup (IF line[a] \in R THEN {line[a + 1]} ELSE {})
      BY <3>n, <3>g DEF told, Set, GivenTypes, value
    <3>4. told.path = IF line[a] \in P THEN line[a + 1] ELSE g.path
      BY <3>n, <3>g DEF told, Set, GivenTypes, value
    <3>5. told.help = g.help
      BY <3>g DEF told, Set, GivenTypes
    <3>6. told.update = (\E i \in GivenUpTo(U, n) : ~TurnedOff(i))
      <4>1. g.update = (\E i \in GivenUpTo(U, a) : ~TurnedOff(i))
        BY <3>g DEF Told, U
      <4>2. CASE line[a] \in U
        <5>1. GivenUpTo(U, n) = GivenUpTo(U, a) \cup {a}
          BY <4>2, <1>3
        <5>2. (\E i \in GivenUpTo(U, n) : ~TurnedOff(i)) <=>
                (\E i \in GivenUpTo(U, a) : ~TurnedOff(i)) \/ ~TurnedOff(a)
          BY <5>1
        <5> QED
          BY <4>1, <4>2, <5>2, <3>1
      <4>3. CASE line[a] \notin U
        <5>1. GivenUpTo(U, n) = GivenUpTo(U, a)
          BY <4>3, <1>3
        <5> QED
          BY <4>1, <4>3, <5>1, <3>1, <3>g DEF GivenTypes
      <4> QED
        BY <4>2, <4>3
    <3>7. told.dry = (\E i \in GivenUpTo(D, n) : ~TurnedOff(i))
      <4>1. g.dry = (\E i \in GivenUpTo(D, a) : ~TurnedOff(i))
        BY <3>g DEF Told, D
      <4>2. CASE line[a] \in D
        <5>1. GivenUpTo(D, n) = GivenUpTo(D, a) \cup {a}
          BY <4>2, <1>3
        <5>2. (\E i \in GivenUpTo(D, n) : ~TurnedOff(i)) <=>
                (\E i \in GivenUpTo(D, a) : ~TurnedOff(i)) \/ ~TurnedOff(a)
          BY <5>1
        <5> QED
          BY <4>1, <4>2, <5>2, <3>2
      <4>3. CASE line[a] \notin D
        <5>1. GivenUpTo(D, n) = GivenUpTo(D, a)
          BY <4>3, <1>3
        <5> QED
          BY <4>1, <4>3, <5>1, <3>2, <3>g DEF GivenTypes
      <4> QED
        BY <4>2, <4>3
    <3>11. told.bench = (\E i \in GivenUpTo(B, n) : ~TurnedOff(i))
      <4>1. g.bench = (\E i \in GivenUpTo(B, a) : ~TurnedOff(i))
        BY <3>g DEF Told, B
      <4>2. CASE line[a] \in B
        <5>1. GivenUpTo(B, n) = GivenUpTo(B, a) \cup {a}
          BY <4>2, <1>3
        <5>2. (\E i \in GivenUpTo(B, n) : ~TurnedOff(i)) <=>
                (\E i \in GivenUpTo(B, a) : ~TurnedOff(i)) \/ ~TurnedOff(a)
          BY <5>1
        <5> QED
          BY <4>1, <4>2, <5>2, <3>0
      <4>3. CASE line[a] \notin B
        <5>1. GivenUpTo(B, n) = GivenUpTo(B, a)
          BY <4>3, <1>3
        <5> QED
          BY <4>1, <4>3, <5>1, <3>0, <3>g DEF GivenTypes
      <4> QED
        BY <4>2, <4>3
    <3>8. told.patterns = {line[i + 1] : i \in GivenUpTo(R, n)}
      BY <3>3, <3>g, <1>3 DEF Told, R
    <3>9. told.path = PathUpTo(n)
      BY <3>4, <3>g, <1>5, <1>6 DEF Told
    <3>10. told.help = (GivenUpTo(Help, n) # {})
      BY <3>5, <3>g, <3>n, <1>3 DEF Told
    <3> QED
      BY <3>6, <3>7, <3>8, <3>9, <3>10, <3>11 DEF Told, B, U, D, R
  <2> QED
    BY <2>8, <2>9, <2>10, <2>11
<1> QED
  BY <1>7, <1>8 DEF s

-----------------------------------------------------------------------------
LEMMA InitInv == CommandInit => OptInv
<1> SUFFICES ASSUME CommandInit PROVE OptInv
  OBVIOUS
<1>1. line \in Seq(STRING) /\ arg = 1 /\ given = NothingGiven /\ phase = "parse"
  BY OptionTableAssumption DEF CommandInit, OptInit
<1>2. \A S : GivenUpTo(S, 1) = {}
  BY <1>1, SaidByRule DEF SaidRule, GivenUpTo, Given
<1>3. Told(given, arg) /\ given \in GivenTypes
  BY <1>1, <1>2 DEF Told, PathUpTo, NothingGiven, GivenTypes, ArgumentValues
<1>4. arg <= Len(line) => arg \in Said
  BY <1>1, SaidByRule DEF SaidRule
<1> QED
  BY <1>1, <1>3, <1>4 DEF OptInv

(* All of this is about the line alone.                                    *)
LEMMA LineStays ==
  (line' = line) =>
    /\ Proper' = Proper /\ Said' = Said
    /\ \A g, n : Told(g, n)' = Told(g, n)
    /\ \A i : HasValue(i)' = HasValue(i)
<1> SUFFICES ASSUME line' = line
             PROVE  /\ Proper' = Proper /\ Said' = Said
                    /\ \A g, n : Told(g, n)' = Told(g, n)
                    /\ \A i : HasValue(i)' = HasValue(i)
  OBVIOUS
<1>1. Said' = Said
  BY SaidStays
<1>2. \A i : HasValue(i)' = HasValue(i)
  BY DEF HasValue, NumberBehind
<1>3. Proper' = Proper
  BY <1>1, <1>2 DEF Proper, WrongValue, NumberBehind
<1>4. \A g, n : Told(g, n)' = Told(g, n)
  BY <1>1 DEF Told, PathUpTo, GivenUpTo, Given, TurnedOff
<1> QED
  BY <1>1, <1>2, <1>3, <1>4

LEMMA RoundInv == OptInv /\ ParseArgument => OptInv'
<1> SUFFICES ASSUME OptInv, ParseArgument PROVE OptInv'
  OBVIOUS
<1> DEFINE s == FoldLeft(Matching, [arg |-> arg, given |-> given, alive |-> TRUE], OptionTable)
           r == [s.given EXCEPT !.help = @ \/ (s.alive /\ line[s.arg] \in Help)]
<1>1. /\ given' = r /\ arg' = s.arg + 1 /\ phase' = (IF s.alive THEN "parse" ELSE "killed")
      /\ line' = line /\ phase = "parse" /\ arg <= Len(line)
  BY DEF ParseArgument
<1>2. line' \in Seq(STRING) /\ phase' \in {"parse", "killed"}
  BY <1>1 DEF OptInv
<1>3. ASSUME Proper
      PROVE  /\ phase' = "parse" /\ arg' \in Nat \ {0} /\ given' \in GivenTypes
             /\ Told(given', arg') /\ (arg' <= Len(line) => arg' \in Said)
  <2>1. arg \in Said /\ given \in GivenTypes /\ Told(given, arg) /\ line \in Seq(STRING)
    BY <1>1, <1>3 DEF OptInv
  <2> DEFINE n == IF HasValue(arg) THEN arg + 2 ELSE arg + 1
  <2>2. s.alive /\ s.arg + 1 = n /\ r \in GivenTypes /\ Told(r, n)
    BY <2>1, <1>3, RoundTells
  <2>3. n \in Nat \ {0} /\ (n <= Len(line) => n \in Said)
    BY <2>1, OneMoreSaid
  <2> HIDE DEF n, s, r
  <2> QED
    BY <1>1, <2>2, <2>3
<1>4. (Told(given, arg))' <=> Told(given', arg')
  BY <1>1, LineStays DEF Told, PathUpTo, GivenUpTo, Given, TurnedOff
<1> HIDE DEF s, r
<1> QED
  BY <1>1, <1>2, <1>3, <1>4, LineStays DEF OptInv

LEMMA StepInv == OptInv /\ [CommandNext]_<<vars, optVars>> => OptInv'
<1> SUFFICES ASSUME OptInv, [CommandNext]_<<vars, optVars>> PROVE OptInv'
  OBVIOUS
<1>1. CASE ParseArgument
  BY <1>1, RoundInv
<1>2. ASSUME line' = line, arg' = arg, given' = given,
             phase' = phase \/ (phase = "parse" /\ phase' = "parsed" /\ arg > Len(line))
      PROVE  OptInv'
  <2>1. (Told(given, arg))' <=> Told(given, arg)
    BY <1>2, LineStays DEF Told, PathUpTo, GivenUpTo, Given, TurnedOff
  <2> QED
    BY <1>2, <2>1, LineStays DEF OptInv
<1>3. CASE ParseEnd
  BY <1>2, <1>3 DEF ParseEnd
<1>4. CASE LineDone
  BY <1>4 DEF LineDone, OptInv
<1>5. CASE UNCHANGED optVars
  BY <1>2, <1>5 DEF optVars
<1> QED
  BY <1>1, <1>3, <1>4, <1>5 DEF CommandNext, Parse, Run, NoRun, Proceed

(* The callbacks are called for the options that a command line gives, and *)
(* with their values, and no proper line is refused (option_list::parse),  *)
(* for any options and any lines.                                          *)
THEOREM OptionsAreAsSaid == CommandSpec => []OptionsAsSaid
<1>1. OptInv => OptionsAsSaid
  <2> SUFFICES ASSUME OptInv, Proper
               PROVE  /\ phase # "killed"
                      /\ phase = "parsed" =>
                           /\ given.bench = (\E i \in Given({"-b", "--benchmark"}) : ~TurnedOff(i))
                           /\ given.update = (\E i \in Given({"-u", "--update"}) : ~TurnedOff(i))
                           /\ given.dry = (\E i \in Given({"-n", "--dry-run"}) : ~TurnedOff(i))
                           /\ given.patterns = Behind({"-R", "--tests-substr"})
                           /\ given.path = PathSaid
                           /\ given.help = (Given(Help) # {})
    BY DEF OptionsAsSaid
  <2>1. phase # "killed"
    BY DEF OptInv
  <2>2. ASSUME phase = "parsed" PROVE Told(given, arg) /\ \A S : GivenUpTo(S, arg) = Given(S)
    <3>1. Told(given, arg) /\ arg \in Nat /\ arg > Len(line) /\ line \in Seq(STRING)
      BY <2>2 DEF OptInv
    <3> QED
      BY <3>1, SaidByRule DEF SaidRule, GivenUpTo, Given
  <2>3. ASSUME phase = "parsed"
        PROVE  /\ given.bench = (\E i \in Given({"-b", "--benchmark"}) : ~TurnedOff(i))
               /\ given.update = (\E i \in Given({"-u", "--update"}) : ~TurnedOff(i))
               /\ given.dry = (\E i \in Given({"-n", "--dry-run"}) : ~TurnedOff(i))
               /\ given.patterns = Behind({"-R", "--tests-substr"})
               /\ given.path = PathSaid
               /\ given.help = (Given(Help) # {})
    <3>1. /\ GivenUpTo({"-b", "--benchmark"}, arg) = Given({"-b", "--benchmark"})
          /\ GivenUpTo({"-u", "--update"}, arg) = Given({"-u", "--update"})
          /\ GivenUpTo({"-n", "--dry-run"}, arg) = Given({"-n", "--dry-run"})
          /\ GivenUpTo({"-R", "--tests-substr"}, arg) = Given({"-R", "--tests-substr"})
          /\ GivenUpTo({"-p", "--path"}, arg) = Given({"-p", "--path"})
          /\ GivenUpTo(Help, arg) = Given(Help)
      BY <2>2, <2>3
    <3>2. PathUpTo(arg) = PathSaid
      BY <3>1 DEF PathUpTo, PathSaid
    <3> QED
      BY <2>2, <2>3, <3>1, <3>2 DEF Told, Behind
  <2> QED
    BY <2>1, <2>3
<1> QED
  BY <1>1, InitInv, StepInv, PTL DEF CommandSpec

-----------------------------------------------------------------------------
(* Whatever the line, the options that come of it are some.                *)
Heard == {line[i] : i \in Int} \cup {""}
Shaped ==
  [bench : BOOLEAN, update : BOOLEAN, dry : BOOLEAN, patterns : SUBSET Heard, path : Heard, help : BOOLEAN]
ShapeInv == phase = "over" \/ (arg \in Nat /\ given \in Shaped)

LEMMA RoundShape ==
  ASSUME NEW a \in Nat, NEW g \in Shaped
  PROVE  FoldLeft(Matching, [arg |-> a, given |-> g, alive |-> TRUE], OptionTable)
           \in [arg : Nat, given : Shaped, alive : BOOLEAN]
<1> DEFINE start == [arg |-> a, given |-> g, alive |-> TRUE]
           K == Len(OptionTable)
           T == [arg : Nat, given : Shaped, alive : BOOLEAN]
<1>1. PICK at : /\ at[0] = start
                /\ \A n \in Listed : at[n] = Matching(at[n - 1], OptionTable[n])
                /\ FoldLeft(Matching, start, OptionTable) = at[K]
  BY FoldedOptions
<1>2. K \in Nat /\ Listed = 1 .. K
  BY TableFacts
<1>3. ASSUME NEW s \in T, NEW o PROVE Matching(s, o) \in T
  <2>1. ASSUME NEW v \in Heard, NEW l PROVE Set(s.given, l, v) \in Shaped
    <3>1. s.given \in Shaped
      OBVIOUS
    <3> QED
      BY <2>1, <3>1 DEF Set, Shaped
  <2>2. s.arg \in Nat /\ s.given \in Shaped /\ s.alive \in BOOLEAN
    OBVIOUS
  <2>3. line[s.arg + 1] \in Heard /\ "" \in Heard
    <3>1. s.arg + 1 \in Int
      BY <2>2
    <3> HIDE DEF T
    <3>2. line[s.arg + 1] \in Heard
      BY <3>1 DEF Heard
    <3> QED
      BY <3>2 DEF Heard
  <2>4. ASSUME NEW h \in Shaped, NEW m \in Nat PROVE [s EXCEPT !.given = h, !.arg = m] \in T
    OBVIOUS
  <2>5. [s EXCEPT !.alive = FALSE] \in T
    OBVIOUS
  <2>6. CASE ~s.alive \/ line[s.arg] \notin Names(o)
    BY <2>6 DEF Matching
  <2>7. CASE ~(~s.alive \/ line[s.arg] \notin Names(o)) /\ o.kind = "bool"
    <3> DEFINE h == IF IsTrue(s.arg) THEN Set(s.given, o.long, "") ELSE s.given
               m == IF TakesNext(s.arg) THEN s.arg + 1 ELSE s.arg
    <3>1. Matching(s, o) = [s EXCEPT !.given = h, !.arg = m]
      BY <2>7 DEF Matching
    <3>2. m \in Nat
      BY <2>2
    <3>4. h \in Shaped
      BY <2>1, <2>2, <2>3
    <3> HIDE DEF h, m, T
    <3> QED
      BY <3>1, <3>2, <3>4, <2>4
  <2>8. CASE ~(~s.alive \/ line[s.arg] \notin Names(o)) /\ o.kind # "bool"
    <3> DEFINE h == Set(s.given, o.long, line[s.arg + 1])
               m == s.arg + 1
    <3>1. s.arg # Len(line) => Matching(s, o) = [s EXCEPT !.given = h, !.arg = m]
      BY <2>8 DEF Matching
    <3>2. s.arg = Len(line) => Matching(s, o) = [s EXCEPT !.alive = FALSE]
      BY <2>8 DEF Matching
    <3>3. h \in Shaped
      BY <2>1, <2>3
    <3>4. m \in Nat
      BY <2>2
    <3> HIDE DEF h, m, T
    <3> QED
      BY <3>1, <3>2, <3>3, <3>4, <2>4, <2>5
  <2> QED
    BY <2>6, <2>7, <2>8
<1> DEFINE typed == {n \in 0 .. K : at[n] \in T}
<1>4. 0 \in typed
  <2>1. start \in T
    OBVIOUS
  <2> HIDE DEF start, T
  <2> QED
    BY <1>1, <1>2, <2>1
<1>5. ASSUME NEW n \in 0 .. K - 1, n \in typed PROVE n + 1 \in typed
  <2>1. n + 1 \in Listed /\ (n + 1) - 1 = n /\ n + 1 \in 0 .. K
    BY <1>2
  <2>2. at[n + 1] = Matching(at[n], OptionTable[n + 1])
    BY <1>1, <2>1
  <2> QED
    BY <1>3, <1>5, <2>1, <2>2
<1>6. K \in typed
  <2>1. K \in 0 .. K
    BY <1>2
  <2> HIDE DEF typed
  <2>2. \A n \in 0 .. K : n \in typed
    BY <1>2, <1>4, <1>5, CountedUp
  <2> QED
    BY <2>1, <2>2
<1> QED
  BY <1>1, <1>6

(* Any options may be given, and the tests to be run are some of the list. *)
AnyOptions ==
  LET tests == {Cases[c].name : c \in DOMAIN Cases}
  IN  /\ [bench : BOOLEAN, update : BOOLEAN, dry : BOOLEAN, only : SUBSET tests,
       path : Places \cup {NoPath}]
           \subseteq Options
      /\ \A p \in DOMAIN NamesWith : NamesWith[p] \subseteq tests

(* What volk_profile does from its command line on, whatever that is, are  *)
(* runs of Profile (main), so that what is proved of these holds for it.   *)
THEOREM CommandsAreProfiles ==
  ASSUME AnyOptions
  PROVE  CommandSpec => Spec
<1>1. CommandInit => Init /\ ShapeInv
  <2>1. NothingGiven \in Shaped
    BY DEF NothingGiven, Shaped, Heard
  <2> QED
    BY <2>1 DEF CommandInit, OptInit, ShapeInv
<1>2. ShapeInv /\ [CommandNext]_<<vars, optVars>> => [Next]_vars /\ ShapeInv'
  <2> SUFFICES ASSUME ShapeInv, [CommandNext]_<<vars, optVars>> PROVE [Next]_vars /\ ShapeInv'
    OBVIOUS
  <2>1. ASSUME line' = line, arg' \in Nat, given' \in Shaped PROVE ShapeInv'
    BY <2>1 DEF ShapeInv, Shaped, Heard
  <2>2. CASE ParseArgument /\ UNCHANGED vars
    <3> DEFINE s == FoldLeft(Matching, [arg |-> arg, given |-> given, alive |-> TRUE], OptionTable)
    <3>1. arg \in Nat /\ given \in Shaped
      BY <2>2 DEF ShapeInv, ParseArgument
    <3>2. s \in [arg : Nat, given : Shaped, alive : BOOLEAN]
      BY <3>1, RoundShape
    <3>3. /\ given' = [s.given EXCEPT !.help = @ \/ (s.alive /\ line[s.arg] \in Help)]
          /\ arg' = s.arg + 1 /\ line' = line
      BY <2>2 DEF ParseArgument
    <3> HIDE DEF s
    <3>4. arg' \in Nat /\ given' \in Shaped
      BY <3>2, <3>3 DEF Shaped
    <3> QED
      BY <2>1, <2>2, <3>3, <3>4
  <2>3. CASE ParseEnd /\ UNCHANGED vars
    BY <2>1, <2>3 DEF ParseEnd, ShapeInv
  <2>4. CASE Run
    <3>1. given \in Shaped
      BY <2>4 DEF Run, ShapeInv
    <3>2. Selected \subseteq {Cases[c].name : c \in DOMAIN Cases}
      BY DEF AnyOptions, Selected
    <3>3. PathGiven \in Places \cup {NoPath}
      BY DEF PathGiven, Places
    <3>4. GivenOptions \in Options
      BY <3>1, <3>2, <3>3 DEF AnyOptions, GivenOptions, Shaped
    <3> QED
      BY <2>4, <3>4 DEF Run, LineDone, Next, ShapeInv
  <2>5. CASE NoRun
    BY <2>5 DEF NoRun, LineDone, ShapeInv
  <2>6. CASE Proceed
    BY <2>6 DEF Proceed, ShapeInv, optVars
  <2>7. CASE UNCHANGED <<vars, optVars>>
    BY <2>1, <2>7 DEF optVars, ShapeInv
  <2> QED
    BY <2>2, <2>3, <2>4, <2>5, <2>6, <2>7 DEF CommandNext, Parse
<1> QED
  BY <1>1, <1>2, PTL DEF CommandSpec, Spec
=============================================================================
