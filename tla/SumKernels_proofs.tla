--------------------------- MODULE SumKernels_proofs ---------------------------
(***************************************************************************)
(* What a stream kernel computes, and where, for every num_points: if the  *)
(* lanes of one round are those of `generic`, so is the whole output.      *)
(* That each proto-kernel has RightBlocks and SmallBlocks is               *)
(* RowsAssumption of MCStreamKernels, which run stream_kernels evaluates.  *)
(*                                                                         *)
(* What the kernels that add up compute, for every num_points: every point *)
(* is counted once, and if what becomes of the lanes of one round is what  *)
(* `generic` adds for its points, so it is for all rounds.  That each      *)
(* proto-kernel has such sums is RowsAssumption of MCStreamKernels too.    *)
(*                                                                         *)
(* What the kernels compute whose points depend on the points before them: *)
(* by how much the rotator turns each point, call after call, which        *)
(* differences the detector finds, and how far points are from their mean. *)
(***************************************************************************)
EXTENDS SumKernels, Rotator, RunningKernels, FiniteSetTheorems, WellFoundedInduction, TLAPS

-----------------------------------------------------------------------------
(* The stream kernels.                                                     *)

(* Every block makes of its points what `generic` makes of the first ones. *)
RightBlocks(p) ==
  \A i \in DOMAIN p.loops : \A k \in 1 .. p.loops[i].block :
    p.loops[i].values[k] = p.result[k]

(* No loop loads or stores more points than it consumes, and no more than  *)
(* one point is loaded of an operand that has one.                         *)
SmallBlocks(p) ==
  /\ p.once <= 1
  /\ \A i \in DOMAIN p.loops :
       ~p.loops[i].partial =>
         p.loops[i].reads <= p.loops[i].block /\ Len(p.loops[i].values) = p.loops[i].block

-----------------------------------------------------------------------------
(* The invariant: what is behind pos is right, and a function that is done *)
(* is behind all points.                                                   *)
RightBehind ==
  \A q \in 0 .. pos - 1 :
    mem[q].from \in 0 .. q /\ mem[q].value = Result(q - mem[q].from)

AtRest == pc = "idle" => n = 0 /\ pos = 0 /\ loop = 1 /\ mem = <<>> /\ past = FALSE
AllConsumed == pc = "done" => pos = n

IInv == TypeOK /\ AtRest /\ AllConsumed

-----------------------------------------------------------------------------
(* The proto-kernel that runs is one of the given, and so is its loop.     *)
LEMMA LoopThatRuns ==
  ASSUME TypeOK, pc # "idle"
  PROVE  /\ <<proto, n>> \in Calls /\ ProtoKernel(proto)
         /\ loop \in DOMAIN Loops /\ Loop(Loops[loop])
         /\ DOMAIN Loops = 1 .. Len(Loops) /\ Len(Loops) \in Nat \ {0}
<1>1. <<proto, n>> \in Calls /\ loop \in DOMAIN Loops
  BY DEF TypeOK
<1>2. ProtoKernel(<<proto, n>>[1])
  BY <1>1, CallsAssumption
<1>3. ProtoKernel(proto)
  BY <1>2
<1>4. Loop(Loops[loop])
  BY <1>1, <1>3 DEF ProtoKernel, Loops
<1>5. DOMAIN Loops = 1 .. Len(Loops) /\ Len(Loops) \in Nat \ {0}
  BY <1>3 DEF ProtoKernel, Loops
<1> QED
  BY <1>1, <1>3, <1>4, <1>5

(* A round consumes at least one point, and no more than a block or than   *)
(* there are.                                                              *)
LEMMA RoundsBounded ==
  ASSUME TypeOK, NEW s, Loop(s), NEW k \in Rounds(s)
  PROVE  /\ k \in Nat \ {0} /\ k <= s.block /\ pos + k <= n
         /\ ~s.partial => k = s.block
<1>1. n \in Nat /\ pos \in Nat /\ s.block \in Nat \ {0} /\ s.partial \in BOOLEAN
  BY DEF TypeOK, Loop
<1>2. CASE s.partial
  BY <1>1, <1>2 DEF Rounds
<1>3. CASE ~s.partial
  BY <1>1, <1>3 DEF Rounds
<1> QED
  BY <1>1, <1>2, <1>3

(* The last loop has a round as long as there are points.                  *)
LEMMA LastLoopGoesOn ==
  ASSUME TypeOK, pc # "idle", loop = Len(Loops), Rounds(Loops[loop]) = {}
  PROVE  pos = n
<1> DEFINE s == Loops[loop]
<1>1. Loop(s) /\ (s.block = 1 \/ s.partial)
  BY LoopThatRuns DEF ProtoKernel, Loops
<1>2. n \in Nat /\ pos \in 0 .. n /\ s.block \in Nat \ {0} /\ s.partial \in BOOLEAN
  BY <1>1 DEF TypeOK, Loop
<1> SUFFICES ASSUME pos < n PROVE FALSE
  BY <1>2
<1>3. CASE s.partial
  <2> DEFINE k == IF n - pos <= s.block THEN n - pos ELSE s.block
  <2>1. k \in 1 .. s.block /\ k <= n - pos /\ (k = n - pos \/ k = s.block)
    BY <1>2
  <2>2. k \in Rounds(s)
    BY <1>3, <2>1 DEF Rounds
  <2> QED
    BY <2>2
<1>4. CASE ~s.partial
  <2>1. s.block = 1 /\ 1 <= n - pos
    BY <1>1, <1>2, <1>4
  <2>2. 1 \in Rounds(s)
    BY <1>4, <2>1 DEF Rounds
  <2> QED
    BY <2>2
<1> QED
  BY <1>3, <1>4

(* What a round leaves in memory: the new values in front of it, the old   *)
(* ones elsewhere.                                                         *)
LEMMA RoundStores ==
  ASSUME TypeOK, pc = "loop", NEW k \in Rounds(Loops[loop]),
         mem' = [q \in DOMAIN mem |->
                   IF q \in DOMAIN Stored(Loops[loop], k)
                     THEN [from |-> pos, value |-> Stored(Loops[loop], k)[q]] ELSE mem[q]]
  PROVE  /\ DOMAIN mem' = DOMAIN mem
         /\ \A q \in DOMAIN mem :
              \/ mem'[q] = mem[q] /\ ~(q \in pos .. pos + k - 1)
              \/ /\ q >= pos
                 /\ mem'[q].from = pos /\ mem'[q].value = Loops[loop].values[q - pos + 1]
<1> DEFINE s == Loops[loop]
           new == Stored(s, k)
           last == pos + (IF s.partial THEN k ELSE Len(s.values)) - 1
<1>1. Loop(s)
  BY LoopThatRuns
<1>2. k \in Nat \ {0} /\ (~s.partial => k = s.block)
  BY <1>1, RoundsBounded
<1>3. pos \in Nat /\ Len(s.values) \in Nat /\ Len(s.values) >= s.block /\ s.block \in Nat
  BY <1>1 DEF TypeOK, Loop
<1>4. DOMAIN new = pos .. last /\ \A q \in DOMAIN new : new[q] = s.values[q - pos + 1]
  BY DEF Stored
<1>5. pos + k - 1 <= last
  BY <1>2, <1>3
<1>6. ASSUME NEW q \in DOMAIN mem
      PROVE  \/ mem'[q] = mem[q] /\ ~(q \in pos .. pos + k - 1)
             \/ /\ q >= pos
                /\ mem'[q].from = pos /\ mem'[q].value = s.values[q - pos + 1]
  <2>1. CASE q \in DOMAIN new
    BY <1>3, <1>4, <2>1
  <2>2. CASE q \notin DOMAIN new
    <3>1. ~(q \in pos .. pos + k - 1)
      BY <1>2, <1>3, <1>4, <1>5, <2>2
    <3> QED
      BY <3>1, <2>2
  <2> QED
    BY <2>1, <2>2
<1> QED
  BY <1>6

-----------------------------------------------------------------------------
(* The empty memory holds no point.                                        *)
LEMMA NothingStored == DOMAIN <<>> = 0 .. 0 - 1
<1>1. <<>> \in Seq({}) /\ Len(<<>>) = 0
  OBVIOUS
<1>2. DOMAIN <<>> = 1 .. 0
  BY <1>1
<1> QED
  BY <1>2

(* Nothing is called at the start.                                         *)
LEMMA InitInvariant == Init => IInv
<1> SUFFICES ASSUME Init PROVE IInv
  OBVIOUS
<1>1. DOMAIN mem = 0 .. n - 1 /\ \A q \in DOMAIN mem : FALSE
  <2>1. mem = <<>> /\ n = 0
    BY DEF Init
  <2>2. DOMAIN mem = 0 .. n - 1
    BY <2>1, NothingStored
  <2> QED
    BY <2>1, <2>2
<1>2. pc = "idle" /\ n = 0 /\ pos = 0 /\ past \in BOOLEAN
  BY DEF Init
<1>3. TypeOK
  BY <1>1, <1>2 DEF TypeOK
<1> QED
  BY <1>3 DEF Init, IInv, AtRest, AllConsumed

LEMMA BeginInvariant == IInv /\ Begin => IInv'
<1> SUFFICES ASSUME IInv, Begin PROVE IInv'
  OBVIOUS
<1>1. PICK c \in Calls : proto' = c[1] /\ n' = c[2]
  BY DEF Begin
<1>2. ProtoKernel(c[1]) /\ c[2] \in Nat
  BY <1>1, CallsAssumption
<1>3. c = <<c[1], c[2]>>
  BY <1>1, CallsAssumption
<1>4. pos = 0 /\ loop = 1 /\ pc' = "loop" /\ UNCHANGED <<loop, pos>>
  BY DEF IInv, AtRest, Begin
<1>5. <<proto', n'>> \in Calls /\ 1 \in DOMAIN proto'.loops
  BY <1>1, <1>2, <1>3 DEF ProtoKernel
<1>6. mem' = [q \in 0 .. n' - 1 |-> None] /\ past' \in BOOLEAN
  BY DEF Begin
<1>7. TypeOK'
  BY <1>1, <1>2, <1>4, <1>5, <1>6 DEF TypeOK, Loops, None
<1> QED
  BY <1>4, <1>7 DEF IInv, AtRest, AllConsumed

LEMMA RoundInvariant == IInv /\ Round => IInv'
<1> SUFFICES ASSUME IInv, Round PROVE IInv'
  OBVIOUS
<1> USE DEF IInv
<1>1. PICK k \in Rounds(Loops[loop]) :
        /\ mem' = [q \in DOMAIN mem |->
                     IF q \in DOMAIN Stored(Loops[loop], k)
                       THEN [from |-> pos, value |-> Stored(Loops[loop], k)[q]] ELSE mem[q]]
        /\ past' \in BOOLEAN
        /\ pos' = pos + k
  BY DEF Round, TypeOK
<1>2. pc = "loop" /\ UNCHANGED <<pc, proto, n, loop>>
  BY DEF Round
<1>3. k \in Nat \ {0} /\ pos + k <= n
  BY <1>2, LoopThatRuns, RoundsBounded
<1>4. pos' \in 0 .. n' /\ n' \in Nat
  BY <1>1, <1>2, <1>3 DEF TypeOK
<1>5. DOMAIN mem' = DOMAIN mem /\ \A q \in DOMAIN mem : mem'[q].from \in {mem[q].from, pos}
  BY <1>1, <1>2, RoundStores
<1>6. \A q \in DOMAIN mem' : mem'[q].from \in -1 .. pos' - 1
  BY <1>1, <1>3, <1>5 DEF TypeOK
<1>7. TypeOK'
  BY <1>1, <1>2, <1>4, <1>5, <1>6 DEF TypeOK, Loops
<1> QED
  BY <1>2, <1>7 DEF AtRest, AllConsumed

LEMMA OtherInvariant ==
  IInv /\ (NextLoop \/ Finish \/ Return \/ UNCHANGED vars) => IInv'
<1> SUFFICES ASSUME IInv, NextLoop \/ Finish \/ Return \/ UNCHANGED vars PROVE IInv'
  OBVIOUS
<1> USE DEF IInv
<1>1. CASE NextLoop
  <2>1. loop' \in DOMAIN Loops'
    BY <1>1, LoopThatRuns DEF NextLoop, Loops
  <2> QED
    BY <1>1, <2>1 DEF NextLoop, TypeOK, AtRest, AllConsumed, Loops
<1>2. CASE Finish
  <2>1. pos = n
    BY <1>2, LastLoopGoesOn DEF Finish
  <2> QED
    BY <1>2, <2>1 DEF Finish, TypeOK, AtRest, AllConsumed, Loops
<1>3. CASE Return
  <2>1. mem' = <<>> /\ n' = 0
    BY <1>3 DEF Return
  <2>2. DOMAIN mem' = 0 .. n' - 1
    BY <2>1, NothingStored
  <2>3. \A q \in DOMAIN mem' : FALSE
    BY <2>1, <2>2
  <2>4. pc' = "idle" /\ n' = 0 /\ pos' = 0 /\ past' \in BOOLEAN
    BY <1>3 DEF Return
  <2>5. TypeOK'
    BY <2>2, <2>3, <2>4 DEF TypeOK
  <2> QED
    BY <1>3, <2>5 DEF Return, AtRest, AllConsumed
<1>4. CASE UNCHANGED vars
  BY <1>4 DEF vars, TypeOK, AtRest, AllConsumed, Loops
<1> QED
  BY <1>1, <1>2, <1>3, <1>4

(* The invariant of every run: a function stops exactly behind its points. *)
THEOREM StreamInvariantHolds == Spec => []IInv
<1>1. IInv /\ [Next]_vars => IInv'
  BY BeginInvariant, RoundInvariant, OtherInvariant DEF Next
<1> QED
  BY InitInvariant, <1>1, PTL DEF Spec

(* For any blocks, tails and lengths the variables keep their types; in    *)
(* particular no round consumes points that are not there.                 *)
THEOREM StreamTypeOK == Spec => []TypeOK
<1>1. IInv => TypeOK
  BY DEF IInv
<1> QED
  BY <1>1, StreamInvariantHolds, PTL

-----------------------------------------------------------------------------
(* If every block is right, a round adds right points.                     *)
LEMMA RightRound ==
  ASSUME \A c \in Calls : RightBlocks(c[1]), IInv, RightBehind, Round
  PROVE  RightBehind'
<1> USE DEF IInv
<1>1. PICK k \in Rounds(Loops[loop]) :
        /\ mem' = [q \in DOMAIN mem |->
                     IF q \in DOMAIN Stored(Loops[loop], k)
                       THEN [from |-> pos, value |-> Stored(Loops[loop], k)[q]] ELSE mem[q]]
        /\ pos' = pos + k
  BY DEF Round
<1>2. pc = "loop" /\ UNCHANGED <<pc, proto, n, loop>>
  BY DEF Round
<1> DEFINE s == Loops[loop]
<1>3. k \in Nat \ {0} /\ pos + k <= n /\ k <= s.block /\ pos \in Nat /\ n \in Nat /\ s.block \in Nat
  <2>1. Loop(s)
    BY <1>2, LoopThatRuns
  <2>2. pos \in Nat /\ n \in Nat /\ s.block \in Nat
    BY <2>1 DEF TypeOK, Loop
  <2> QED
    BY <2>1, <2>2, RoundsBounded
<1>4. \A j \in 1 .. s.block : s.values[j] = proto.result[j]
  <2>1. RightBlocks(<<proto, n>>[1])
    BY <1>2, LoopThatRuns
  <2> QED
    BY <2>1, <1>2, LoopThatRuns DEF RightBlocks, Loops
<1>5. SUFFICES ASSUME NEW q \in 0 .. pos' - 1
               PROVE  mem'[q].from \in 0 .. q /\ mem'[q].value = proto.result[q - mem'[q].from + 1]
  BY <1>2 DEF RightBehind, Result
<1>6. q \in DOMAIN mem
  BY <1>1, <1>3 DEF TypeOK
<1>7. CASE mem'[q] = mem[q] /\ ~(q \in pos .. pos + k - 1)
  <2>1. q \in 0 .. pos - 1
    BY <1>1, <1>3, <1>7
  <2> QED
    BY <1>7, <2>1 DEF RightBehind, Result
<1>8. CASE mem'[q].from = pos /\ mem'[q].value = s.values[q - pos + 1] /\ pos <= q
  <2>1. q - pos + 1 \in 1 .. s.block
    BY <1>1, <1>3, <1>8
  <2> QED
    BY <1>3, <1>4, <1>8, <2>1
<1> QED
  BY <1>1, <1>2, <1>6, <1>7, <1>8, RoundStores

(* No other step touches what has been stored.                             *)
LEMMA RightStep ==
  ASSUME \A c \in Calls : RightBlocks(c[1])
  PROVE  IInv /\ RightBehind /\ [Next]_vars => RightBehind'
<1> SUFFICES ASSUME IInv, RightBehind, [Next]_vars PROVE RightBehind'
  OBVIOUS
<1>1. CASE Begin
  <2>1. pos' = 0
    BY <1>1 DEF Begin, IInv, AtRest
  <2> QED
    BY <2>1 DEF RightBehind
<1>2. CASE Round
  BY <1>2, RightRound
<1>3. CASE NextLoop \/ Finish \/ UNCHANGED vars
  BY <1>3 DEF NextLoop, Finish, vars, RightBehind, Result
<1>4. CASE Return
  BY <1>4 DEF Return, RightBehind
<1> QED
  BY <1>1, <1>2, <1>3, <1>4 DEF Next

(* A kernel whose every block makes of its points what generic makes of    *)
(* them computes what generic computes, however many points there are and  *)
(* however they fall into blocks, smaller blocks and tail.                 *)
THEOREM AsGenericHolds ==
  ASSUME \A c \in Calls : RightBlocks(c[1])
  PROVE  Spec => []AsGeneric
<1>1. Init => RightBehind
  BY DEF Init, RightBehind
<1>2. IInv /\ RightBehind => AsGeneric
  BY DEF IInv, AllConsumed, RightBehind, AsGeneric, None, TypeOK
<1> QED
  BY <1>1, <1>2, RightStep, StreamInvariantHolds, PTL DEF Spec

-----------------------------------------------------------------------------
(* A round of small blocks stays inside the buffers.                       *)
LEMMA InBoundsStep ==
  ASSUME \A c \in Calls : SmallBlocks(c[1])
  PROVE  IInv /\ InBounds /\ [Next]_vars => InBounds'
<1> SUFFICES ASSUME IInv, InBounds, [Next]_vars PROVE InBounds'
  OBVIOUS
<1>1. CASE Begin
  <2>1. PICK c \in Calls : proto' = c[1]
    BY <1>1 DEF Begin
  <2>2. proto'.once \in Nat /\ proto'.once <= 1
    BY <2>1, CallsAssumption DEF SmallBlocks, ProtoKernel
  <2>3. past' = (proto'.once > 1)
    BY <1>1 DEF Begin
  <2>4. ~(proto'.once > 1)
    BY <2>2
  <2> QED
    BY <2>3, <2>4 DEF InBounds
<1>2. CASE Round
  <2> DEFINE s == Loops[loop]
  <2>1. PICK k \in Rounds(s) :
          past' = (past \/ (~s.partial /\ pos + s.reads > n)
                        \/ \E q \in DOMAIN Stored(s, k) : q >= n)
    BY <1>2 DEF Round
  <2>2. pc = "loop" /\ Loop(s)
    BY <1>2, LoopThatRuns DEF Round, IInv
  <2>3. k \in Nat \ {0} /\ pos + k <= n /\ (~s.partial => k = s.block)
    BY <2>2, RoundsBounded DEF IInv
  <2>4. ~s.partial => s.reads <= s.block /\ Len(s.values) = s.block
    <3>1. SmallBlocks(<<proto, n>>[1])
      BY <2>2, LoopThatRuns DEF IInv
    <3> QED
      BY <3>1, <2>2, LoopThatRuns DEF SmallBlocks, Loops, IInv
  <2>5. pos \in Nat /\ n \in Nat /\ s.reads \in Nat /\ s.block \in Nat
    BY <2>2 DEF IInv, TypeOK, Loop
  <2>6. DOMAIN Stored(s, k) = pos .. pos + k - 1
    BY <2>3, <2>4 DEF Stored
  <2>7. ~(~s.partial /\ pos + s.reads > n)
    BY <2>3, <2>4, <2>5
  <2>8. ~\E q \in DOMAIN Stored(s, k) : q >= n
    BY <2>3, <2>5, <2>6
  <2> QED
    BY <2>1, <2>7, <2>8 DEF InBounds
<1>3. CASE NextLoop \/ Finish \/ Return \/ UNCHANGED vars
  BY <1>3 DEF NextLoop, Finish, Return, vars, InBounds
<1> QED
  BY <1>1, <1>2, <1>3 DEF Next

(* A kernel whose blocks load and store only what they consume never       *)
(* touches anything behind its buffers, whatever num_points is.            *)
THEOREM InBoundsHolds ==
  ASSUME \A c \in Calls : SmallBlocks(c[1])
  PROVE  Spec => []InBounds
<1>1. Init => InBounds
  BY DEF Init, InBounds
<1> QED
  BY <1>1, InBoundsStep, StreamInvariantHolds, PTL DEF Spec

-----------------------------------------------------------------------------
(* The kernels that add up.                                                *)

(* How many points a round of a loop may take.                             *)
Takes(s) == IF s.partial THEN 1 .. s.block ELSE {s.block}

(* left[<<i, j, k>>] is what is left in loop j of the lanes of a round of  *)
(* k points of loop i; behind the last loop it is what generic adds.       *)
RightRoundSums(p, left, i, k) ==
  /\ left[<<i, i, k>>] = p.loops[i].adds[k]
  /\ \A j \in i .. Len(p.loops) - 1 :
       left[<<i, j + 1, k>>] = Sums(p.loops[j + 1].carry, left[<<i, j, k>>])
  /\ Sums(p.sums, left[<<i, Len(p.loops), k>>])
       = [o \in DOMAIN p.sums |-> Total([q \in 1 .. k |-> p.total[q][o]])]

RightSums(p, left) ==
  \A i \in DOMAIN p.loops : \A k \in Takes(p.loops[i]) : RightRoundSums(p, left, i, k)

-----------------------------------------------------------------------------
(* The invariants.  The rounds of parts take the points below m, each      *)
(* point one of them; nothing is added before the call, and the results    *)
(* are of the same rounds as the accumulators.                             *)
PartsOf(parts, m) ==
  /\ \A f \in DOMAIN parts :
       f \in Nat /\ parts[f].points \in Nat /\ f + parts[f].points <= m
  /\ \A q \in 0 .. m - 1 : \E f \in DOMAIN parts :
       Covers(parts, f, q) /\ \A g \in DOMAIN parts : Covers(parts, g, q) => g = f

Counted ==
  /\ PartsOf(acc, pos)
  /\ pc = "idle" => DOMAIN acc = {}
  /\ pc = "done" => PartsOf(sum, pos)

(* What is left of a round's lanes in loop j, by a round of which loop.    *)
PartOf(left, part, j) ==
  \E i \in 1 .. j :
    part.points \in Takes(Loops[i]) /\ part.lanes = left[<<i, j, part.points>>]

RightParts(left) ==
  /\ pc = "loop" => \A f \in DOMAIN acc : PartOf(left[proto], acc[f], loop)
  /\ pc = "done" => SummedAsGeneric

-----------------------------------------------------------------------------
(* Every step is one of the stream kernels.                                *)
LEMMA SumStep == [SumNext]_sumVars => [Next]_vars
BY DEF SumNext, sumVars, Next, vars, SumBegin, SumRound, SumNextLoop, SumFinish, SumReturn

(* The kernels that add up go over their points like the others: what is   *)
(* proved of the stream kernels holds for them too.                        *)
THEOREM SumsAreStreams == SumSpec => Spec
<1>1. SumInit => Init
  BY DEF SumInit
<1> QED
  BY <1>1, SumStep, PTL DEF SumSpec, Spec

(* The invariant of the stream kernels.                                    *)
LEMMA SumIInv == SumSpec => []IInv
BY SumsAreStreams, StreamInvariantHolds, PTL

-----------------------------------------------------------------------------
(* The same rounds, whatever becomes of their lanes.                       *)
LEMMA SameParts ==
  ASSUME NEW a, NEW b, NEW m, PartsOf(a, m), DOMAIN b = DOMAIN a,
         \A f \in DOMAIN a : b[f].points = a[f].points
  PROVE  PartsOf(b, m)
BY DEF PartsOf, Covers

(* One more round takes the points behind the others.                      *)
LEMMA OnePartMore ==
  ASSUME NEW m \in Nat, NEW k \in Nat \ {0}, NEW a, NEW b, PartsOf(a, m),
         DOMAIN b = DOMAIN a \cup {m}, b[m].points = k,
         \A f \in DOMAIN a : f # m => b[f] = a[f]
  PROVE  PartsOf(b, m + k)
<1>1. \A f \in DOMAIN b :
        f \in Nat /\ b[f].points \in Nat /\ f + b[f].points <= m + k
  BY DEF PartsOf
<1>2. ASSUME NEW q \in 0 .. m + k - 1
      PROVE  \E f \in DOMAIN b :
               Covers(b, f, q) /\ \A g \in DOMAIN b : Covers(b, g, q) => g = f
  <2>1. CASE q < m
    <3>1. q \in 0 .. m - 1
      BY <2>1
    <3>2. PICK f \in DOMAIN a :
            Covers(a, f, q) /\ \A g \in DOMAIN a : Covers(a, g, q) => g = f
      BY <3>1 DEF PartsOf
    <3>3. ~Covers(b, m, q)
      BY <2>1 DEF Covers
    <3>4. f # m
      BY <2>1, <3>2 DEF Covers, PartsOf
    <3> QED
      BY <3>2, <3>3, <3>4 DEF Covers
  <2>2. CASE q >= m
    <3>1. Covers(b, m, q)
      BY <2>2 DEF Covers
    <3>2. ASSUME NEW g \in DOMAIN b, Covers(b, g, q) PROVE g = m
      <4> SUFFICES ASSUME g # m PROVE FALSE
        OBVIOUS
      <4>1. g \in DOMAIN a /\ b[g] = a[g]
        OBVIOUS
      <4>2. g + a[g].points <= m /\ q <= g + a[g].points - 1 /\ g \in Nat /\ a[g].points \in Nat
        BY <3>2, <4>1 DEF Covers, PartsOf
      <4> QED
        BY <2>2, <4>2
    <3> QED
      BY <3>1, <3>2
  <2> QED
    BY <2>1, <2>2
<1> QED
  BY <1>1, <1>2 DEF PartsOf

(* What a round adds: its number of points, and the lanes for as many.     *)
LEMMA RoundAdds ==
  ASSUME IInv, SumRound
  PROVE  /\ pc = "loop" /\ pc' = "loop" /\ proto' = proto /\ n' = n /\ loop' = loop
         /\ pos \in Nat /\ pos' - pos \in Takes(Loops[loop])
         /\ pos' - pos \in Nat \ {0} /\ pos' = pos + (pos' - pos)
         /\ acc' = Accumulated(pos' - pos)
<1>1. PICK k \in Rounds(Loops[loop]) : pos' = pos + k
  BY DEF SumRound, Round
<1>2. pc = "loop" /\ UNCHANGED <<pc, proto, n, loop>> /\ acc' = Accumulated(pos' - pos)
  BY DEF SumRound, Round
<1>3. Loop(Loops[loop]) /\ pos \in Nat
  BY <1>2, LoopThatRuns DEF IInv, TypeOK
<1>4. /\ k \in Nat \ {0} /\ k <= Loops[loop].block
      /\ ~Loops[loop].partial => k = Loops[loop].block
  BY <1>3, RoundsBounded DEF IInv
<1>5. pos' - pos = k
  BY <1>1, <1>3, <1>4
<1>6. k \in Takes(Loops[loop])
  BY <1>3, <1>4 DEF Takes, Loop
<1> QED
  BY <1>1, <1>2, <1>3, <1>4, <1>5, <1>6

LEMMA CountedStep == IInv /\ Counted /\ [SumNext]_sumVars => Counted'
<1> SUFFICES ASSUME IInv, Counted, [SumNext]_sumVars PROVE Counted'
  OBVIOUS
<1> USE DEF Counted
<1>1. CASE SumBegin
  BY <1>1 DEF SumBegin, Begin, PartsOf, Covers
<1>2. CASE SumRound
  <2> DEFINE k == pos' - pos
  <2>1. acc' = [f \in DOMAIN acc \cup {pos} |->
                  IF f = pos THEN [points |-> k, lanes |-> Loops[loop].adds[k]] ELSE acc[f]]
    BY <1>2, RoundAdds DEF Accumulated
  <2>2. k \in Nat \ {0} /\ pos \in Nat /\ pos' = pos + k /\ pc' = "loop"
    BY <1>2, RoundAdds
  <2>3. PartsOf(acc', pos + k)
    <3> HIDE DEF k
    <3> QED
      BY <2>1, <2>2, OnePartMore
  <2> QED
    BY <2>2, <2>3
<1>3. CASE SumNextLoop
  <2>1. pos' = pos /\ pc = "loop" /\ pc' = "loop"
    BY <1>3 DEF SumNextLoop, NextLoop
  <2>2. PartsOf(acc', pos)
    BY <1>3, SameParts DEF SumNextLoop, Reduced
  <2> QED
    BY <2>1, <2>2
<1>4. CASE SumFinish
  <2>1. pos' = pos /\ pc' = "done" /\ acc' = acc
    BY <1>4 DEF SumFinish, Finish
  <2>2. PartsOf(sum', pos)
    BY <1>4, SameParts DEF SumFinish, Reduced
  <2> QED
    BY <2>1, <2>2
<1>5. CASE SumReturn
  <2>1. pc' = "idle" /\ pos' = 0 /\ acc' = <<>>
    BY <1>5 DEF SumReturn, Return
  <2>2. DOMAIN acc' = {}
    BY <2>1
  <2> QED
    BY <2>1, <2>2 DEF PartsOf
<1>6. CASE UNCHANGED sumVars
  BY <1>6 DEF sumVars, vars, PartsOf, Covers
<1> QED
  BY <1>1, <1>2, <1>3, <1>4, <1>5, <1>6 DEF SumNext

(* In every call, whatever blocks the points fall into, each point goes    *)
(* into the results exactly once.                                          *)
THEOREM CountedOnceHolds == SumSpec => [](pc = "done" => CountedOnce)
<1>1. SumInit => Counted
  <2> SUFFICES ASSUME SumInit PROVE Counted
    OBVIOUS
  <2>1. pc = "idle" /\ pos = 0 /\ DOMAIN acc = {}
    BY DEF SumInit, Init
  <2> QED
    BY <2>1 DEF Counted, PartsOf
<1>2. IInv /\ Counted => (pc = "done" => CountedOnce)
  <2> SUFFICES ASSUME IInv, Counted, pc = "done", NEW q \in 0 .. n - 1
               PROVE  Cardinality({f \in DOMAIN sum : Covers(sum, f, q)}) = 1
    BY DEF CountedOnce
  <2>1. PartsOf(sum, pos) /\ q \in 0 .. pos - 1
    BY DEF Counted, IInv, AllConsumed
  <2>2. PICK f \in DOMAIN sum :
          Covers(sum, f, q) /\ \A g \in DOMAIN sum : Covers(sum, g, q) => g = f
    BY <2>1 DEF PartsOf
  <2>3. {g \in DOMAIN sum : Covers(sum, g, q)} = {f}
    BY <2>2
  <2> QED
    BY <2>3, FS_Singleton
<1> QED
  BY <1>1, <1>2, CountedStep, SumIInv, PTL DEF SumSpec

-----------------------------------------------------------------------------
(* A call whose proto-kernel has right sums: so has the one that runs.     *)
LEMMA SumsOfTheCall ==
  ASSUME NEW left, \A c \in Calls : RightSums(c[1], left[c[1]]), IInv, pc # "idle"
  PROVE  RightSums(proto, left[proto])
<1>1. RightSums(<<proto, n>>[1], left[<<proto, n>>[1]])
  BY LoopThatRuns DEF IInv
<1> QED
  BY <1>1

(* And so has each round of its loops.                                     *)
LEMMA SumsOfTheRound ==
  ASSUME NEW left, \A c \in Calls : RightSums(c[1], left[c[1]]), IInv, pc # "idle",
         NEW i \in DOMAIN Loops, NEW k \in Takes(Loops[i])
  PROVE  RightRoundSums(proto, left[proto], i, k)
<1>1. RightSums(proto, left[proto])
  BY SumsOfTheCall
<1> QED
  BY <1>1 DEF RightSums, Loops

(* Every step leaves of the lanes what the loops that follow expect.       *)
LEMMA RightPartsStep ==
  ASSUME NEW left, \A c \in Calls : RightSums(c[1], left[c[1]])
  PROVE  IInv /\ Counted /\ RightParts(left) /\ [SumNext]_sumVars => RightParts(left)'
<1> SUFFICES ASSUME IInv, Counted, RightParts(left), [SumNext]_sumVars PROVE RightParts(left)'
  OBVIOUS
<1>1. CASE SumBegin
  <2>1. pc' = "loop" /\ DOMAIN acc' = {}
    BY <1>1 DEF SumBegin, Begin, Counted
  <2> QED
    BY <2>1 DEF RightParts
<1>2. CASE SumRound
  <2> DEFINE k == pos' - pos
  <2>1. /\ pc = "loop" /\ pc' = "loop" /\ proto' = proto /\ loop' = loop
        /\ k \in Takes(Loops[loop])
        /\ acc' = [f \in DOMAIN acc \cup {pos} |->
                     IF f = pos THEN [points |-> k, lanes |-> Loops[loop].adds[k]] ELSE acc[f]]
    BY <1>2, RoundAdds DEF Accumulated
  <2>2. loop \in 1 .. Len(Loops) /\ DOMAIN Loops = 1 .. Len(Loops) /\ Len(Loops) \in Nat
    BY <2>1, LoopThatRuns DEF IInv
  <2>3. left[proto][<<loop, loop, k>>] = Loops[loop].adds[k]
    <3>1. loop \in DOMAIN Loops /\ pc # "idle"
      BY <2>1, <2>2
    <3> HIDE DEF k
    <3>2. RightRoundSums(proto, left[proto], loop, k)
      BY <2>1, <3>1, SumsOfTheRound
    <3> QED
      BY <3>2 DEF RightRoundSums, Loops
  <2>4. ASSUME NEW f \in DOMAIN acc' PROVE PartOf(left[proto], acc'[f], loop)
    <3> HIDE DEF k
    <3>1. CASE f = pos
      BY <2>1, <2>2, <2>3, <3>1 DEF PartOf
    <3>2. CASE f # pos
      BY <2>1, <3>2 DEF RightParts
    <3> QED
      BY <3>1, <3>2
  <2> QED
    BY ZenonT(30), <2>1, <2>4 DEF RightParts, PartOf, Loops
<1>3. CASE SumNextLoop
  <2>1. /\ pc = "loop" /\ pc' = "loop" /\ proto' = proto /\ loop' = loop + 1
        /\ loop \in 1 .. Len(Loops) - 1 /\ DOMAIN Loops = 1 .. Len(Loops) /\ Len(Loops) \in Nat
    BY <1>3, LoopThatRuns DEF SumNextLoop, NextLoop, IInv
  <2>2. acc' = [f \in DOMAIN acc |->
                  [points |-> acc[f].points, lanes |-> Sums(Loops[loop + 1].carry, acc[f].lanes)]]
    BY <1>3, <2>1 DEF SumNextLoop, Reduced, Loops
  <2>3. ASSUME NEW f \in DOMAIN acc PROVE PartOf(left[proto], acc'[f], loop + 1)
    <3>0. PICK i \in 1 .. loop :
            /\ acc[f].points \in Takes(Loops[i])
            /\ acc[f].lanes = left[proto][<<i, loop, acc[f].points>>]
      BY <2>1 DEF RightParts, PartOf
    <3>1. PICK k \in Takes(Loops[i]) :
            acc[f].points = k /\ acc[f].lanes = left[proto][<<i, loop, k>>]
      BY <3>0
    <3>2. i \in DOMAIN Loops /\ loop \in i .. Len(Loops) - 1 /\ i \in 1 .. loop + 1
      BY <2>1
    <3>3. RightRoundSums(proto, left[proto], i, k)
      BY <2>1, <3>2, SumsOfTheRound
    <3>4. left[proto][<<i, loop + 1, k>>] = Sums(Loops[loop + 1].carry, acc[f].lanes)
      BY <3>1, <3>2, <3>3 DEF RightRoundSums, Loops
    <3> QED
      BY <2>2, <3>1, <3>2, <3>4 DEF PartOf
  <2> QED
    BY <2>1, <2>2, <2>3 DEF RightParts, PartOf, Loops
<1>4. CASE SumFinish
  <2>1. /\ pc = "loop" /\ pc' = "done" /\ proto' = proto /\ loop = Len(Loops)
        /\ loop \in DOMAIN Loops /\ DOMAIN Loops = 1 .. Len(Loops) /\ Len(Loops) \in Nat
    BY <1>4, LoopThatRuns DEF SumFinish, Finish, IInv
  <2>2. sum' = [f \in DOMAIN acc |->
                  [points |-> acc[f].points, lanes |-> Sums(proto.sums, acc[f].lanes)]]
    BY <1>4 DEF SumFinish, Reduced
  <2>3. ASSUME NEW f \in DOMAIN acc
        PROVE  Sums(proto.sums, acc[f].lanes)
                 = [o \in DOMAIN proto.sums |-> GenericTotal(acc[f].points, o)]
    <3>0. PICK i \in 1 .. loop :
            /\ acc[f].points \in Takes(Loops[i])
            /\ acc[f].lanes = left[proto][<<i, loop, acc[f].points>>]
      BY <2>1 DEF RightParts, PartOf
    <3>1. PICK k \in Takes(Loops[i]) :
            acc[f].points = k /\ acc[f].lanes = left[proto][<<i, loop, k>>]
      BY <3>0
    <3>2. i \in DOMAIN Loops /\ pc # "idle"
      BY <2>1
    <3>3. RightRoundSums(proto, left[proto], i, k)
      BY <3>2, SumsOfTheRound
    <3>4. Sums(proto.sums, left[proto][<<i, Len(Loops), k>>])
            = [o \in DOMAIN proto.sums |-> GenericTotal(k, o)]
      BY <3>3 DEF RightRoundSums, Loops, GenericTotal
    <3> QED
      BY <2>1, <3>1, <3>4
  <2> QED
    BY <2>1, <2>2, <2>3 DEF RightParts, SummedAsGeneric, GenericTotal
<1>5. CASE SumReturn
  BY <1>5 DEF SumReturn, Return, RightParts
<1>6. CASE UNCHANGED sumVars
  BY <1>6 DEF sumVars, vars, RightParts, PartOf, Loops, SummedAsGeneric, GenericTotal
<1> QED
  BY <1>1, <1>2, <1>3, <1>4, <1>5, <1>6 DEF SumNext

(* If what is left of every block's lanes, after each chain of sums behind *)
(* it, is what generic adds for the block, the results are what generic    *)
(* computes, however many points there are.                                *)
THEOREM SumAsGenericHolds ==
  ASSUME NEW left, \A c \in Calls : RightSums(c[1], left[c[1]])
  PROVE  SumSpec => []SumAsGeneric
<1>1. SumInit => Counted /\ RightParts(left)
  <2> SUFFICES ASSUME SumInit PROVE Counted /\ RightParts(left)
    OBVIOUS
  <2>1. pc = "idle" /\ pos = 0 /\ DOMAIN acc = {}
    BY DEF SumInit, Init
  <2> QED
    BY <2>1 DEF Counted, PartsOf, RightParts
<1>2. RightParts(left) /\ (pc = "done" => CountedOnce) => SumAsGeneric
  BY DEF RightParts, SumAsGeneric
<1>3. IInv /\ Counted /\ RightParts(left) /\ [SumNext]_sumVars => RightParts(left)'
  BY RightPartsStep
<1> QED
  BY <1>1, <1>2, <1>3, CountedStep, CountedOnceHolds, SumIInv, PTL DEF SumSpec

-----------------------------------------------------------------------------
(* The rotator.                                                            *)

LEMMA ZeroAdded == \A x \in Int : x + 0 = x /\ 0 * x = 0
OBVIOUS

(* Division.                                                               *)
LEMMA ProductsGrow ==
  ASSUME NEW a \in Nat, NEW b \in Nat, a < b, NEW c \in Nat
  PROVE  a * c + c <= b * c
<1>1. PICK x \in Nat : b = a + 1 + x
  <2>1. b - a - 1 \in Nat /\ b = a + 1 + (b - a - 1)
    OBVIOUS
  <2> QED BY <2>1
<1>2. b * c = a * c + c + x * c /\ x * c \in Nat /\ a * c \in Nat
  BY <1>1
<1> QED
  BY <1>2

LEMMA DivisionFacts ==
  ASSUME NEW m \in Nat, NEW d \in Nat, d > 0
  PROVE  /\ m \div d \in Nat /\ m % d \in Nat /\ m % d < d
         /\ m = (m \div d) * d + (m % d)
OBVIOUS

LEMMA DivisionIs ==
  ASSUME NEW m \in Nat, NEW d \in Nat, d > 0, NEW q \in Nat, NEW r \in Nat, r < d, m = q * d + r
  PROVE  m \div d = q /\ m % d = r
OBVIOUS

(* A block is a whole number of vectors.                                   *)
LEMMA BlockOfVectors ==
  ASSUME NEW r \in Rotators
  PROVE  /\ r.width \in Nat /\ r.width > 0
         /\ Reload \in Nat /\ Reload > 0
         /\ Reload \div r.width \in Nat /\ (Reload \div r.width) * r.width = Reload
<1>1. r.width \in Nat /\ r.width > 0 /\ Reload % r.width = 0 /\ Reload \in Nat /\ Reload > 0
  BY RotatorAssumption
<1> QED
  BY <1>1, DivisionFacts

(* What is left behind the blocks and the vectors is what is left behind   *)
(* as many vectors as there are.                                           *)
LEMMA TailIsRemainder ==
  ASSUME NEW r \in Rotators, NEW m \in Nat
  PROVE  m = (m \div Reload) * Reload + ((m % Reload) \div r.width) * r.width + (m % r.width)
<1> DEFINE w == r.width
           c == Reload \div w
           a == m \div Reload
           rest == m % Reload
           b == rest \div w
           s == rest % w
<1>1. w \in Nat /\ w > 0 /\ Reload \in Nat /\ Reload > 0 /\ c \in Nat /\ c * w = Reload
  BY BlockOfVectors
<1>2. a \in Nat /\ rest \in Nat /\ m = a * Reload + rest
  BY <1>1, DivisionFacts
<1>3. b \in Nat /\ s \in Nat /\ s < w /\ rest = b * w + s
  <2> HIDE DEF rest, w
  <2> QED BY <1>1, <1>2, DivisionFacts
<1> HIDE DEF a, b, c, s, w, rest
<1>5. a * c + b \in Nat /\ m = (a * c + b) * w + s
  <2>1. a * Reload = (a * c) * w
    BY <1>1, <1>2
  <2>2. (a * c + b) * w = (a * c) * w + b * w
    BY <1>1, <1>2, <1>3
  <2>3. (a * c) * w \in Nat /\ b * w \in Nat /\ a * c + b \in Nat
    BY <1>1, <1>2, <1>3
  <2> QED
    BY <1>2, <1>3, <2>1, <2>2, <2>3
<1>6. m % w = s
  <2> DEFINE u == a * c + b
  <2>1. u \in Nat /\ m = u * w + s
    BY <1>5
  <2> HIDE DEF u
  <2> QED
    BY <1>1, <1>3, <2>1, DivisionIs
<1>7. m = a * Reload + b * w + s
  <2>1. a * Reload \in Nat /\ b * w \in Nat
    BY <1>1, <1>2, <1>3
  <2> QED
    BY <1>2, <1>3, <2>1
<1>8. m = a * Reload + b * w + (m % w)
  BY <1>6, <1>7, Zenon
<1> QED
  BY <1>8 DEF a, b, rest, w

-----------------------------------------------------------------------------
(* How far the points, the phases and the angle have come, kind by kind.   *)
WholeBlocks == num_points \div Reload

RotTypes ==
  /\ phase \in Int /\ began \in Int /\ angle \in Int
  /\ num_points \in Nat /\ reloads \in Nat /\ round \in Nat /\ at \in Nat /\ vl \in Nat
  /\ stage \in {"idle", "blocks", "rest", "tail", "done"}
  /\ stage # "idle" => rotator \in Rotators

Idle ==
  stage = "idle" => reloads = 0 /\ round = 0 /\ at = 0 /\ vl = 0

LanesSet == \A k \in LaneNumbers : k \in DOMAIN phases /\ phases[k] = began + at + k

PointsSoFar ==
  Kind("point") =>
    /\ stage = "blocks" =>
         /\ reloads <= WholeBlocks /\ round <= Reload /\ (reloads = WholeBlocks => round = 0)
         /\ at = reloads * Reload + round /\ phase = began + at
    /\ stage = "rest" =>
         /\ reloads = WholeBlocks /\ round <= num_points % Reload
         /\ at = reloads * Reload + round /\ phase = began + at

AnglesSoFar ==
  Kind("angle") =>
    /\ stage = "blocks" =>
         /\ reloads <= WholeBlocks /\ round <= Reload \div W /\ (reloads = WholeBlocks => round = 0)
         /\ at = reloads * Reload + round * W /\ angle = began + reloads * Reload
         /\ LanesSet
    /\ stage = "rest" =>
         /\ reloads = WholeBlocks /\ round <= (num_points % Reload) \div W
         /\ at = reloads * Reload + round * W /\ angle = began + at
         /\ LanesSet
    /\ stage = "tail" =>
         /\ round <= num_points % W
         /\ at = WholeBlocks * Reload + ((num_points % Reload) \div W) * W + round
         /\ angle = began + at /\ phase = angle

VectorsSoFar ==
  Kind("vector") /\ stage = "blocks" =>
    /\ reloads * Reload <= at /\ at <= BlockStop
    /\ 0 \in DOMAIN phases
    /\ vl = 0 => at = 0 /\ phases[0] = began
    /\ vl > 0 => at > 0 /\ phases[0] = began + at + (W - vl)
    /\ at < num_points => LanesSet /\ (vl = W \/ at = 0) /\ \E k \in Nat : at = k * W

RotInv ==
  RotTypes /\ Idle /\ PointsSoFar /\ AnglesSoFar /\ VectorsSoFar /\ TurnedInStep /\ PhaseGoesOn

(* What a round does to the points.                                        *)
LEMMA TurnKeepsStep ==
  ASSUME RotTypes, \A q \in 0 .. at - 1 : turned[q] = began + q,
         NEW k \in Nat, NEW p, \A q \in 0 .. k - 1 : p[q] = began + at + q, Turn(k, p)
  PROVE  /\ \A q \in 0 .. at' - 1 : turned'[q] = began + q
         /\ at' = at + k /\ at' \in Nat /\ round' = round + 1 /\ round' \in Nat
<1>1. at \in Nat /\ began \in Int /\ round \in Nat
  BY DEF RotTypes
<1>2. at' = at + k /\ round' = round + 1
      /\ turned' = [q \in 0 .. at + k - 1 |-> IF q < at THEN turned[q] ELSE p[q - at]]
  BY DEF Turn
<1>3. ASSUME NEW q \in 0 .. at' - 1 PROVE turned'[q] = began + q
  <2>1. q \in 0 .. at + k - 1
    BY <1>1, <1>2
  <2>2. turned'[q] = IF q < at THEN turned[q] ELSE p[q - at]
    BY <1>2, <2>1
  <2>3. CASE q < at
    <3>1. q \in 0 .. at - 1
      BY <1>1, <2>1, <2>3
    <3> QED
      BY <2>2, <2>3, <3>1
  <2>4. CASE ~(q < at)
    <3>1. q - at \in 0 .. k - 1
      BY <1>1, <2>1, <2>4
    <3>2. p[q - at] = began + at + (q - at)
      BY <3>1
    <3> QED
      BY <1>1, <2>1, <2>2, <2>4, <3>2
  <2> QED
    BY <2>3, <2>4
<1> QED
  BY <1>1, <1>2, <1>3

LEMMA RotInitInv ==
  ASSUME RotInit
  PROVE  RotInv
BY DEF RotInit, RotInv, RotTypes, Idle, PointsSoFar, AnglesSoFar, VectorsSoFar, TurnedInStep, PhaseGoesOn

LEMMA NumbersInv ==
  ASSUME RotTypes, stage # "idle"
  PROVE  /\ W \in Nat /\ W > 0 /\ Reload \in Nat /\ Reload > 0
         /\ Reload \div W \in Nat /\ (Reload \div W) * W = Reload
         /\ WholeBlocks \in Nat /\ num_points % Reload \in Nat /\ num_points % Reload < Reload
         /\ num_points = WholeBlocks * Reload + (num_points % Reload)
         /\ num_points = WholeBlocks * Reload + ((num_points % Reload) \div W) * W + (num_points % W)
         /\ (num_points % Reload) \div W \in Nat /\ num_points % W \in Nat
<1>1. rotator \in Rotators /\ num_points \in Nat
  BY DEF RotTypes
<1>2. /\ W \in Nat /\ W > 0 /\ Reload \in Nat /\ Reload > 0
      /\ Reload \div W \in Nat /\ (Reload \div W) * W = Reload
  BY <1>1, BlockOfVectors DEF W
<1>3. /\ WholeBlocks \in Nat /\ num_points % Reload \in Nat /\ num_points % Reload < Reload
      /\ num_points = WholeBlocks * Reload + (num_points % Reload)
  BY <1>1, <1>2, DivisionFacts DEF WholeBlocks
<1>4. num_points = WholeBlocks * Reload + ((num_points % Reload) \div W) * W + (num_points % W)
  BY <1>1, TailIsRemainder DEF W, WholeBlocks
<1>5. (num_points % Reload) \div W \in Nat /\ num_points % W \in Nat
  BY <1>1, <1>2, <1>3, DivisionFacts
<1> QED
  BY <1>2, <1>3, <1>4, <1>5

LEMMA CallInv ==
  ASSUME RotInv, NEW r \in Rotators, NEW m \in Lengths, Call(r, m)
  PROVE  RotInv'
<1>1. /\ stage = "idle" /\ stage' = "blocks" /\ rotator' = r /\ num_points' = m
      /\ phases' = [k \in 0 .. r.width - 1 |-> phase' + k] /\ angle' = phase' /\ began' = phase'
      /\ reloads' = reloads /\ round' = round /\ at' = at /\ vl' = vl
      /\ phase' \in {phase, 0}
  BY DEF Call, LanesFrom
<1>2. m \in Nat /\ r.width \in Nat /\ r.width > 0 /\ Reload \in Nat /\ Reload > 0
  BY RotatorAssumption
<1>3. reloads = 0 /\ round = 0 /\ at = 0 /\ vl = 0 /\ phase' \in Int
  BY <1>1 DEF RotInv, Idle, RotTypes
<1>4. m \div Reload \in Nat /\ Reload \div r.width \in Nat
  BY <1>2, DivisionFacts, BlockOfVectors
<1>5. RotTypes'
  BY <1>1, <1>2, <1>3 DEF RotTypes
<1>6. LanesSet'
  BY <1>1, <1>2, <1>3 DEF LanesSet, LaneNumbers, W
<1>7. WholeBlocks' = m \div Reload /\ W' = r.width
  BY <1>1 DEF WholeBlocks, W
<1>8. BlockStop' \in Nat
  <2>1. (reloads' + 1) * Reload = Reload
    BY <1>1, <1>2, <1>3
  <2> QED
    BY <1>1, <1>2, <2>1 DEF AtMost, BlockStop
<1>9. 0 \in DOMAIN phases' /\ phases'[0] = phase'
  <2>1. 0 \in 0 .. r.width - 1
    BY <1>2
  <2>2. phases'[0] = phase' + 0
    BY <1>1, <2>1
  <2> QED
    BY <1>1, <1>3, <2>1, <2>2, ZeroAdded
<1>10. /\ 0 * Reload = 0
      /\ 0 * W' = 0
  BY <1>2, <1>7
<1>11. phase' + 0 = phase'
  BY <1>3, ZeroAdded
<1>12. PointsSoFar'
  <2>1. 0 * Reload + 0 = 0
    BY <1>10
  <2>2. /\ reloads' <= WholeBlocks' /\ round' <= Reload /\ round' = 0
    BY <1>1, <1>2, <1>3, <1>4, <1>7
  <2>3. at' = reloads' * Reload + round'
    BY <1>1, <1>3, <2>1
  <2>4. phase' = began' + at'
    BY <1>1, <1>3, <1>11
  <2> QED
    BY <1>1, <2>2, <2>3, <2>4 DEF PointsSoFar
<1>13. AnglesSoFar'
  <2>1. 0 * Reload + 0 * W' = 0
    BY <1>10
  <2>2. /\ reloads' <= WholeBlocks' /\ round' <= Reload \div W' /\ round' = 0
    BY <1>1, <1>2, <1>3, <1>4, <1>7
  <2>3. at' = reloads' * Reload + round' * W'
    BY <1>1, <1>3, <2>1
  <2>4. angle' = began' + reloads' * Reload
    BY <1>1, <1>3, <1>10, <1>11
  <2> QED
    BY <1>1, <1>6, <2>2, <2>3, <2>4 DEF AnglesSoFar
<1>14. VectorsSoFar'
  <2>1. at' = 0 * W' /\ reloads' * Reload = 0 /\ 0 \in Nat
    BY <1>1, <1>3, <1>10
  <2>2. \E k \in Nat : at' = k * W'
    BY <2>1, Zenon
  <2>3. reloads' * Reload <= at' /\ at' <= BlockStop'
    BY <1>1, <1>3, <1>8, <2>1
  <2>4. vl' = 0 /\ at' = 0 /\ phases'[0] = began' /\ 0 \in DOMAIN phases'
    BY <1>1, <1>3, <1>9
  <2> QED
    BY <1>6, <2>2, <2>3, <2>4 DEF VectorsSoFar
<1>15. Idle' /\ TurnedInStep' /\ PhaseGoesOn'
  BY <1>1, <1>3 DEF Idle, TurnedInStep, PhaseGoesOn
<1> QED
  BY <1>5, <1>12, <1>13, <1>14, <1>15 DEF RotInv

(* The steps by points.                                                    *)
LEMMA OnePoint ==
  ASSUME RotTypes, \A q \in 0 .. at - 1 : turned[q] = began + q, phase = began + at, PointTurned
  PROVE  /\ \A q \in 0 .. at' - 1 : turned'[q] = began + q
         /\ at' = at + 1 /\ at' \in Nat /\ round' = round + 1 /\ round' \in Nat
         /\ phase' = phase + 1 /\ phase' \in Int
<1> DEFINE p == [k \in {0} |-> phase]
<1>1. \A q \in 0 .. 1 - 1 : p[q] = began + at + q
  BY DEF RotTypes
<1>2. Turn(1, p) /\ phase' = phase + 1
  BY DEF PointTurned
<1>3. /\ \A q \in 0 .. at' - 1 : turned'[q] = began + q
      /\ at' = at + 1 /\ at' \in Nat /\ round' = round + 1 /\ round' \in Nat
  <2> HIDE DEF p
  <2>1. 1 \in Nat
    OBVIOUS
  <2> QED
    BY <1>1, <1>2, <2>1, TurnKeepsStep
<1> QED
  BY <1>2, <1>3 DEF RotTypes

LEMMA PointInv ==
  ASSUME RotInv, Point
  PROVE  RotInv'
<1>1. /\ RotTypes /\ PointsSoFar /\ \A q \in 0 .. at - 1 : turned[q] = began + q
  BY DEF RotInv, TurnedInStep
<1>2. /\ Kind("point") /\ PointTurned
      /\ \/ stage = "blocks" /\ reloads < WholeBlocks /\ round < Reload
         \/ stage = "rest" /\ round < num_points % Reload
      /\ UNCHANGED <<stage, rotator, num_points, reloads, phases, vl, angle, began>>
  BY DEF Point, WholeBlocks
<1>3. /\ WholeBlocks \in Nat /\ Reload \in Nat /\ num_points % Reload \in Nat
  BY <1>1, <1>2, NumbersInv
<1>4. /\ at = reloads * Reload + round /\ phase = began + at
      /\ stage = "blocks" => reloads <= WholeBlocks
      /\ stage = "rest" => reloads = WholeBlocks
  BY <1>1, <1>2 DEF PointsSoFar
<1>5. /\ \A q \in 0 .. at' - 1 : turned'[q] = began + q
      /\ at' = at + 1 /\ at' \in Nat /\ round' = round + 1 /\ round' \in Nat
      /\ phase' = phase + 1 /\ phase' \in Int
  BY <1>1, <1>2, <1>4, OnePoint
<1>6. at \in Int /\ round \in Int /\ reloads \in Int /\ began \in Int /\ phase \in Int /\ num_points \in Nat
  BY <1>1 DEF RotTypes
<1>7. RotTypes'
  BY <1>1, <1>2, <1>5 DEF RotTypes
<1>8. PointsSoFar'
  <2>1. at' = reloads' * Reload + round' /\ phase' = began' + at'
    <3>1. reloads * Reload \in Int
      BY <1>3, <1>6
    <3> QED
      BY <1>2, <1>4, <1>5, <1>6, <3>1
  <2>2. stage = "blocks" => round' <= Reload /\ reloads # WholeBlocks
    BY <1>2, <1>3, <1>5, <1>6
  <2>3. stage = "rest" => round' <= num_points % Reload
    BY <1>2, <1>3, <1>5, <1>6
  <2>4. WholeBlocks' = WholeBlocks
    BY <1>2 DEF WholeBlocks
  <2> QED
    BY <1>2, <1>4, <2>1, <2>2, <2>3, <2>4 DEF PointsSoFar
<1>9. AnglesSoFar' /\ VectorsSoFar'
  BY <1>2 DEF Kind, AnglesSoFar, VectorsSoFar
<1>10. Idle' /\ TurnedInStep' /\ PhaseGoesOn'
  BY <1>2, <1>5 DEF Idle, TurnedInStep, PhaseGoesOn
<1> QED
  BY <1>7, <1>8, <1>9, <1>10 DEF RotInv

LEMMA PointBlockInv ==
  ASSUME RotInv, PointBlock
  PROVE  RotInv'
<1>1. RotTypes /\ PointsSoFar /\ TurnedInStep
  BY DEF RotInv
<1>2. /\ Kind("point") /\ stage = "blocks" /\ reloads < WholeBlocks /\ round = Reload
      /\ reloads' = reloads + 1 /\ round' = 0
      /\ UNCHANGED <<stage, rotator, num_points, at, phases, vl, angle, phase, turned, began>>
  BY DEF PointBlock, WholeBlocks
<1>3. WholeBlocks \in Nat /\ Reload \in Nat
  BY <1>1, <1>2, NumbersInv
<1>4. at = reloads * Reload + round /\ phase = began + at /\ reloads \in Nat
  BY <1>1, <1>2 DEF PointsSoFar, RotTypes
<1>5. RotTypes'
  BY <1>1, <1>2 DEF RotTypes
<1>6. PointsSoFar'
  <2>1. at' = reloads' * Reload + round'
    <3>1. (reloads + 1) * Reload = reloads * Reload + Reload /\ reloads * Reload \in Nat
      BY <1>3, <1>4
    <3>2. reloads' * Reload = reloads * Reload + Reload /\ reloads' * Reload \in Nat
      BY <1>2, <1>3, <3>1
    <3> QED
      BY <1>2, <1>3, <1>4, <3>1, <3>2
  <2>2. reloads' <= WholeBlocks /\ WholeBlocks' = WholeBlocks /\ 0 <= Reload
    BY <1>2, <1>3, <1>4 DEF WholeBlocks
  <2> QED
    BY <1>2, <1>4, <2>1, <2>2 DEF PointsSoFar
<1>7. AnglesSoFar' /\ VectorsSoFar' /\ Idle'
  BY <1>2 DEF Kind, AnglesSoFar, VectorsSoFar, Idle
<1>8. TurnedInStep' /\ PhaseGoesOn'
  BY <1>1, <1>2 DEF TurnedInStep, PhaseGoesOn
<1> QED
  BY <1>5, <1>6, <1>7, <1>8 DEF RotInv

LEMMA PointEndInv ==
  ASSUME RotInv, PointEnd
  PROVE  RotInv'
<1>1. RotTypes /\ PointsSoFar /\ TurnedInStep
  BY DEF RotInv
<1>2. /\ Kind("point") /\ stage = "rest" /\ round = num_points % Reload /\ stage' = "done"
      /\ UNCHANGED <<rotator, num_points, reloads, round, at, phases, vl, angle, phase, turned, began>>
  BY DEF PointEnd
<1>3. num_points = WholeBlocks * Reload + (num_points % Reload)
  BY <1>1, <1>2, NumbersInv
<1>4. at = num_points /\ phase = began + at
  BY <1>1, <1>2, <1>3 DEF PointsSoFar
<1>5. RotTypes'
  BY <1>1, <1>2 DEF RotTypes
<1>6. PointsSoFar' /\ AnglesSoFar' /\ VectorsSoFar' /\ Idle'
  BY <1>2 DEF Kind, PointsSoFar, AnglesSoFar, VectorsSoFar, Idle
<1>7. TurnedInStep' /\ PhaseGoesOn'
  BY <1>1, <1>2, <1>4 DEF TurnedInStep, PhaseGoesOn, Kind
<1> QED
  BY <1>5, <1>6, <1>7 DEF RotInv

(* The steps by vectors of which the phases are set from an angle.         *)
LEMMA BlocksEndInv ==
  ASSUME RotInv, BlocksEnd
  PROVE  RotInv'
<1>1. RotTypes /\ PointsSoFar /\ AnglesSoFar /\ TurnedInStep
  BY DEF RotInv
<1>2. /\ ~Kind("vector") /\ stage = "blocks" /\ reloads = WholeBlocks /\ stage' = "rest" /\ round' = 0
      /\ UNCHANGED <<rotator, num_points, reloads, at, phases, vl, angle, phase, turned, began>>
  BY DEF BlocksEnd, WholeBlocks
<1>3. /\ Reload \in Nat /\ W \in Nat
      /\ num_points % Reload \in Nat /\ (num_points % Reload) \div W \in Nat
  BY <1>1, <1>2, NumbersInv
<1>4. RotTypes'
  BY <1>1, <1>2 DEF RotTypes
<1>5. PointsSoFar'
  <2> SUFFICES ASSUME Kind("point") PROVE PointsSoFar'
    BY <1>2 DEF PointsSoFar, Kind
  <2>1. round = 0 /\ at = reloads * Reload + round /\ phase = began + at
    BY <1>1, <1>2 DEF PointsSoFar
  <2>2. WholeBlocks' = WholeBlocks /\ 0 <= num_points % Reload
    BY <1>2, <1>3 DEF WholeBlocks
  <2> QED
    BY <1>2, <2>1, <2>2 DEF PointsSoFar
<1>6. AnglesSoFar'
  <2> SUFFICES ASSUME Kind("angle") PROVE AnglesSoFar'
    BY <1>2 DEF AnglesSoFar, Kind
  <2>1. /\ round = 0 /\ at = reloads * Reload + round * W /\ angle = began + reloads * Reload
        /\ LanesSet
    BY <1>1, <1>2 DEF AnglesSoFar
  <2>2. WholeBlocks' = WholeBlocks /\ W' = W /\ LanesSet' /\ 0 <= (num_points % Reload) \div W
    BY <1>2, <1>3, <2>1 DEF WholeBlocks, W, LanesSet, LaneNumbers
  <2>3. reloads * Reload \in Int /\ 0 * W = 0 /\ reloads * Reload + 0 = reloads * Reload
    BY <1>1, <1>3, ZeroAdded DEF RotTypes
  <2>4. at = reloads * Reload + 0 * W /\ angle = began + at
    BY <2>1, <2>3
  <2> QED
    BY <1>2, <2>1, <2>2, <2>4 DEF AnglesSoFar
<1>7. VectorsSoFar' /\ Idle'
  BY <1>2 DEF Kind, VectorsSoFar, Idle
<1>8. TurnedInStep' /\ PhaseGoesOn'
  BY <1>1, <1>2 DEF TurnedInStep, PhaseGoesOn
<1> QED
  BY <1>4, <1>5, <1>6, <1>7, <1>8 DEF RotInv

(* A vector takes its lanes on.                                            *)
LEMMA OneVector ==
  ASSUME RotTypes, stage # "idle", \A q \in 0 .. at - 1 : turned[q] = began + q, LanesSet,
         VectorTurned, rotator' = rotator, began' = began
  PROVE  /\ \A q \in 0 .. at' - 1 : turned'[q] = began + q
         /\ at' = at + W /\ at' \in Nat /\ round' = round + 1 /\ round' \in Nat
         /\ LanesSet'
<1>1. W \in Nat /\ W > 0
  BY NumbersInv
<1>2. \A q \in 0 .. W - 1 : q \in DOMAIN phases /\ phases[q] = began + at + q
  BY DEF LanesSet, LaneNumbers
<1>3. Turn(W, phases) /\ phases' = [k \in 0 .. W - 1 |-> phases[k] + W]
  BY DEF VectorTurned, LaneNumbers
<1>4. /\ \A q \in 0 .. at' - 1 : turned'[q] = began + q
      /\ at' = at + W /\ at' \in Nat /\ round' = round + 1 /\ round' \in Nat
  BY <1>1, <1>2, <1>3, TurnKeepsStep
<1>5. ASSUME NEW k \in 0 .. W - 1 PROVE k \in DOMAIN phases' /\ phases'[k] = began' + at' + k
  <2>1. k \in DOMAIN phases' /\ phases'[k] = phases[k] + W
    BY <1>3
  <2>2. phases[k] = began + at + k
    BY <1>2
  <2>3. k \in Int /\ began \in Int /\ at \in Int
    BY <1>1 DEF RotTypes
  <2> QED
    BY <1>1, <1>4, <2>1, <2>2, <2>3
<1>6. W' = W
  BY DEF W
<1>7. LanesSet'
  BY <1>5, <1>6 DEF LanesSet, LaneNumbers
<1> QED
  BY <1>4, <1>7

LEMMA InBlockInv ==
  ASSUME RotInv, InBlock
  PROVE  RotInv'
<1>1. RotTypes /\ AnglesSoFar /\ \A q \in 0 .. at - 1 : turned[q] = began + q
  BY DEF RotInv, TurnedInStep
<1>2. /\ Kind("angle") /\ stage = "blocks" /\ reloads < WholeBlocks /\ round < Reload \div W
      /\ VectorTurned
      /\ UNCHANGED <<stage, rotator, num_points, reloads, vl, angle, phase, began>>
  BY DEF InBlock, WholeBlocks
<1>3. WholeBlocks \in Nat /\ Reload \in Nat /\ W \in Nat /\ Reload \div W \in Nat
  BY <1>1, <1>2, NumbersInv
<1>4. /\ at = reloads * Reload + round * W /\ angle = began + reloads * Reload /\ LanesSet
      /\ reloads <= WholeBlocks
  BY <1>1, <1>2 DEF AnglesSoFar
<1>5. /\ \A q \in 0 .. at' - 1 : turned'[q] = began + q
      /\ at' = at + W /\ at' \in Nat /\ round' = round + 1 /\ round' \in Nat
      /\ LanesSet'
  BY <1>1, <1>2, <1>4, OneVector
<1>6. round \in Nat /\ reloads \in Nat /\ began \in Int
  BY <1>1 DEF RotTypes
<1>7. RotTypes'
  BY <1>1, <1>2, <1>5 DEF RotTypes
<1>8. AnglesSoFar'
  <2>1. (round + 1) * W = round * W + W /\ round * W \in Int /\ reloads * Reload \in Int
    BY <1>3, <1>6
  <2>2. at' = reloads * Reload + (round + 1) * W
    BY <1>3, <1>4, <1>5, <2>1
  <2>3. round' <= Reload \div W /\ reloads # WholeBlocks
    BY <1>2, <1>3, <1>5, <1>6
  <2>4. WholeBlocks' = WholeBlocks /\ W' = W
    BY <1>2 DEF WholeBlocks, W
  <2> QED
    BY <1>2, <1>4, <1>5, <2>2, <2>3, <2>4 DEF AnglesSoFar
<1>9. PointsSoFar' /\ VectorsSoFar'
  BY <1>2 DEF Kind, PointsSoFar, VectorsSoFar
<1>10. Idle' /\ TurnedInStep' /\ PhaseGoesOn'
  BY <1>2, <1>5 DEF Idle, TurnedInStep, PhaseGoesOn
<1> QED
  BY <1>7, <1>8, <1>9, <1>10 DEF RotInv

LEMMA ResyncInv ==
  ASSUME RotInv, Resync
  PROVE  RotInv'
<1>1. RotTypes /\ AnglesSoFar /\ TurnedInStep
  BY DEF RotInv
<1>2. /\ Kind("angle") /\ stage = "blocks" /\ reloads < WholeBlocks /\ round = Reload \div W
      /\ reloads' = reloads + 1 /\ round' = 0 /\ angle' = angle + Reload /\ rotator' = rotator
      /\ phases' = [k \in 0 .. W - 1 |-> angle' + k]
      /\ UNCHANGED <<stage, num_points, at, vl, phase, turned, began>>
  BY DEF Resync, WholeBlocks, LanesFrom, W
<1>3. /\ WholeBlocks \in Nat /\ Reload \in Nat /\ W \in Nat /\ Reload \div W \in Nat
      /\ (Reload \div W) * W = Reload
  BY <1>1, <1>2, NumbersInv
<1>4. /\ at = reloads * Reload + round * W /\ angle = began + reloads * Reload
      /\ reloads \in Nat /\ began \in Int /\ at \in Nat /\ angle \in Int
  BY <1>1, <1>2 DEF AnglesSoFar, RotTypes
<1>5. (reloads + 1) * Reload = reloads * Reload + Reload /\ reloads * Reload \in Int
  BY <1>3, <1>4
<1>6. round * W = Reload
  BY <1>2, <1>3
<1>7. at = reloads' * Reload /\ angle' = began + reloads' * Reload /\ angle' = began + at
      /\ angle' \in Int
  <2>1. reloads' * Reload = reloads * Reload + Reload
    BY <1>2, <1>5
  <2>2. at = reloads * Reload + Reload
    BY <1>4, <1>6
  <2>3. angle' = began + reloads * Reload + Reload
    BY <1>2, <1>4
  <2> QED
    BY <1>3, <1>4, <1>5, <2>1, <2>2, <2>3
<1>8. RotTypes'
  <2>1. reloads' \in Nat
    BY <1>2, <1>4
  <2> QED
    BY <1>1, <1>2, <1>7, <2>1 DEF RotTypes
<1>9. AnglesSoFar'
  <2>1. reloads' * Reload \in Int /\ 0 * W = 0
    BY <1>3, <1>4, <1>7
  <2>2. at = reloads' * Reload + 0 * W
    BY <1>7, <2>1
  <2>3. LanesSet'
    BY <1>2, <1>7 DEF LanesSet, LaneNumbers, W
  <2>4. reloads' <= WholeBlocks /\ WholeBlocks' = WholeBlocks /\ W' = W /\ 0 <= Reload \div W
    BY <1>2, <1>3, <1>4 DEF WholeBlocks, W
  <2> QED
    BY <1>2, <1>7, <2>2, <2>3, <2>4 DEF AnglesSoFar
<1>10. PointsSoFar' /\ VectorsSoFar'
  BY <1>2 DEF Kind, PointsSoFar, VectorsSoFar
<1>11. Idle' /\ TurnedInStep' /\ PhaseGoesOn'
  BY <1>1, <1>2 DEF Idle, TurnedInStep, PhaseGoesOn
<1> QED
  BY <1>8, <1>9, <1>10, <1>11 DEF RotInv

LEMMA InRestInv ==
  ASSUME RotInv, InRest
  PROVE  RotInv'
<1>1. RotTypes /\ AnglesSoFar /\ \A q \in 0 .. at - 1 : turned[q] = began + q
  BY DEF RotInv, TurnedInStep
<1>2. /\ Kind("angle") /\ stage = "rest" /\ round < (num_points % Reload) \div W
      /\ VectorTurned /\ angle' = angle + W
      /\ UNCHANGED <<stage, rotator, num_points, reloads, vl, phase, began>>
  BY DEF InRest
<1>3. Reload \in Nat /\ W \in Nat /\ (num_points % Reload) \div W \in Nat
  BY <1>1, <1>2, NumbersInv
<1>4. /\ at = reloads * Reload + round * W /\ angle = began + at /\ LanesSet
      /\ reloads = WholeBlocks
  BY <1>1, <1>2 DEF AnglesSoFar
<1>5. /\ \A q \in 0 .. at' - 1 : turned'[q] = began + q
      /\ at' = at + W /\ at' \in Nat /\ round' = round + 1 /\ round' \in Nat
      /\ LanesSet'
  BY <1>1, <1>2, <1>4, OneVector
<1>6. round \in Nat /\ reloads \in Nat /\ began \in Int /\ at \in Nat
  BY <1>1 DEF RotTypes
<1>7. angle' = began + at' /\ angle' \in Int
  BY <1>2, <1>3, <1>4, <1>5, <1>6
<1>8. RotTypes'
  BY <1>1, <1>2, <1>5, <1>7 DEF RotTypes
<1>9. AnglesSoFar'
  <2>1. (round + 1) * W = round * W + W /\ round * W \in Int /\ reloads * Reload \in Int
    BY <1>3, <1>6
  <2>2. at' = reloads * Reload + (round + 1) * W
    BY <1>3, <1>4, <1>5, <2>1
  <2>3. round' <= (num_points % Reload) \div W
    BY <1>2, <1>3, <1>5, <1>6
  <2>4. WholeBlocks' = WholeBlocks /\ W' = W
    BY <1>2 DEF WholeBlocks, W
  <2> QED
    BY <1>2, <1>4, <1>5, <1>7, <2>2, <2>3, <2>4 DEF AnglesSoFar
<1>10. PointsSoFar' /\ VectorsSoFar'
  BY <1>2 DEF Kind, PointsSoFar, VectorsSoFar
<1>11. Idle' /\ TurnedInStep' /\ PhaseGoesOn'
  BY <1>2, <1>5 DEF Idle, TurnedInStep, PhaseGoesOn
<1> QED
  BY <1>8, <1>9, <1>10, <1>11 DEF RotInv

LEMMA RestEndInv ==
  ASSUME RotInv, RestEnd
  PROVE  RotInv'
<1>1. RotTypes /\ AnglesSoFar /\ TurnedInStep
  BY DEF RotInv
<1>2. /\ Kind("angle") /\ stage = "rest" /\ round = (num_points % Reload) \div W
      /\ stage' = "tail" /\ round' = 0 /\ phase' = angle
      /\ UNCHANGED <<rotator, num_points, reloads, at, phases, vl, angle, turned, began>>
  BY DEF RestEnd
<1>3. /\ WholeBlocks \in Nat /\ Reload \in Nat /\ W \in Nat /\ num_points % W \in Nat
      /\ (num_points % Reload) \div W \in Nat
  BY <1>1, <1>2, NumbersInv
<1>4. at = WholeBlocks * Reload + ((num_points % Reload) \div W) * W /\ angle = began + at
  BY <1>1, <1>2 DEF AnglesSoFar
<1>5. RotTypes'
  BY <1>1, <1>2 DEF RotTypes
<1>6. AnglesSoFar'
  <2>1. at + 0 = at
    BY <1>1, ZeroAdded DEF RotTypes
  <2>2. at = WholeBlocks * Reload + ((num_points % Reload) \div W) * W + 0
    BY <1>4, <2>1
  <2>3. WholeBlocks' = WholeBlocks /\ W' = W /\ 0 <= num_points % W
    BY <1>2, <1>3 DEF WholeBlocks, W
  <2> QED
    BY <1>2, <1>4, <2>2, <2>3 DEF AnglesSoFar
<1>7. PointsSoFar' /\ VectorsSoFar'
  BY <1>2 DEF Kind, PointsSoFar, VectorsSoFar
<1>8. Idle' /\ TurnedInStep' /\ PhaseGoesOn'
  BY <1>1, <1>2 DEF Idle, TurnedInStep, PhaseGoesOn
<1> QED
  BY <1>5, <1>6, <1>7, <1>8 DEF RotInv

LEMMA TailTurnedInv ==
  ASSUME RotInv, TailTurned
  PROVE  RotInv'
<1>1. RotTypes /\ AnglesSoFar /\ \A q \in 0 .. at - 1 : turned[q] = began + q
  BY DEF RotInv, TurnedInStep
<1>2. /\ Kind("angle") /\ stage = "tail" /\ round < num_points % W
      /\ PointTurned /\ angle' = angle + 1
      /\ UNCHANGED <<stage, rotator, num_points, reloads, phases, vl, began>>
  BY DEF TailTurned
<1>3. /\ WholeBlocks \in Nat /\ Reload \in Nat /\ W \in Nat /\ num_points % W \in Nat
      /\ (num_points % Reload) \div W \in Nat
  BY <1>1, <1>2, NumbersInv
<1>4. /\ at = WholeBlocks * Reload + ((num_points % Reload) \div W) * W + round
      /\ angle = began + at /\ phase = angle
  BY <1>1, <1>2 DEF AnglesSoFar
<1>5. /\ \A q \in 0 .. at' - 1 : turned'[q] = began + q
      /\ at' = at + 1 /\ at' \in Nat /\ round' = round + 1 /\ round' \in Nat
      /\ phase' = phase + 1 /\ phase' \in Int
  BY <1>1, <1>2, <1>4, OnePoint
<1>6. round \in Nat /\ began \in Int /\ at \in Nat /\ angle \in Int
  BY <1>1 DEF RotTypes
<1>7. angle' = began + at' /\ angle' \in Int /\ phase' = angle'
  BY <1>2, <1>4, <1>5, <1>6
<1>8. RotTypes'
  BY <1>1, <1>2, <1>5, <1>7 DEF RotTypes
<1>9. AnglesSoFar'
  <2> DEFINE whole == WholeBlocks * Reload + ((num_points % Reload) \div W) * W
  <2>1. whole \in Int
    BY <1>3
  <2>2. at = whole + round
    BY <1>4
  <2> HIDE DEF whole
  <2>3. at' = whole + round'
    BY <1>5, <1>6, <2>1, <2>2
  <2>4. round' <= num_points % W
    BY <1>2, <1>3, <1>5, <1>6
  <2>5. WholeBlocks' = WholeBlocks /\ W' = W
    BY <1>2 DEF WholeBlocks, W
  <2> QED
    BY <1>2, <1>7, <2>3, <2>4, <2>5 DEF AnglesSoFar, whole
<1>10. PointsSoFar' /\ VectorsSoFar'
  BY <1>2 DEF Kind, PointsSoFar, VectorsSoFar
<1>11. Idle' /\ TurnedInStep' /\ PhaseGoesOn'
  BY <1>2, <1>5 DEF Idle, TurnedInStep, PhaseGoesOn
<1> QED
  BY <1>8, <1>9, <1>10, <1>11 DEF RotInv

LEMMA TailEndInv ==
  ASSUME RotInv, TailEnd
  PROVE  RotInv'
<1>1. RotTypes /\ AnglesSoFar /\ TurnedInStep
  BY DEF RotInv
<1>2. /\ Kind("angle") /\ stage = "tail" /\ round = num_points % W /\ stage' = "done"
      /\ UNCHANGED <<rotator, num_points, reloads, round, at, phases, vl, angle, phase, turned, began>>
  BY DEF TailEnd
<1>3. num_points = WholeBlocks * Reload + ((num_points % Reload) \div W) * W + (num_points % W)
  BY <1>1, <1>2, NumbersInv
<1>4. at = num_points /\ phase = began + at
  BY <1>1, <1>2, <1>3 DEF AnglesSoFar
<1>5. RotTypes'
  BY <1>1, <1>2 DEF RotTypes
<1>6. PointsSoFar' /\ AnglesSoFar' /\ VectorsSoFar' /\ Idle'
  BY <1>2 DEF Kind, PointsSoFar, AnglesSoFar, VectorsSoFar, Idle
<1>7. TurnedInStep' /\ PhaseGoesOn'
  BY <1>1, <1>2, <1>4 DEF TurnedInStep, PhaseGoesOn, Kind
<1> QED
  BY <1>5, <1>6, <1>7 DEF RotInv

(* The steps by vectors of varying length.  No block but the last ends in  *)
(* the middle of a vector.                                                 *)
LEMMA WholeVectors ==
  ASSUME RotTypes, stage # "idle", at < BlockStop, NEW k \in Nat, at = k * W
  PROVE  /\ Taken \in Nat /\ 0 < Taken /\ Taken <= W /\ at + Taken <= BlockStop
         /\ BlockStop \in Nat /\ BlockStop <= num_points
         /\ Taken = W \/ at + Taken = num_points
<1> DEFINE c == Reload \div W
           stop == (reloads + 1) * Reload
<1>1. /\ W \in Nat /\ W > 0 /\ Reload \in Nat /\ c \in Nat /\ c * W = Reload
      /\ num_points \in Nat /\ reloads \in Nat /\ at \in Nat
  BY NumbersInv DEF RotTypes
<1> HIDE DEF c
<1>2. stop \in Nat /\ stop = ((reloads + 1) * c) * W /\ (reloads + 1) * c \in Nat
  <2>1. (reloads + 1) * (c * W) = ((reloads + 1) * c) * W /\ (reloads + 1) * c \in Nat
    BY <1>1
  <2>2. (reloads + 1) * Reload \in Nat
    BY <1>1
  <2> QED
    BY <1>1, <2>1, <2>2
<1>3. BlockStop = IF num_points < stop THEN num_points ELSE stop
  BY DEF BlockStop, AtMost
<1> HIDE DEF stop
<1>4. BlockStop \in Nat /\ BlockStop <= num_points
  BY <1>1, <1>2, <1>3
<1>5. Taken = IF BlockStop - at < W THEN BlockStop - at ELSE W
  BY DEF Taken, AtMost
<1>6. Taken \in Nat /\ 0 < Taken /\ Taken <= W /\ at + Taken <= BlockStop
  BY <1>1, <1>4, <1>5
<1>7. ASSUME BlockStop # num_points PROVE Taken = W
  <2>1. BlockStop = stop
    BY <1>3, <1>7
  <2> DEFINE m == (reloads + 1) * c
  <2>2. m \in Nat /\ stop = m * W
    BY <1>2
  <2> HIDE DEF m
  <2>3. k < m
    <3>1. CASE m <= k
      <4>1. m = k \/ m < k
        BY <2>2, <3>1
      <4>2. m < k => m * W + W <= k * W
        BY <1>1, <2>2, ProductsGrow
      <4>3. m * W \in Nat /\ k * W \in Nat
        BY <1>1, <2>2
      <4>4. m * W <= k * W
        BY <1>1, <4>1, <4>2, <4>3
      <4> QED
        BY <1>1, <2>1, <2>2, <4>3, <4>4
    <3> QED
      BY <2>2, <3>1
  <2>4. k * W + W <= m * W /\ k * W \in Nat /\ m * W \in Nat
    BY <1>1, <2>2, <2>3, ProductsGrow
  <2>5. at + W <= BlockStop
    BY <2>1, <2>2, <2>4
  <2> QED
    BY <1>1, <1>4, <1>5, <2>5
<1>8. ASSUME BlockStop = num_points, Taken # W PROVE at + Taken = num_points
  BY <1>1, <1>4, <1>5, <1>8
<1> QED
  BY <1>4, <1>6, <1>7, <1>8

LEMMA InVectorsInv ==
  ASSUME RotInv, InVectors
  PROVE  RotInv'
<1>1. RotTypes /\ VectorsSoFar /\ \A q \in 0 .. at - 1 : turned[q] = began + q
  BY DEF RotInv, TurnedInStep
<1>2. /\ Kind("vector") /\ stage = "blocks" /\ at < BlockStop /\ vl' = Taken
      /\ Turn(Taken, phases)
      /\ phases' = [k \in 0 .. Taken - 1 |-> phases[k] + W]
      /\ UNCHANGED <<stage, rotator, num_points, reloads, angle, phase, began>>
  BY DEF InVectors
<1>3. /\ W \in Nat /\ W > 0 /\ Reload \in Nat /\ num_points \in Nat /\ at \in Nat /\ began \in Int
      /\ reloads \in Nat
  BY <1>1, <1>2, NumbersInv DEF RotTypes
<1>4. at < num_points
  BY <1>2, <1>3 DEF BlockStop, AtMost
<1>5. LanesSet /\ reloads * Reload <= at
  BY <1>1, <1>2, <1>4 DEF VectorsSoFar
<1>6. PICK j \in Nat : at = j * W
  BY <1>1, <1>2, <1>4 DEF VectorsSoFar
<1>7. /\ Taken \in Nat /\ 0 < Taken /\ Taken <= W /\ at + Taken <= BlockStop
      /\ BlockStop \in Nat /\ BlockStop <= num_points
      /\ Taken = W \/ at + Taken = num_points
  BY <1>1, <1>2, <1>6, WholeVectors
<1> DEFINE t == Taken
<1>8. \A q \in 0 .. W - 1 : q \in DOMAIN phases /\ phases[q] = began + at + q
  BY <1>5 DEF LanesSet, LaneNumbers
<1>9. /\ \A q \in 0 .. at' - 1 : turned'[q] = began + q
      /\ at' = at + t /\ at' \in Nat /\ round' = round + 1 /\ round' \in Nat
  <2>1. \A q \in 0 .. t - 1 : phases[q] = began + at + q
    BY <1>3, <1>7, <1>8
  <2>2. Turn(t, phases) /\ t \in Nat
    BY <1>2, <1>7
  <2> HIDE DEF t
  <2> QED
    BY <1>1, <2>1, <2>2, TurnKeepsStep
<1>10. RotTypes'
  BY <1>1, <1>2, <1>7, <1>9 DEF RotTypes
<1>11. VectorsSoFar'
  <2>1. BlockStop' = BlockStop /\ W' = W
    BY <1>2 DEF BlockStop, W
  <2>2. reloads' * Reload <= at' /\ at' <= BlockStop'
    <3>1. reloads * Reload \in Nat
      BY <1>3
    <3> QED
      BY <1>2, <1>3, <1>5, <1>7, <1>9, <2>1, <3>1
  <2>3. \A k \in 0 .. t - 1 : k \in DOMAIN phases' /\ phases'[k] = began + at + k + W
    <3> SUFFICES ASSUME NEW k \in 0 .. t - 1
                 PROVE  k \in DOMAIN phases' /\ phases'[k] = began + at + k + W
      OBVIOUS
    <3>1. k \in DOMAIN phases' /\ phases'[k] = phases[k] + W
      BY <1>2
    <3>2. phases[k] = began + at + k
      BY <1>3, <1>7, <1>8
    <3> QED
      BY <3>1, <3>2
  <2>4. 0 \in DOMAIN phases' /\ phases'[0] = began' + at' + (W' - vl') /\ at' > 0
    <3>1. 0 \in 0 .. t - 1
      BY <1>7
    <3>2. 0 \in DOMAIN phases' /\ phases'[0] = began + at + 0 + W
      BY <2>3, <3>1
    <3> QED
      BY <1>2, <1>3, <1>7, <1>9, <2>1, <3>2
  <2>5. ASSUME at' < num_points'
        PROVE  LanesSet' /\ vl' = W' /\ \E k \in Nat : at' = k * W'
    <3>1. t = W
      BY <1>2, <1>7, <1>9, <2>5
    <3>2. at' = (j + 1) * W /\ j + 1 \in Nat
      BY <1>3, <1>6, <1>9, <3>1
    <3>3. ASSUME NEW k \in 0 .. W - 1 PROVE k \in DOMAIN phases' /\ phases'[k] = began' + at' + k
      <4>1. k \in DOMAIN phases' /\ phases'[k] = began + at + k + W
        BY <2>3, <3>1
      <4> QED
        BY <1>2, <1>3, <1>9, <3>1, <4>1
    <3> QED
      BY <1>2, <2>1, <3>1, <3>2, <3>3 DEF LanesSet, LaneNumbers
  <2>6. vl' # 0
    BY <1>2, <1>7
  <2> QED
    BY <2>2, <2>4, <2>5, <2>6 DEF VectorsSoFar
<1>12. PointsSoFar' /\ AnglesSoFar'
  BY <1>2 DEF Kind, PointsSoFar, AnglesSoFar
<1>13. Idle' /\ TurnedInStep' /\ PhaseGoesOn'
  BY <1>2, <1>9 DEF Idle, TurnedInStep, PhaseGoesOn
<1> QED
  BY <1>10, <1>11, <1>12, <1>13 DEF RotInv

LEMMA VectorBlockInv ==
  ASSUME RotInv, VectorBlock
  PROVE  RotInv'
<1>1. RotTypes /\ VectorsSoFar /\ TurnedInStep
  BY DEF RotInv
<1>2. /\ Kind("vector") /\ stage = "blocks" /\ at = BlockStop /\ at < num_points
      /\ reloads' = reloads + 1 /\ round' = 0
      /\ phases' = [k \in 0 .. vl - 1 |-> phases[k]]
      /\ UNCHANGED <<stage, rotator, num_points, at, vl, angle, phase, turned, began>>
  BY DEF VectorBlock
<1>3. /\ W \in Nat /\ W > 0 /\ Reload \in Nat /\ Reload > 0 /\ num_points \in Nat /\ at \in Nat
      /\ began \in Int /\ reloads \in Nat
  BY <1>1, <1>2, NumbersInv DEF RotTypes
<1>4. /\ LanesSet /\ (vl = W \/ at = 0) /\ \E k \in Nat : at = k * W
      /\ vl > 0 => at > 0 /\ phases[0] = began + at + (W - vl)
  BY <1>1, <1>2 DEF VectorsSoFar
<1>5. (reloads + 1) * Reload = reloads * Reload + Reload /\ reloads * Reload \in Nat
  BY <1>3
<1>6. at = (reloads + 1) * Reload
  BY <1>2, <1>3 DEF BlockStop, AtMost
<1>7. at > 0 /\ vl = W
  BY <1>3, <1>4, <1>5, <1>6
<1>8. RotTypes'
  BY <1>1, <1>2 DEF RotTypes
<1>9. VectorsSoFar'
  <2>1. W' = W /\ LanesSet'
    BY <1>2, <1>4, <1>7 DEF LanesSet, LaneNumbers, W
  <2>2. reloads' * Reload = at
    BY <1>2, <1>6
  <2>3. at' <= BlockStop'
    <3>1. (reloads' + 1) * Reload = reloads' * Reload + Reload
      BY <1>2, <1>3
    <3>2. BlockStop' = AtMost(num_points, (reloads' + 1) * Reload)
      BY <1>2 DEF BlockStop
    <3>3. BlockStop' = AtMost(num_points, at + Reload)
      BY <2>2, <3>1, <3>2
    <3> QED
      BY <1>2, <1>3, <3>3 DEF AtMost
  <2>4. 0 \in DOMAIN phases' /\ phases'[0] = phases[0]
    BY <1>2, <1>3, <1>7
  <2>5. vl' = vl /\ at' = at /\ began' = began /\ reloads' * Reload <= at'
    BY <1>2, <1>3, <2>2
  <2>6. vl # 0 /\ phases'[0] = began + at + (W - vl)
    BY <1>3, <1>4, <1>7, <2>4
  <2> QED
    BY <1>4, <1>7, <2>1, <2>3, <2>4, <2>5, <2>6 DEF VectorsSoFar
<1>10. PointsSoFar' /\ AnglesSoFar' /\ Idle'
  BY <1>2 DEF Kind, PointsSoFar, AnglesSoFar, Idle
<1>11. TurnedInStep' /\ PhaseGoesOn'
  BY <1>1, <1>2 DEF TurnedInStep, PhaseGoesOn
<1> QED
  BY <1>8, <1>9, <1>10, <1>11 DEF RotInv

LEMMA VectorsEndInv ==
  ASSUME RotInv, VectorsEnd
  PROVE  RotInv'
<1>1. RotTypes /\ VectorsSoFar /\ TurnedInStep
  BY DEF RotInv
<1>2. /\ Kind("vector") /\ stage = "blocks" /\ at = num_points
      /\ stage' = "done" /\ phase' = phases[0] - (W - vl)
      /\ UNCHANGED <<rotator, num_points, reloads, round, at, phases, vl, angle, turned, began>>
  BY DEF VectorsEnd
<1>3. W \in Nat /\ W > 0 /\ num_points \in Nat /\ vl \in Nat /\ began \in Int
  BY <1>1, <1>2, NumbersInv DEF RotTypes
<1>4. /\ vl = 0 => at = 0 /\ phases[0] = began
      /\ vl > 0 => at > 0 /\ phases[0] = began + at + (W - vl)
  BY <1>1, <1>2 DEF VectorsSoFar
<1>5. phase' = began + (IF num_points = 0 THEN -W ELSE num_points)
  <2>1. CASE vl = 0
    BY <1>2, <1>3, <1>4, <2>1
  <2>2. CASE vl > 0
    BY <1>2, <1>3, <1>4, <2>2
  <2> QED
    BY <1>3, <2>1, <2>2
<1>6. RotTypes'
  <2>1. phase' \in Int
    BY <1>3, <1>5
  <2> QED
    BY <1>1, <1>2, <2>1 DEF RotTypes
<1>7. PointsSoFar' /\ AnglesSoFar' /\ VectorsSoFar' /\ Idle'
  BY <1>2 DEF Kind, PointsSoFar, AnglesSoFar, VectorsSoFar, Idle
<1>8. TurnedInStep'
  BY <1>1, <1>2 DEF TurnedInStep
<1>9. PhaseGoesOn'
  BY <1>2, <1>5 DEF PhaseGoesOn, Kind, W
<1> QED
  BY <1>6, <1>7, <1>8, <1>9 DEF RotInv

LEMMA LeaveInv ==
  ASSUME RotInv, Leave
  PROVE  RotInv'
BY DEF RotInv, Leave, RotTypes, Idle, PointsSoFar, AnglesSoFar, VectorsSoFar, TurnedInStep, PhaseGoesOn

LEMMA RotNextInv ==
  ASSUME RotInv, [RotNext]_rotVars
  PROVE  RotInv'
<1>1. ASSUME NEW r \in Rotators, NEW m \in Lengths, Call(r, m) PROVE RotInv'
  BY <1>1, CallInv
<1>2. CASE PointStep
  BY <1>2, PointInv, PointBlockInv, PointEndInv DEF PointStep
<1>3. CASE AngleStep
  BY <1>3, InBlockInv, ResyncInv, InRestInv, RestEndInv, TailTurnedInv, TailEndInv DEF AngleStep
<1>4. CASE VectorStep
  BY <1>4, InVectorsInv, VectorBlockInv, VectorsEndInv DEF VectorStep
<1>5. CASE BlocksEnd
  BY <1>5, BlocksEndInv
<1>6. CASE Leave
  BY <1>6, LeaveInv
<1>7. CASE UNCHANGED rotVars
  BY <1>7 DEF rotVars, RotInv, RotTypes, Idle, PointsSoFar, AnglesSoFar, VectorsSoFar, TurnedInStep,
              PhaseGoesOn, Kind, W, WholeBlocks, BlockStop, LanesSet, LaneNumbers
<1> QED
  BY <1>1, <1>2, <1>3, <1>4, <1>5, <1>6, <1>7 DEF RotNext

LEMMA NoLaneIsLost ==
  ASSUME RotInv
  PROVE  NoLaneLost
<1> SUFFICES ASSUME Kind("vector"), stage = "blocks"
             PROVE  /\ 0 \in DOMAIN phases
                    /\ at < BlockStop => 0 .. Taken - 1 \subseteq DOMAIN phases
  BY DEF NoLaneLost
<1>1. RotTypes /\ VectorsSoFar
  BY DEF RotInv
<1>2. 0 \in DOMAIN phases
  BY <1>1 DEF VectorsSoFar
<1>3. ASSUME at < BlockStop PROVE 0 .. Taken - 1 \subseteq DOMAIN phases
  <2>1. W \in Nat /\ num_points \in Nat /\ at \in Nat /\ reloads \in Nat /\ Reload \in Nat
    BY <1>1, NumbersInv DEF RotTypes
  <2>2. at < num_points
    BY <1>3, <2>1 DEF BlockStop, AtMost
  <2>3. LanesSet /\ \E k \in Nat : at = k * W
    BY <1>1, <2>2 DEF VectorsSoFar
  <2>4. Taken \in Nat /\ Taken <= W
    BY <1>1, <1>3, <2>3, WholeVectors
  <2> QED
    BY <2>1, <2>3, <2>4 DEF LanesSet, LaneNumbers
<1> QED
  BY <1>2, <1>3

(***************************************************************************)
(* Calls of any implementations, of any lengths, with vectors of any width *)
(* that divides ROTATOR_RELOAD, one after the other: every point is turned *)
(* by its own phase, the phase left for the next call is that of the next  *)
(* point, and no vector takes a lane that is not defined (rotator2).       *)
(***************************************************************************)
THEOREM RotatorIsRight == RotSpec => []RotatorRight
<1>1. RotInit => RotInv
  BY RotInitInv
<1>2. RotInv /\ [RotNext]_rotVars => RotInv'
  BY RotNextInv
<1>3. RotInv => RotatorRight
  BY NoLaneIsLost DEF RotInv, RotatorRight
<1> QED
  BY <1>1, <1>2, <1>3, PTL DEF RotSpec

-----------------------------------------------------------------------------
(* The differences of neighbours.                                          *)

LEMMA MaxOfTwo ==
  ASSUME NEW a \in Int, NEW b \in Int
  PROVE  /\ Max({a, b}) \in {a, b} /\ Max({a, b}) >= a /\ Max({a, b}) >= b
         /\ Min({a, b}) \in {a, b} /\ Min({a, b}) <= a /\ Min({a, b}) <= b
<1>1. \E x \in {a, b} : \A y \in {a, b} : x >= y
  OBVIOUS
<1>2. \E x \in {a, b} : \A y \in {a, b} : x <= y
  OBVIOUS
<1> QED
  BY <1>1, <1>2 DEF Max, Min

(* The loops of a call take all points, none of them twice.                *)
LEMMA RoundsTakeAll ==
  ASSUME NEW m \in Nat, m > 0, NEW w \in Nat, w > 0
  PROVE  /\ Min({w, m}) \in Nat /\ Min({w, m}) > 0
         /\ w * VectorRounds(m, w) \in Nat /\ LeftOver(m, w) \in Nat
         /\ Min({w, m}) + w * VectorRounds(m, w) + LeftOver(m, w) = m
<1> DEFINE k == (m - 1) \div w
<1>1. k \in Nat /\ k * w <= m - 1 /\ m - 1 < (k + 1) * w
  <2> DEFINE l == m - 1
  <2>1. l \in Nat
    OBVIOUS
  <2> HIDE DEF l
  <2>2. l \div w \in Nat /\ (l \div w) * w <= l /\ l < (l \div w + 1) * w
    BY <2>1
  <2> QED
    BY <2>2 DEF l
<1>2. VectorRounds(m, w) = Max({0, k - 1}) /\ LeftOver(m, w) = Max({0, m - Max({w, w * k})})
  BY DEF VectorRounds, LeftOver
<1> HIDE DEF k
<1>3. Min({w, m}) \in {w, m} /\ Min({w, m}) <= w /\ Min({w, m}) <= m
  <2>1. w \in Int /\ m \in Int
    OBVIOUS
  <2> QED
    BY <2>1, MaxOfTwo, Zenon
<1>4. CASE k = 0
  <2>1. m <= w /\ w * k = 0
    BY <1>1, <1>4
  <2>2. Max({0, k - 1}) = 0
    <3>1. k - 1 \in Int /\ k - 1 < 0 /\ 0 \in Int
      BY <1>1, <1>4
    <3>2. Max({0, k - 1}) \in {0, k - 1} /\ Max({0, k - 1}) >= 0
      BY <3>1, MaxOfTwo, Zenon
    <3> QED
      BY <3>1, <3>2
  <2>3. Max({w, w * k}) = w
    <3>1. Max({w, 0}) \in {w, 0} /\ Max({w, 0}) >= w
      BY MaxOfTwo
    <3> QED
      BY <2>1, <3>1
  <2>4. Max({0, m - w}) = 0
    <3>1. m - w \in Int /\ m - w <= 0
      BY <2>1
    <3>2. Max({0, m - w}) \in {0, m - w} /\ Max({0, m - w}) >= 0
      BY <3>1, MaxOfTwo
    <3> QED
      BY <3>1, <3>2
  <2>5. Min({w, m}) = m
    BY <1>3, <2>1
  <2>6. VectorRounds(m, w) = 0 /\ LeftOver(m, w) = 0
    BY <1>2, <2>2, <2>3, <2>4
  <2>7. w * 0 = 0
    OBVIOUS
  <2> QED
    BY <2>5, <2>6, <2>7
<1>5. CASE k > 0
  <2>1. PICK j \in Nat : k = j + 1
    <3>1. k - 1 \in Nat /\ k = (k - 1) + 1
      BY <1>1, <1>5
    <3> QED
      BY <3>1
  <2>2. w * k = w * j + w /\ w * j \in Nat /\ w * k = k * w
    BY <1>1, <2>1
  <2>3. w * k < m /\ w < m /\ w <= w * k
    BY <1>1, <2>2
  <2>4. Max({0, k - 1}) = j
    <3>1. k - 1 = j
      BY <2>1
    <3>2. 0 \in Int /\ j \in Int
      BY <2>1
    <3>3. Max({0, j}) \in {0, j} /\ Max({0, j}) >= j /\ Max({0, j}) >= 0
      BY <3>2, MaxOfTwo, Zenon
    <3> QED
      BY <3>1, <3>3, <2>1
  <2>5. Max({w, w * k}) = w * k
    <3>1. w * k \in Int
      BY <2>2
    <3>2. Max({w, w * k}) \in {w, w * k} /\ Max({w, w * k}) >= w * k
      BY <3>1, MaxOfTwo
    <3> QED
      BY <2>3, <3>1, <3>2
  <2>6. Max({0, m - w * k}) = m - w * k
    <3>1. m - w * k \in Int /\ m - w * k > 0
      BY <2>2, <2>3
    <3>2. Max({0, m - w * k}) \in {0, m - w * k} /\ Max({0, m - w * k}) >= m - w * k
      BY <3>1, MaxOfTwo
    <3> QED
      BY <3>1, <3>2
  <2>7. Min({w, m}) = w
    BY <1>3, <2>3
  <2>8. VectorRounds(m, w) = j /\ LeftOver(m, w) = m - w * k
    BY <1>2, <2>4, <2>5, <2>6
  <2> QED
    BY <2>1, <2>2, <2>3, <2>7, <2>8
<1> QED
  BY <1>1, <1>4, <1>5

(* A difference of two phases, and what both ways make of it.              *)
Fits(h, d) == h \in -Bound .. Bound /\ (h - d) % (2 * Bound) = 0

LEMMA WrappedFits ==
  ASSUME NEW a \in 1 - Bound .. Bound, NEW b \in 1 - Bound .. Bound
  PROVE  Fits(Wrapped(a - b), a - b) /\ Fits(WrappedByMasks(a - b), a - b)
<1> DEFINE d == a - b
           p == 2 * Bound
<1>1. Bound \in Nat /\ Bound > 0
  BY RunningAssumption
<1>2. d \in Int /\ d < p /\ -p < d /\ p \in Nat /\ p > 0
  BY <1>1
<1>3. 0 % p = 0 /\ p % p = 0 /\ (-p) % p = 0
  <2> HIDE DEF p
  <2> QED BY <1>2
<1>4. ASSUME NEW h \in {d, d - p, d + p}, h \in -Bound .. Bound PROVE Fits(h, d)
  <2>1. h - d \in {0, -p, p}
    BY <1>2, <1>4
  <2> QED
    BY <1>3, <1>4, <2>1 DEF Fits
<1>5. Wrapped(d) \in {d, d - p, d + p} /\ Wrapped(d) \in -Bound .. Bound
  BY <1>1, <1>2 DEF Wrapped
<1>6. WrappedByMasks(d) \in {d, d - p, d + p} /\ WrappedByMasks(d) \in -Bound .. Bound
  BY <1>1, <1>2 DEF WrappedByMasks
<1> QED
  BY <1>4, <1>5, <1>6

LEMMA PhaseOf ==
  ASSUME NEW T, NEW s \in Seq(T), NEW i \in 1 .. Len(s)
  PROVE  s[i] \in T
OBVIOUS

LEMMA PhasesFrom ==
  ASSUME NEW T, NEW s \in Seq(T), NEW a \in Nat, NEW m \in Nat, a + m <= Len(s), Len(s) \in Nat
  PROVE  /\ SubSeq(s, a + 1, a + m) \in Seq(T) /\ Len(SubSeq(s, a + 1, a + m)) = m
         /\ \A j \in 1 .. m : SubSeq(s, a + 1, a + m)[j] = s[a + j]
<1>1. Len(SubSeq(s, a + 1, a + m)) = m
  OBVIOUS
<1>2. \A j \in 1 .. m : SubSeq(s, a + 1, a + m)[j] = s[a + j]
  OBVIOUS
<1>3. SubSeq(s, a + 1, a + m) \in Seq(T)
  <2>1. a + 1 \in Nat /\ a + m \in Nat /\ \A j \in a + 1 .. a + m : j \in 1 .. Len(s)
    OBVIOUS
  <2> QED
    BY <2>1, PhaseOf
<1> QED
  BY <1>1, <1>2, <1>3

LEMMA BothInOrder ==
  ASSUME NEW T, NEW s \in Seq(T), NEW t \in Seq(T)
  PROVE  /\ s \o t \in Seq(T) /\ Len(s \o t) = Len(s) + Len(t)
         /\ \A i \in 1 .. Len(s) : (s \o t)[i] = s[i]
         /\ \A j \in 1 .. Len(t) : (s \o t)[Len(s) + j] = t[j]
OBVIOUS

OneAfterTheOther(out, F, a, G, b, H, c) ==
  /\ out \in Seq(Int) /\ Len(out) = a + b + c
  /\ \A j \in 1 .. a + b + c :
       out[j] = IF j <= a THEN F[j] ELSE IF j <= a + b THEN G[j - a] ELSE H[j - a - b]

LEMMA ThreeLoops ==
  ASSUME NEW a \in Nat, NEW b \in Nat, NEW c \in Nat,
         NEW F \in [1 .. a -> Int], NEW G \in [1 .. b -> Int], NEW H \in [1 .. c -> Int]
  PROVE  OneAfterTheOther(F \o G \o H, F, a, G, b, H, c)
<1>1. F \in Seq(Int) /\ Len(F) = a /\ G \in Seq(Int) /\ Len(G) = b /\ H \in Seq(Int) /\ Len(H) = c
  OBVIOUS
<1>2. F \o G \in Seq(Int) /\ Len(F \o G) = a + b
  BY SMTT(30), <1>1
<1> QED
  BY <1>1, <1>2 DEF OneAfterTheOther

(* The outputs of a call: one for every phase, the first with the phase    *)
(* before the call.                                                        *)
LEMMA CallDetects ==
  ASSUME NEW d \in Detectors, NEW last \in 1 - Bound .. Bound,
         NEW x \in Seq(1 - Bound .. Bound), x # <<>>
  PROVE  /\ Detected(d, x, last) \in Seq(Int) /\ Len(Detected(d, x, last)) = Len(x)
         /\ \A j \in 1 .. Len(x) : Fits(Detected(d, x, last)[j], DifferenceAt(x, last, j))
<1> DEFINE m == Len(x)
           w == d.width
           first == IF d.kind = "point" THEN 1 ELSE Min({w, m})
           vectors == IF d.kind = "point" THEN 0 ELSE w * VectorRounds(m, w)
           rest == IF d.kind = "point" THEN m - 1 ELSE LeftOver(m, w)
           Of(q) == DifferenceAt(x, last, q)
           F == [j \in 1 .. first |-> Wrapped(Of(j))]
           G == [j \in 1 .. vectors |-> WrappedByMasks(Of(first + j))]
           H == [j \in 1 .. rest |-> Wrapped(Of(first + vectors + j))]
<1>1. m \in Nat /\ m > 0 /\ w \in Nat /\ w > 0
  <2>1. w \in Nat \ {0}
    BY RunningAssumption
  <2> QED
    BY <2>1
<1>2. first \in Nat /\ first > 0 /\ vectors \in Nat /\ rest \in Nat /\ first + vectors + rest = m
  <2>1. CASE d.kind = "point"
    BY <1>1, <2>1
  <2>2. CASE d.kind # "point"
    <3>1. /\ first = Min({w, m}) /\ vectors = w * VectorRounds(m, w) /\ rest = LeftOver(m, w)
      BY <2>2
    <3> HIDE DEF m, w, first, vectors, rest
    <3> QED
      BY <1>1, <3>1, RoundsTakeAll
  <2> QED
    BY <2>1, <2>2
<1>3. Detected(d, x, last) = F \o G \o H
  BY DEF Detected
<1> HIDE DEF m, w, first, vectors, rest
<1>4. ASSUME NEW q \in 1 .. m
      PROVE  /\ Fits(Wrapped(Of(q)), Of(q)) /\ Fits(WrappedByMasks(Of(q)), Of(q))
             /\ Wrapped(Of(q)) \in Int /\ WrappedByMasks(Of(q)) \in Int
  <2> DEFINE b == IF q = 1 THEN last ELSE x[q - 1]
  <2>1. x[q] \in 1 - Bound .. Bound
    BY PhaseOf DEF m
  <2>2. b \in 1 - Bound .. Bound
    <3>1. CASE q = 1
      BY <3>1
    <3>2. CASE q # 1
      <4>1. q - 1 \in 1 .. Len(x)
        BY <1>1, <3>2 DEF m
      <4> QED
        BY <3>2, <4>1, PhaseOf
    <3> QED
      BY <3>1, <3>2
  <2>3. Of(q) = x[q] - b
    BY DEF DifferenceAt
  <2> HIDE DEF b
  <2>4. Fits(Wrapped(x[q] - b), x[q] - b) /\ Fits(WrappedByMasks(x[q] - b), x[q] - b)
    BY <2>1, <2>2, WrappedFits
  <2>5. -Bound .. Bound \subseteq Int
    BY RunningAssumption
  <2> QED
    BY <2>3, <2>4, <2>5 DEF Fits
<1> HIDE DEF Of
<1>5. F \in [1 .. first -> Int] /\ G \in [1 .. vectors -> Int] /\ H \in [1 .. rest -> Int]
  <2>1. ASSUME NEW j \in 1 .. first PROVE j \in 1 .. m
    BY <1>1, <1>2
  <2>2. ASSUME NEW j \in 1 .. vectors PROVE first + j \in 1 .. m
    BY <1>1, <1>2
  <2>3. ASSUME NEW j \in 1 .. rest PROVE first + vectors + j \in 1 .. m
    BY <1>1, <1>2
  <2> QED
    BY <1>4, <2>1, <2>2, <2>3
<1>6. OneAfterTheOther(F \o G \o H, F, first, G, vectors, H, rest)
  <2> HIDE DEF F, G, H
  <2>1. first \in Nat /\ vectors \in Nat /\ rest \in Nat
    BY <1>2
  <2> QED
    BY <1>5, <2>1, ThreeLoops, Zenon
<1>7. ASSUME NEW j \in 1 .. m PROVE Fits((F \o G \o H)[j], Of(j))
  <2> DEFINE h == (F \o G \o H)[j]
  <2>1. h = IF j <= first THEN F[j] ELSE IF j <= first + vectors THEN G[j - first]
            ELSE H[j - first - vectors]
    BY <1>2, <1>6 DEF OneAfterTheOther
  <2> HIDE DEF h
  <2>2. CASE j <= first
    <3>1. j \in 1 .. first
      BY <2>2
    <3> QED
      BY <1>4, <2>1, <2>2, <3>1 DEF h
  <2>3. CASE j > first /\ j <= first + vectors
    <3>1. j - first \in 1 .. vectors /\ first + (j - first) = j /\ ~(j <= first)
      BY <1>2, <2>3
    <3>2. G[j - first] = WrappedByMasks(Of(j))
      BY <3>1
    <3> QED
      BY <1>4, <2>1, <2>3, <3>1, <3>2 DEF h
  <2>4. CASE j > first + vectors
    <3>1. /\ j - first - vectors \in 1 .. rest /\ first + vectors + (j - first - vectors) = j
          /\ ~(j <= first) /\ ~(j <= first + vectors)
      BY <1>1, <1>2, <2>4
    <3>2. H[j - first - vectors] = Wrapped(Of(j))
      BY <3>1
    <3> QED
      BY <1>4, <2>1, <2>4, <3>1, <3>2 DEF h
  <2> QED
    BY <1>1, <1>2, <2>2, <2>3, <2>4
<1> HIDE DEF F, G, H
<1> QED
  BY <1>2, <1>3, <1>6, <1>7 DEF m, Of, OneAfterTheOther

(* The outputs so far, and the phase before the next one.                  *)
DetectInv ==
  /\ taken \in 1 .. Len(Signal) /\ saved = Signal[taken]
  /\ heard \in Seq(Int) /\ Len(heard) = taken - 1
  /\ \A q \in 1 .. taken - 1 : Fits(heard[q], Signal[q + 1] - Signal[q])

LEMMA DetectKeepsInv ==
  ASSUME DetectInv, NEW d \in Detectors, NEW m \in Chunks, Detect(d, m)
  PROVE  DetectInv'
<1>1. /\ m \in Nat /\ Signal \in Seq(1 - Bound .. Bound) /\ Len(Signal) \in Nat
  BY RunningAssumption
<1>2. /\ taken \in 1 .. Len(Signal) /\ saved = Signal[taken]
      /\ heard \in Seq(Int) /\ Len(heard) = taken - 1
      /\ \A q \in 1 .. taken - 1 : Fits(heard[q], Signal[q + 1] - Signal[q])
  BY DEF DetectInv
<1>3. taken + m <= Len(Signal) /\ taken' = taken + m
  BY DEF Detect
<1>4. taken \in Nat /\ taken > 0 /\ taken' \in 1 .. Len(Signal)
  BY <1>1, <1>2, <1>3
<1>5. CASE m = 0
  <2>1. saved' = saved /\ heard' = heard /\ taken' = taken
    BY <1>3, <1>4, <1>5 DEF Detect
  <2> QED
    BY <1>2, <2>1 DEF DetectInv
<1>6. CASE m # 0
  <2> DEFINE x == SubSeq(Signal, taken + 1, taken + m)
             out == Detected(d, x, saved)
  <2>1. heard' = heard \o out /\ saved' = x[m]
    BY <1>6 DEF Detect
  <2>2. /\ x \in Seq(1 - Bound .. Bound) /\ Len(x) = m
        /\ \A j \in 1 .. m : x[j] = Signal[taken + j]
    BY <1>1, <1>3, <1>4, PhasesFrom
  <2> HIDE DEF x
  <2>3. x # <<>> /\ saved \in 1 - Bound .. Bound
    <3>1. x # <<>>
      BY <1>1, <1>6, <2>2
    <3>2. saved \in 1 - Bound .. Bound
      BY <1>1, <1>2, PhaseOf
    <3> QED
      BY <3>1, <3>2
  <2>4. /\ out \in Seq(Int) /\ Len(out) = m
        /\ \A j \in 1 .. m : Fits(out[j], DifferenceAt(x, saved, j))
    BY <2>2, <2>3, CallDetects
  <2> HIDE DEF out
  <2>5. saved' = Signal[taken']
    BY <1>1, <1>3, <1>6, <2>1, <2>2
  <2>6. /\ heard' \in Seq(Int) /\ Len(heard') = taken' - 1
        /\ \A i \in 1 .. taken - 1 : heard'[i] = heard[i]
        /\ \A i \in 1 .. m : heard'[taken - 1 + i] = out[i]
    <3>1. /\ heard' \in Seq(Int) /\ Len(heard') = Len(heard) + Len(out)
          /\ \A i \in 1 .. Len(heard) : heard'[i] = heard[i]
          /\ \A i \in 1 .. Len(out) : heard'[Len(heard) + i] = out[i]
      BY <1>2, <2>1, <2>4, BothInOrder
    <3>2. Len(heard) + Len(out) = taken' - 1
      BY <1>1, <1>2, <1>3, <1>4, <2>4
    <3> QED
      BY <1>2, <2>4, <3>1, <3>2
  <2>7. ASSUME NEW q \in 1 .. taken' - 1 PROVE Fits(heard'[q], Signal[q + 1] - Signal[q])
    <3>1. CASE q <= taken - 1
      <4>1. q \in 1 .. taken - 1
        BY <1>4, <3>1
      <4>2. heard'[q] = heard[q]
        BY <2>6, <4>1
      <4> QED
        BY <1>2, <4>1, <4>2
    <3>2. CASE q > taken - 1
      <4> DEFINE j == q - (taken - 1)
      <4>1. j \in 1 .. m /\ q = taken + j - 1 /\ q = taken - 1 + j
        BY <1>1, <1>3, <1>4, <3>2
      <4>2. heard'[q] = out[j]
        BY <2>6, <4>1
      <4>3. DifferenceAt(x, saved, j) = Signal[taken + j] - Signal[taken + j - 1]
        <5> HIDE DEF j
        <5>1. x[j] = Signal[taken + j]
          BY <2>2, <4>1
        <5>2. CASE j = 1
          <6>1. taken + j - 1 = taken
            BY <1>4, <5>2
          <6> QED
            BY <1>2, <5>1, <5>2, <6>1 DEF DifferenceAt
        <5>3. CASE j # 1
          <6>1. j - 1 \in 1 .. m /\ taken + (j - 1) = taken + j - 1
            BY <1>1, <1>4, <4>1, <5>3
          <6>2. x[j - 1] = Signal[taken + j - 1]
            BY <2>2, <6>1
          <6> QED
            BY <5>1, <5>3, <6>2 DEF DifferenceAt
        <5> QED
          BY <5>2, <5>3
      <4>4. taken + j = q + 1 /\ taken + j - 1 = q
        BY <1>4, <4>1
      <4> HIDE DEF j
      <4> QED
        BY <2>4, <4>1, <4>2, <4>3, <4>4
    <3> QED
      BY <1>4, <3>1, <3>2
  <2> QED
    BY <1>4, <2>5, <2>6, <2>7 DEF DetectInv
<1> QED
  BY <1>5, <1>6

(***************************************************************************)
(* For any signal, cut into calls of any lengths, of any of the            *)
(* implementations and any width of their vectors: every point has one     *)
(* output, the difference from the point before it within the bounds       *)
(* (fm_detect).                                                            *)
(***************************************************************************)
THEOREM DetectionIsRight == DetectSpec => []DetectRight
<1>1. DetectInit => DetectInv
  <2> SUFFICES ASSUME DetectInit PROVE DetectInv
    OBVIOUS
  <2>1. saved = Signal[1] /\ taken = 1 /\ heard = <<>>
    BY DEF DetectInit
  <2>2. 1 \in 1 .. Len(Signal)
    BY RunningAssumption
  <2> QED
    BY <2>1, <2>2 DEF DetectInv
<1>2. DetectInv /\ [DetectNext]_detectVars => DetectInv'
  <2>1. ASSUME DetectInv, UNCHANGED detectVars PROVE DetectInv'
    BY <2>1 DEF detectVars, DetectInv
  <2> QED
    BY <2>1, DetectKeepsInv DEF DetectNext
<1>3. DetectInv => DetectRight
  <2> SUFFICES ASSUME DetectInv PROVE DetectRight
    OBVIOUS
  <2>1. Len(heard) = taken - 1 /\ DOMAIN heard = 1 .. taken - 1
    BY DEF DetectInv
  <2> QED
    BY <2>1 DEF DetectInv, DetectRight, Fits
<1> QED
  BY <1>1, <1>2, <1>3, PTL DEF DetectSpec

-----------------------------------------------------------------------------
(* The deviation: whatever points the lanes have, and in however many      *)
(* stages they are joined, each partition is exact for the points it       *)
(* holds, and no point is in two of them.                                  *)

(* The order of the naturals is well-founded.                              *)
LessThan == {ss \in Nat \X Nat : ss[1] < ss[2]}

LEMMA LessThanWellFounded == IsWellFoundedOn(LessThan, Nat)
BY NatLessThanWellFounded, Zenon DEF OpToRel, LessThan

(* A non-empty set of naturals has a first element.                        *)
LEMMA LeastExists ==
  ASSUME NEW S, S \subseteq Nat, S # {}
  PROVE  \E x \in S : \A y \in S : x <= y
<1>1. PICK x \in S : \A y \in S : <<y, x>> \notin LessThan
  BY LessThanWellFounded, WFMin
<1>2. ASSUME NEW y \in S, y < x PROVE FALSE
  BY <1>1, <1>2 DEF LessThan
<1> QED
  BY <1>2

(* What holds of 0 and of the successor of each number holds up to any.    *)
LEMMA CountedUp ==
  ASSUME NEW K \in Nat, NEW G, 0 \in G, \A k \in 0 .. K - 1 : k \in G => k + 1 \in G
  PROVE  \A k \in 0 .. K : k \in G
<1> DEFINE rest == {k \in 0 .. K : k \notin G}
<1>1. SUFFICES ASSUME rest # {} PROVE FALSE
  OBVIOUS
<1>2. PICK m \in rest : \A k \in rest : m <= k
  <2>1. rest \subseteq Nat
    OBVIOUS
  <2> HIDE DEF rest
  <2> QED
    BY <2>1, <1>1, LeastExists
<1>3. m \in 0 .. K /\ m # 0
  OBVIOUS
<1>4. m - 1 \in 0 .. K - 1 /\ m - 1 \in 0 .. K /\ ~(m <= m - 1) /\ (m - 1) + 1 = m
  BY <1>3
<1>5. m - 1 \in G
  BY <1>2, <1>4
<1> QED
  BY <1>4, <1>5

-----------------------------------------------------------------------------
(* Sums over the points.                                                   *)
SumRule(f, m, g) ==
  g = [k \in 0 .. m |-> IF k = 0 THEN 0 ELSE g[k - 1] + f[k]]

LEMMA SumExists ==
  ASSUME NEW m \in Nat, NEW f
  PROVE  \E g : SumRule(f, m, g)
<1> DEFINE good == {j \in 0 .. m : \E g : SumRule(f, j, g)}
<1>1. 0 \in good
  <2> DEFINE g == [j \in 0 .. 0 |-> 0]
  <2>1. SumRule(f, 0, g)
    <3>1. \A j \in 0 .. 0 : j = 0
      OBVIOUS
    <3> QED
      BY <3>1 DEF SumRule
  <2> HIDE DEF g
  <2> QED
    BY <2>1
<1>2. ASSUME NEW k \in 0 .. m - 1, k \in good PROVE k + 1 \in good
  <2>1. PICK g : SumRule(f, k, g)
    BY <1>2
  <2> DEFINE h == [j \in 0 .. k + 1 |-> IF j = k + 1 THEN g[k] + f[k + 1] ELSE g[j]]
  <2>2. \A j \in 0 .. k : h[j] = g[j]
    OBVIOUS
  <2>3. ASSUME NEW j \in 0 .. k + 1 PROVE h[j] = IF j = 0 THEN 0 ELSE h[j - 1] + f[j]
    <3>1. CASE j = k + 1
      <4>1. h[j] = g[k] + f[k + 1] /\ h[k] = g[k] /\ j - 1 = k /\ j # 0
        BY <3>1, <2>2
      <4> HIDE DEF h
      <4> QED
        BY <4>1, <3>1
    <3>2. CASE j # k + 1
      <4>1. j \in 0 .. k /\ (j # 0 => j - 1 \in 0 .. k)
        BY <3>2
      <4>2. g[j] = IF j = 0 THEN 0 ELSE g[j - 1] + f[j]
        BY <4>1, <2>1 DEF SumRule
      <4>3. h[j] = g[j] /\ (j # 0 => h[j - 1] = g[j - 1])
        BY <4>1, <2>2
      <4> HIDE DEF h
      <4> QED
        BY <4>2, <4>3
    <3> QED
      BY <3>1, <3>2
  <2>4. h = [j \in 0 .. k + 1 |-> h[j]]
    OBVIOUS
  <2> HIDE DEF h
  <2>5. SumRule(f, k + 1, h)
    BY <2>3, <2>4 DEF SumRule
  <2>6. k + 1 \in 0 .. m
    OBVIOUS
  <2> QED
    BY <2>5, <2>6
<1>3. m \in good
  <2> HIDE DEF good
  <2> QED
    BY <1>1, <1>2, CountedUp
<1> QED
  BY <1>3

LEMMA SumIs ==
  ASSUME NEW m \in Nat, NEW f, \A k \in 1 .. m : f[k] \in Int
  PROVE  \E g : /\ SumUpTo(f, m) = g[m] /\ g[0] = 0
                /\ \A k \in 1 .. m : g[k] = g[k - 1] + f[k]
                /\ \A k \in 0 .. m : g[k] \in Int
<1> DEFINE g == CHOOSE g : SumRule(f, m, g)
<1>1. SumRule(f, m, g)
  BY SumExists
<1>2. SumUpTo(f, m) = g[m]
  BY DEF SumUpTo, SumRule
<1> HIDE DEF g
<1>3. g[0] = 0 /\ \A k \in 1 .. m : g[k] = g[k - 1] + f[k]
  BY <1>1 DEF SumRule
<1> DEFINE good == {k \in 0 .. m : g[k] \in Int}
<1>4. \A k \in 0 .. m : k \in good
  <2>1. 0 \in good /\ \A k \in 0 .. m - 1 : k \in good => k + 1 \in good
    <3>1. 0 \in good
      BY <1>3
    <3>2. ASSUME NEW k \in 0 .. m - 1, k \in good PROVE k + 1 \in good
      <4>1. k + 1 \in 1 .. m /\ (k + 1) - 1 = k /\ k + 1 \in 0 .. m
        OBVIOUS
      <4>2. g[k + 1] = g[k] + f[k + 1]
        BY <4>1, <1>3
      <4> QED
        BY <4>1, <4>2, <3>2
    <3> QED
      BY <3>1, <3>2
  <2> HIDE DEF good
  <2> QED
    BY <2>1, CountedUp
<1> QED
  BY <1>2, <1>3, <1>4

LEMMA SumsAdd ==
  ASSUME NEW m \in Nat, NEW f, NEW g, NEW h,
         \A k \in 1 .. m : f[k] \in Int /\ g[k] \in Int /\ h[k] = f[k] + g[k]
  PROVE  SumUpTo(h, m) = SumUpTo(f, m) + SumUpTo(g, m)
<1>1. PICK a : /\ SumUpTo(f, m) = a[m] /\ a[0] = 0
               /\ \A k \in 1 .. m : a[k] = a[k - 1] + f[k]
               /\ \A k \in 0 .. m : a[k] \in Int
  BY SumIs
<1>2. PICK b : /\ SumUpTo(g, m) = b[m] /\ b[0] = 0
               /\ \A k \in 1 .. m : b[k] = b[k - 1] + g[k]
               /\ \A k \in 0 .. m : b[k] \in Int
  BY SMTT(30), SumIs
<1>3. PICK c : /\ SumUpTo(h, m) = c[m] /\ c[0] = 0
               /\ \A k \in 1 .. m : c[k] = c[k - 1] + h[k]
               /\ \A k \in 0 .. m : c[k] \in Int
  <2>1. \A k \in 1 .. m : h[k] \in Int
    OBVIOUS
  <2> QED
    BY <2>1, SumIs
<1> DEFINE good == {k \in 0 .. m : c[k] = a[k] + b[k]}
<1>4. 0 \in good
  BY <1>1, <1>2, <1>3
<1>5. ASSUME NEW k \in 0 .. m - 1, k \in good PROVE k + 1 \in good
  <2>1. k + 1 \in 1 .. m /\ (k + 1) - 1 = k /\ k + 1 \in 0 .. m /\ k \in 0 .. m
    OBVIOUS
  <2>2. /\ a[k + 1] = a[k] + f[k + 1] /\ b[k + 1] = b[k] + g[k + 1] /\ c[k + 1] = c[k] + h[k + 1]
        /\ a[k] \in Int /\ b[k] \in Int /\ f[k + 1] \in Int /\ g[k + 1] \in Int
        /\ h[k + 1] = f[k + 1] + g[k + 1] /\ c[k] = a[k] + b[k]
    BY <2>1, <1>1, <1>2, <1>3, <1>5
  <2>3. c[k + 1] = a[k + 1] + b[k + 1]
    BY <2>2
  <2> QED
    BY <2>1, <2>3
<1>6. m \in good
  <2> HIDE DEF good
  <2>1. \A k \in 0 .. m - 1 : k \in good => k + 1 \in good
    BY <1>5
  <2>2. \A k \in 0 .. m : k \in good
    BY <1>4, <2>1, CountedUp
  <2> QED
    BY <2>2
<1> QED
  BY <1>1, <1>2, <1>3, <1>6

LEMMA SumOfZeros ==
  ASSUME NEW m \in Nat, NEW f, \A k \in 1 .. m : f[k] = 0
  PROVE  SumUpTo(f, m) = 0
<1>1. SumUpTo(f, m) \in Int
  <2>1. \A k \in 1 .. m : f[k] \in Int
    OBVIOUS
  <2>2. m \in 0 .. m
    OBVIOUS
  <2> QED
    BY <2>1, <2>2, SumIs
<1>2. SumUpTo(f, m) = SumUpTo(f, m) + SumUpTo(f, m)
  <2>1. \A k \in 1 .. m : f[k] \in Int /\ f[k] \in Int /\ f[k] = f[k] + f[k]
    OBVIOUS
  <2> QED
    BY <2>1, SumsAdd
<1> QED
  BY SMTT(30), <1>1, <1>2

LEMMA SameSums ==
  ASSUME NEW m \in Nat, NEW f, NEW g, \A k \in 1 .. m : f[k] \in Int /\ f[k] = g[k]
  PROVE  SumUpTo(f, m) = SumUpTo(g, m) /\ SumUpTo(f, m) \in Int
<1> DEFINE z == [k \in 1 .. m |-> 0]
<1>1. \A k \in 1 .. m : g[k] \in Int /\ z[k] \in Int /\ f[k] = g[k] + z[k] /\ z[k] = 0
  OBVIOUS
<1> HIDE DEF z
<1>2. SumUpTo(f, m) = SumUpTo(g, m) + SumUpTo(z, m) /\ SumUpTo(z, m) = 0
  BY <1>1, SumsAdd, SumOfZeros
<1>3. SumUpTo(g, m) \in Int
  <2>1. m \in 0 .. m
    OBVIOUS
  <2> QED
    BY <1>1, <2>1, SumIs
<1> QED
  BY <1>2, <1>3

(* The sum over some of the points.                                        *)
Only(f, P, m) == [k \in 1 .. m |-> IF k \in P THEN f[k] ELSE 0]
SumOver(f, P, m) == SumUpTo(Only(f, P, m), m)

LEMMA SumOverUnion ==
  ASSUME NEW m \in Nat, NEW f, \A k \in 1 .. m : f[k] \in Int, NEW P, NEW Q, P \cap Q = {}
  PROVE  /\ SumOver(f, P \cup Q, m) = SumOver(f, P, m) + SumOver(f, Q, m)
         /\ SumOver(f, P, m) \in Int
<1>1. \A k \in 1 .. m :
        /\ Only(f, P, m)[k] \in Int /\ Only(f, Q, m)[k] \in Int
        /\ Only(f, P \cup Q, m)[k] = Only(f, P, m)[k] + Only(f, Q, m)[k]
  BY DEF Only
<1>2. SumOver(f, P, m) \in Int
  <2>1. \A k \in 1 .. m : Only(f, P, m)[k] \in Int /\ Only(f, P, m)[k] = Only(f, P, m)[k]
    BY <1>1
  <2> QED
    BY <2>1, SameSums DEF SumOver
<1> QED
  BY <1>1, <1>2, SumsAdd DEF SumOver

LEMMA SumOverAll ==
  ASSUME NEW m \in Nat, NEW f, \A k \in 1 .. m : f[k] \in Int
  PROVE  SumOver(f, 1 .. m, m) = SumUpTo(f, m)
<1>1. \A k \in 1 .. m : Only(f, 1 .. m, m)[k] \in Int /\ Only(f, 1 .. m, m)[k] = f[k]
  BY DEF Only
<1> QED
  BY <1>1, SameSums DEF SumOver

LEMMA SumOverOne ==
  ASSUME NEW m \in Nat, NEW f, \A k \in 1 .. m : f[k] \in Int, NEW q \in 1 .. m
  PROVE  SumOver(f, {q}, m) = f[q]
<1> DEFINE o == Only(f, {q}, m)
<1>1. \A k \in 1 .. m : o[k] = IF k = q THEN f[q] ELSE 0
  BY DEF Only
<1>2. \A k \in 1 .. m : o[k] \in Int
  BY <1>1
<1> HIDE DEF o
<1>3. PICK a : /\ SumUpTo(o, m) = a[m] /\ a[0] = 0
               /\ \A k \in 1 .. m : a[k] = a[k - 1] + o[k]
               /\ \A k \in 0 .. m : a[k] \in Int
  BY <1>2, SumIs
<1> DEFINE good == {k \in 0 .. m : a[k] = IF k < q THEN 0 ELSE f[q]}
<1>4. 0 \in good
  BY <1>3
<1>5. ASSUME NEW k \in 0 .. m - 1, k \in good PROVE k + 1 \in good
  <2>1. k + 1 \in 1 .. m /\ (k + 1) - 1 = k /\ k + 1 \in 0 .. m /\ k \in 0 .. m
    OBVIOUS
  <2>2. /\ a[k + 1] = a[k] + o[k + 1] /\ a[k] = IF k < q THEN 0 ELSE f[q]
        /\ o[k + 1] = IF k + 1 = q THEN f[q] ELSE 0
        /\ f[q] \in Int
    BY <2>1, <1>1, <1>3, <1>5
  <2>3. a[k + 1] = IF k + 1 < q THEN 0 ELSE f[q]
    BY <2>2
  <2> QED
    BY <2>1, <2>3
<1>6. m \in good
  <2> HIDE DEF good
  <2>1. \A k \in 0 .. m - 1 : k \in good => k + 1 \in good
    BY <1>5
  <2>2. \A k \in 0 .. m : k \in good
    BY <1>4, <2>1, CountedUp
  <2> QED
    BY <2>2
<1> QED
  BY <1>3, <1>6 DEF SumOver, o

-----------------------------------------------------------------------------
(* Quotients.                                                              *)
GcdRule(b, g) ==
  g = [d \in 0 .. b |-> [c \in Nat |-> IF d = 0 THEN c ELSE g[c % d][d]]]

LEMMA GcdExists ==
  ASSUME NEW b \in Nat
  PROVE  \E g : GcdRule(b, g)
<1> DEFINE good == {j \in 0 .. b : \E g : GcdRule(j, g)}
<1>1. 0 \in good
  <2> DEFINE g == [d \in 0 .. 0 |-> [c \in Nat |-> c]]
  <2>1. GcdRule(0, g)
    <3>1. \A j \in 0 .. 0 : j = 0
      OBVIOUS
    <3> QED
      BY <3>1 DEF GcdRule
  <2> HIDE DEF g
  <2> QED
    BY <2>1
<1>2. ASSUME NEW k \in 0 .. b - 1, k \in good PROVE k + 1 \in good
  <2>1. PICK g : GcdRule(k, g)
    BY <1>2
  <2> DEFINE Body(h, d) == [c \in Nat |-> IF d = 0 THEN c ELSE h[c % d][d]]
             h == [d \in 0 .. k + 1 |-> IF d = k + 1 THEN Body(g, d) ELSE g[d]]
  <2>2. \A d \in 0 .. k : h[d] = g[d]
    OBVIOUS
  <2>3. ASSUME NEW d \in 0 .. k + 1 PROVE h[d] = Body(h, d)
    <3>1. \A c \in Nat : d # 0 => c % d \in 0 .. k
      OBVIOUS
    <3>2. h[d] = Body(g, d)
      <4>1. CASE d = k + 1
        BY <4>1
      <4>2. CASE d # k + 1
        <5>1. d \in 0 .. k
          BY <4>2
        <5> QED
          BY <5>1, <2>1, <2>2 DEF GcdRule
      <4> QED
        BY <4>1, <4>2
    <3> HIDE DEF h
    <3>3. \A c \in Nat : d # 0 => h[c % d] = g[c % d]
      BY <3>1, <2>2
    <3>4. Body(g, d) = Body(h, d)
      BY <3>3
    <3> QED
      BY <3>2, <3>4
  <2>4. h = [d \in 0 .. k + 1 |-> h[d]]
    OBVIOUS
  <2> HIDE DEF h
  <2>5. GcdRule(k + 1, h)
    BY <2>3, <2>4 DEF GcdRule
  <2>6. k + 1 \in 0 .. b
    OBVIOUS
  <2> QED
    BY <2>5, <2>6
<1>3. b \in good
  <2> HIDE DEF good
  <2>1. \A j \in 0 .. b - 1 : j \in good => j + 1 \in good
    BY <1>2
  <2>2. \A j \in 0 .. b : j \in good
    BY <1>1, <2>1, CountedUp
  <2> QED
    BY <2>2
<1> QED
  BY <1>3

(* r divides both c and d.                                                 *)
Divides(r, c, d) ==
  r \in Nat /\ r > 0 /\ \E x, y \in Nat : c = r * x /\ d = r * y

LEMMA EuclidStep ==
  ASSUME NEW c \in Nat, NEW d \in Nat, d > 0, NEW r, Divides(r, d, c % d)
  PROVE  Divides(r, c, d)
<1>1. PICK x \in Nat, y \in Nat : d = r * x /\ c % d = r * y
  BY DEF Divides
<1>2. r \in Nat /\ r > 0
  BY DEF Divides
<1> DEFINE q == c \div d
<1>3. q \in Nat /\ c = q * d + (c % d)
  OBVIOUS
<1> HIDE DEF q
<1>4. c = q * (r * x) + r * y
  BY <1>1, <1>3
<1>5. q * (r * x) + r * y = r * (q * x + y)
  BY <1>2, <1>3
<1>6. q * x + y \in Nat
  BY <1>3
<1> QED
  BY <1>1, <1>2, <1>4, <1>5, <1>6 DEF Divides

LEMMA GcdDivides ==
  ASSUME NEW b \in Nat, NEW g, GcdRule(b, g), NEW a \in Nat, a > 0 \/ b > 0
  PROVE  Divides(g[b][a], a, b)
<1> DEFINE good == {k \in 0 .. b : \A d \in 0 .. k : \A c \in Nat :
                                     c > 0 \/ d > 0 => Divides(g[d][c], c, d)}
<1>1. \A d \in 0 .. b : \A c \in Nat : g[d][c] = IF d = 0 THEN c ELSE g[c % d][d]
  BY DEF GcdRule
<1>2. 0 \in good
  <2>1. \A c \in Nat : g[0][c] = c
    BY <1>1
  <2>2. ASSUME NEW c \in Nat, c > 0 PROVE Divides(c, c, 0)
    <3>1. c = c * 1 /\ 0 = c * 0
      BY <2>2
    <3> QED
      BY <2>2, <3>1 DEF Divides
  <2>3. \A d \in 0 .. 0 : d = 0
    OBVIOUS
  <2> QED
    BY <2>1, <2>2, <2>3
<1>3. ASSUME NEW k \in 0 .. b - 1, k \in good PROVE k + 1 \in good
  <2>1. k + 1 \in 0 .. b
    OBVIOUS
  <2>2. ASSUME NEW d \in 0 .. k + 1, NEW c \in Nat, c > 0 \/ d > 0 PROVE Divides(g[d][c], c, d)
    <3>1. CASE d \in 0 .. k
      BY <3>1, <2>2, <1>3
    <3>2. CASE d \notin 0 .. k
      <4>1. d = k + 1 /\ d > 0 /\ d \in Nat /\ d \in 0 .. b
        BY <3>2
      <4>2. c % d \in 0 .. k /\ g[d][c] = g[c % d][d]
        BY SMTT(30), <4>1, <1>1
      <4>3. Divides(g[c % d][d], d, c % d)
        BY <4>1, <4>2, <1>3
      <4> QED
        BY <4>1, <4>2, <4>3, EuclidStep
    <3> QED
      BY <3>1, <3>2
  <2> QED
    BY <2>1, <2>2
<1>4. b \in good
  <2> HIDE DEF good
  <2>1. \A k \in 0 .. b - 1 : k \in good => k + 1 \in good
    BY <1>3
  <2>2. \A k \in 0 .. b : k \in good
    BY <1>2, <2>1, CountedUp
  <2> QED
    BY <2>2
<1>5. b \in 0 .. b
  OBVIOUS
<1> QED
  BY <1>4, <1>5

LEMMA QuotFacts ==
  ASSUME NEW a \in Nat, NEW b \in Nat, b > 0
  PROVE  LET q == Quot(a, b)
         IN  q.num \in Nat /\ q.den \in Nat /\ q.den > 0 /\ q.num * b = q.den * a
<1> DEFINE gcd == CHOOSE g : GcdRule(b, g)
           g == gcd[b][a]
<1>1. GcdRule(b, gcd)
  BY GcdExists
<1>2. Quot(a, b) = [num |-> a \div g, den |-> b \div g]
  BY DEF Quot, GcdRule
<1> HIDE DEF gcd
<1>3. Divides(g, a, b)
  BY <1>1, GcdDivides
<1> HIDE DEF g
<1>4. PICK x \in Nat, y \in Nat : a = g * x /\ b = g * y
  BY <1>3 DEF Divides
<1>5. g \in Nat /\ g > 0
  BY <1>3 DEF Divides
<1>6. a \div g = x /\ b \div g = y
  BY <1>4, <1>5
<1>7. y > 0
  BY <1>4, <1>5
<1>8. x * (g * y) = y * (g * x)
  BY <1>5
<1> QED
  BY <1>2, <1>4, <1>6, <1>7, <1>8

(* Products of integers.                                                   *)
LEMMA Cancelled ==
  ASSUME NEW c \in Nat, c > 0, NEW x \in Int, NEW y \in Int, x * c = y * c
  PROVE  x = y
<1>1. CASE x < y
  <2>1. y - x \in Nat /\ y - x > 0 /\ (y - x) * c = y * c - x * c
    BY <1>1
  <2>2. \A k \in Nat : k > 0 => k * c > 0
    OBVIOUS
  <2> QED
    BY <2>1, <2>2
<1>2. CASE x > y
  <2>1. x - y \in Nat /\ x - y > 0 /\ (x - y) * c = x * c - y * c
    BY <1>2
  <2>2. \A k \in Nat : k > 0 => k * c > 0
    OBVIOUS
  <2> QED
    BY <2>1, <2>2
<1> QED
  BY <1>1, <1>2

LEMMA PositiveProduct ==
  ASSUME NEW a \in Nat, a > 0, NEW b \in Nat, b > 0
  PROVE  a * b \in Nat /\ a * b > 0
OBVIOUS

LEMMA SquareIsNat == \A a \in Int : a * a \in Nat
<1> TAKE a \in Int
<1>1. CASE a >= 0
  BY <1>1
<1>2. CASE a < 0
  <2>1. -a \in Nat /\ (-a) * (-a) = a * a
    BY <1>2
  <2> QED
    BY <2>1
<1> QED
  BY <1>1, <1>2

(* The sum of two quotients.                                               *)
IsQuotient(q) == q.num \in Nat /\ q.den \in Nat /\ q.den > 0

LEMMA AddedFacts ==
  ASSUME NEW f, NEW g, IsQuotient(f), IsQuotient(g)
  PROVE  /\ IsQuotient(Added(f, g))
         /\ Added(f, g).num * (f.den * g.den) = Added(f, g).den * (f.num * g.den + g.num * f.den)
<1> DEFINE a == f.num * g.den + g.num * f.den
           b == f.den * g.den
<1>1. a \in Nat /\ b \in Nat /\ b > 0
  BY PositiveProduct DEF IsQuotient
<1>2. Added(f, g) = Quot(a, b)
  BY DEF Added
<1> HIDE DEF a, b
<1>3. LET q == Quot(a, b)
      IN  q.num \in Nat /\ q.den \in Nat /\ q.den > 0 /\ q.num * b = q.den * a
  BY <1>1, QuotFacts
<1> QED
  BY <1>2, <1>3 DEF IsQuotient, a, b

(* p holds n values of the sum s and the sum of squares t.                 *)
Exact(p, k, s, t) ==
  /\ p.sum = s /\ IsQuotient(p.squares)
  /\ k * p.squares.num = p.squares.den * (k * t - s * s)

LEMMA SingleIsExact ==
  ASSUME NEW v \in Int
  PROVE  Exact(Single(v), 1, v, v * v)
<1>1. /\ Quot(0, 1).num \in Nat /\ Quot(0, 1).den \in Nat /\ Quot(0, 1).den > 0
      /\ Quot(0, 1).num * 1 = Quot(0, 1).den * 0
  BY QuotFacts
<1>2. Single(v).sum = v /\ Single(v).squares = Quot(0, 1)
  BY DEF Single, Partition
<1> QED
  BY <1>1, <1>2 DEF Exact, IsQuotient

LEMMA UpdateIdentity ==
  ASSUME NEW k \in Nat, k > 0, NEW s \in Int, NEW t \in Int, NEW v \in Int,
         NEW num \in Nat, NEW den \in Nat, den > 0,
         NEW qnum \in Nat, NEW qden \in Nat, qden > 0,
         NEW hnum \in Nat, NEW hden \in Nat,
         k * num = den * (k * t - s * s),
         qnum * (k * (k + 1)) = qden * ((k * v - s) * (k * v - s)),
         hnum * (den * qden) = hden * (num * qden + qnum * den)
  PROVE  (k + 1) * hnum = hden * ((k + 1) * (t + v * v) - (s + v) * (s + v))
<1> DEFINE c == k * (den * qden)
           r == (k + 1) * (t + v * v) - (s + v) * (s + v)
           A == (k * v - s) * (k * v - s)
           B == k * t - s * s
<1>1. c \in Nat /\ c > 0
  BY PositiveProduct
<1>2. (k + 1) * B + A = k * r
  OBVIOUS
<1>3. A \in Int /\ B \in Int /\ r \in Int
  OBVIOUS
<1> HIDE DEF A, B, r
<1>4. k * num = den * B /\ qnum * (k * (k + 1)) = qden * A
  BY DEF A, B
<1>5. ((k + 1) * hnum) * c = (k * (k + 1)) * (hnum * (den * qden))
  OBVIOUS
<1>6. (k * (k + 1)) * (hnum * (den * qden)) = (k * (k + 1)) * (hden * (num * qden + qnum * den))
  OBVIOUS
<1>7. (k * (k + 1)) * (hden * (num * qden + qnum * den))
        = hden * ((k + 1) * qden * (k * num) + den * (qnum * (k * (k + 1))))
  OBVIOUS
<1>8. hden * ((k + 1) * qden * (k * num) + den * (qnum * (k * (k + 1))))
        = hden * ((k + 1) * qden * (den * B) + den * (qden * A))
  BY <1>4
<1>9. hden * ((k + 1) * qden * (den * B) + den * (qden * A)) = hden * (den * qden) * ((k + 1) * B + A)
  BY <1>3
<1>10. hden * (den * qden) * (k * r) = (hden * r) * c
  BY <1>3
<1>11. ((k + 1) * hnum) * c = (hden * r) * c
  BY <1>2, <1>5, <1>6, <1>7, <1>8, <1>9, <1>10
<1>12. (k + 1) * hnum \in Int /\ hden * r \in Int
  BY <1>3
<1> HIDE DEF c
<1>13. (k + 1) * hnum = hden * r
  BY <1>1, <1>11, <1>12, Cancelled
<1> QED
  BY <1>13 DEF r

LEMMA UpdatedIsExact ==
  ASSUME NEW k \in Nat, k > 0, NEW s \in Int, NEW t \in Int, NEW v \in Int,
         NEW p, Exact(p, k, s, t)
  PROVE  Exact(Updated(p, k, v), k + 1, s + v, t + v * v)
<1> DEFINE apart == k * v - s
           Q == Quot(apart * apart, k * (k + 1))
           h == Added(p.squares, Q)
<1>1. p.sum = s /\ IsQuotient(p.squares) /\ k * p.squares.num = p.squares.den * (k * t - s * s)
  BY DEF Exact
<1>2. Updated(p, k, v).sum = s + v /\ Updated(p, k, v).squares = h
  <2>1. (k + 1) * v - (s + v) = apart
    OBVIOUS
  <2> QED
    BY <1>1, <2>1 DEF Updated, Partition
<1>3. apart \in Int /\ apart * apart \in Nat /\ k * (k + 1) \in Nat /\ k * (k + 1) > 0
  BY SquareIsNat, PositiveProduct
<1>4. IsQuotient(Q) /\ Q.num * (k * (k + 1)) = Q.den * (apart * apart)
  BY <1>3, QuotFacts DEF IsQuotient
<1>5. IsQuotient(h) /\ h.num * (p.squares.den * Q.den) = h.den * (p.squares.num * Q.den + Q.num * p.squares.den)
  BY <1>1, <1>4, AddedFacts
<1> HIDE DEF Q, h
<1>6. (k + 1) * h.num = h.den * ((k + 1) * (t + v * v) - (s + v) * (s + v))
  <2> DEFINE num == p.squares.num
             den == p.squares.den
             qnum == Q.num
             qden == Q.den
             hnum == h.num
             hden == h.den
  <2>1. /\ num \in Nat /\ den \in Nat /\ den > 0 /\ qnum \in Nat /\ qden \in Nat /\ qden > 0
        /\ hnum \in Nat /\ hden \in Nat
    BY <1>1, <1>4, <1>5 DEF IsQuotient
  <2>2. k * num = den * (k * t - s * s)
    BY <1>1
  <2>3. qnum * (k * (k + 1)) = qden * ((k * v - s) * (k * v - s))
    BY <1>4
  <2>4. hnum * (den * qden) = hden * (num * qden + qnum * den)
    BY <1>5
  <2>5. (k + 1) * hnum = hden * ((k + 1) * (t + v * v) - (s + v) * (s + v))
    <3> HIDE DEF num, den, qnum, qden, hnum, hden
    <3> QED
      BY <2>1, <2>2, <2>3, <2>4, UpdateIdentity, SMTT(30)
  <2> QED
    BY <2>5
<1> QED
  BY <1>2, <1>5, <1>6 DEF Exact

LEMMA UniteIdentity ==
  ASSUME NEW k \in Nat, k > 0, NEW s1 \in Int, NEW t1 \in Int, NEW s2 \in Int, NEW t2 \in Int,
         NEW a \in Nat, NEW ad \in Nat, ad > 0, NEW b \in Nat, NEW bd \in Nat, bd > 0,
         NEW e \in Nat, NEW ed \in Nat, ed > 0,
         NEW q \in Nat, NEW qd \in Nat, qd > 0,
         NEW h \in Nat, NEW hd \in Nat,
         k * a = ad * (k * t1 - s1 * s1), k * b = bd * (k * t2 - s2 * s2),
         e * (ad * bd) = ed * (a * bd + b * ad),
         q * (2 * k) = qd * ((s1 - s2) * (s1 - s2)),
         h * (ed * qd) = hd * (e * qd + q * ed)
  PROVE  (2 * k) * h = hd * ((2 * k) * (t1 + t2) - (s1 + s2) * (s1 + s2))
<1> DEFINE B == k * t1 - s1 * s1
           C == k * t2 - s2 * s2
           A == (s1 - s2) * (s1 - s2)
           r == (2 * k) * (t1 + t2) - (s1 + s2) * (s1 + s2)
<1>1. A \in Int /\ B \in Int /\ C \in Int /\ r \in Int
  OBVIOUS
<1>2. 2 * (B + C) + A = r
  OBVIOUS
<1> HIDE DEF A, B, C, r
<1>3. k * a = ad * B /\ k * b = bd * C /\ q * (2 * k) = qd * A
  BY DEF A, B, C
<1>4. k * e = ed * (B + C)
  <2>1. (k * e) * (ad * bd) = k * (ed * (a * bd + b * ad))
    OBVIOUS
  <2>2. k * (ed * (a * bd + b * ad)) = ed * (bd * (k * a) + ad * (k * b))
    OBVIOUS
  <2>3. ed * (bd * (k * a) + ad * (k * b)) = ed * (bd * (ad * B) + ad * (bd * C))
    BY <1>3
  <2>4. ed * (bd * (ad * B) + ad * (bd * C)) = (ed * (B + C)) * (ad * bd)
    BY <1>1
  <2>5. ad * bd \in Nat /\ ad * bd > 0
    BY PositiveProduct
  <2>6. k * e \in Int /\ ed * (B + C) \in Int
    BY <1>1
  <2> QED
    BY <2>1, <2>2, <2>3, <2>4, <2>5, <2>6, Cancelled
<1>5. ((2 * k) * h) * (ed * qd) = (hd * r) * (ed * qd)
  <2>1. ((2 * k) * h) * (ed * qd) = (2 * k) * (hd * (e * qd + q * ed))
    OBVIOUS
  <2>2. (2 * k) * (hd * (e * qd + q * ed)) = hd * (2 * (qd * (k * e)) + ed * (q * (2 * k)))
    OBVIOUS
  <2>3. hd * (2 * (qd * (k * e)) + ed * (q * (2 * k))) = hd * (2 * (qd * (ed * (B + C))) + ed * (qd * A))
    BY <1>3, <1>4
  <2>4. hd * (2 * (qd * (ed * (B + C))) + ed * (qd * A)) = (hd * (2 * (B + C) + A)) * (ed * qd)
    BY <1>1
  <2> QED
    BY <1>2, <2>1, <2>2, <2>3, <2>4
<1>6. ed * qd \in Nat /\ ed * qd > 0
  BY PositiveProduct
<1>7. (2 * k) * h \in Int /\ hd * r \in Int
  BY <1>1
<1>8. (2 * k) * h = hd * r
  BY <1>5, <1>6, <1>7, Cancelled
<1> QED
  BY <1>8 DEF r

LEMMA UnitedIsExact ==
  ASSUME NEW j \in Nat, j > 0, NEW s1 \in Int, NEW t1 \in Int, NEW s2 \in Int, NEW t2 \in Int,
         NEW p1, NEW p2, Exact(p1, j, s1, t1), Exact(p2, j, s2, t2)
  PROVE  Exact(United(p1, p2, j), 2 * j, s1 + s2, t1 + t2)
<1> DEFINE apart == s1 - s2
           f == p1.squares
           g == p2.squares
           Q == Quot(apart * apart, 2 * j)
           e == Added(f, g)
           h == Added(e, Q)
<1>1. /\ p1.sum = s1 /\ IsQuotient(f) /\ j * f.num = f.den * (j * t1 - s1 * s1)
      /\ p2.sum = s2 /\ IsQuotient(g) /\ j * g.num = g.den * (j * t2 - s2 * s2)
  BY DEF Exact
<1>2. United(p1, p2, j).sum = s1 + s2 /\ United(p1, p2, j).squares = h
  BY <1>1 DEF United, Partition
<1>3. apart \in Int /\ apart * apart \in Nat /\ 2 * j \in Nat /\ 2 * j > 0
  BY SquareIsNat
<1>4. IsQuotient(Q) /\ Q.num * (2 * j) = Q.den * (apart * apart)
  BY <1>3, QuotFacts DEF IsQuotient
<1>5. IsQuotient(e) /\ e.num * (f.den * g.den) = e.den * (f.num * g.den + g.num * f.den)
  BY <1>1, AddedFacts
<1> HIDE DEF f, g, Q, e
<1>6. IsQuotient(h) /\ h.num * (e.den * Q.den) = h.den * (e.num * Q.den + Q.num * e.den)
  BY <1>4, <1>5, AddedFacts
<1> HIDE DEF h
<1>7. (2 * j) * h.num = h.den * ((2 * j) * (t1 + t2) - (s1 + s2) * (s1 + s2))
  <2> DEFINE a == f.num
             ad == f.den
             b == g.num
             bd == g.den
             c == e.num
             cd == e.den
             q == Q.num
             qd == Q.den
             k == h.num
             kd == h.den
  <2>1. /\ a \in Nat /\ ad \in Nat /\ ad > 0 /\ b \in Nat /\ bd \in Nat /\ bd > 0
        /\ c \in Nat /\ cd \in Nat /\ cd > 0 /\ q \in Nat /\ qd \in Nat /\ qd > 0
        /\ k \in Nat /\ kd \in Nat
    BY <1>1, <1>4, <1>5, <1>6 DEF IsQuotient
  <2>2. j * a = ad * (j * t1 - s1 * s1) /\ j * b = bd * (j * t2 - s2 * s2)
    BY <1>1
  <2>3. c * (ad * bd) = cd * (a * bd + b * ad)
    BY <1>5
  <2>4. q * (2 * j) = qd * ((s1 - s2) * (s1 - s2))
    BY <1>4
  <2>5. k * (cd * qd) = kd * (c * qd + q * cd)
    BY <1>6
  <2>6. (2 * j) * k = kd * ((2 * j) * (t1 + t2) - (s1 + s2) * (s1 + s2))
    <3> HIDE DEF a, ad, b, bd, c, cd, q, qd, k, kd
    <3> QED
      BY <2>1, <2>2, <2>3, <2>4, <2>5, UniteIdentity, SMTT(30)
  <2> QED
    BY <2>6
<1> QED
  BY <1>2, <1>6, <1>7 DEF Exact

-----------------------------------------------------------------------------
(* The partition p holds n of the points of x, those at the places P.      *)
PointSquares(x) == [q \in 1 .. Len(x) |-> x[q] * x[q]]
Holds(x, p, k, P) ==
  Exact(p, k, SumOver(x, P, Len(x)), SumOver(PointSquares(x), P, Len(x)))

LEMMA PointsAreIntegers ==
  ASSUME NEW x \in Seq(Int)
  PROVE  Len(x) \in Nat /\ \A q \in 1 .. Len(x) : x[q] \in Int
OBVIOUS

LEMMA SquaresAreIntegers ==
  ASSUME NEW x \in Seq(Int)
  PROVE  \A q \in 1 .. Len(x) : PointSquares(x)[q] \in Int /\ PointSquares(x)[q] = x[q] * x[q]
BY PointsAreIntegers DEF PointSquares

LEMMA OneHeld ==
  ASSUME NEW x \in Seq(Int), NEW q \in 1 .. Len(x)
  PROVE  Holds(x, Single(x[q]), 1, {q})
<1>0. Len(x) \in Nat /\ \A i \in 1 .. Len(x) : x[i] \in Int
  BY PointsAreIntegers
<1>1. x[q] \in Int /\ SumOver(x, {q}, Len(x)) = x[q]
  BY <1>0, SumOverOne
<1>2. \A i \in 1 .. Len(x) : PointSquares(x)[i] \in Int
  BY SquaresAreIntegers
<1>3. SumOver(PointSquares(x), {q}, Len(x)) = PointSquares(x)[q]
  BY <1>0, <1>2, SumOverOne
<1>4. SumOver(PointSquares(x), {q}, Len(x)) = x[q] * x[q]
  BY <1>3, SquaresAreIntegers
<1> QED
  BY <1>1, <1>4, SingleIsExact DEF Holds

LEMMA AnotherHeld ==
  ASSUME NEW x \in Seq(Int), NEW k \in Nat, k > 0, NEW p, NEW P, Holds(x, p, k, P),
         NEW q \in 1 .. Len(x), q \notin P
  PROVE  Holds(x, Updated(p, k, x[q]), k + 1, P \cup {q})
<1> DEFINE s == SumOver(x, P, Len(x))
           t == SumOver(PointSquares(x), P, Len(x))
           S == SumOver(x, P \cup {q}, Len(x))
           T == SumOver(PointSquares(x), P \cup {q}, Len(x))
           v == x[q]
<1>1. P \cap {q} = {}
  OBVIOUS
<1>0. Len(x) \in Nat /\ \A i \in 1 .. Len(x) : x[i] \in Int
  BY PointsAreIntegers
<1>2. s \in Int /\ S = s + v /\ v \in Int
  <2>1. s \in Int /\ S = s + SumOver(x, {q}, Len(x))
    BY <1>0, <1>1, SumOverUnion
  <2>2. SumOver(x, {q}, Len(x)) = v
    BY <1>0, SumOverOne
  <2> QED
    BY <1>0, <2>1, <2>2
<1>3. t \in Int /\ T = t + v * v
  <2>0. \A i \in 1 .. Len(x) : PointSquares(x)[i] \in Int
    BY SquaresAreIntegers
  <2>1. t \in Int /\ T = t + SumOver(PointSquares(x), {q}, Len(x))
    BY <1>0, <1>1, <2>0, SumOverUnion
  <2>2. SumOver(PointSquares(x), {q}, Len(x)) = PointSquares(x)[q]
    BY <1>0, <2>0, SumOverOne
  <2>3. PointSquares(x)[q] = v * v
    BY SquaresAreIntegers
  <2> QED
    BY <2>1, <2>2, <2>3
<1>4. Exact(p, k, s, t)
  BY DEF Holds
<1> HIDE DEF s, t, S, T, v
<1>5. Exact(Updated(p, k, v), k + 1, s + v, t + v * v)
  BY <1>2, <1>3, <1>4, UpdatedIsExact
<1>6. Exact(Updated(p, k, v), k + 1, S, T)
  BY <1>2, <1>3, <1>5
<1> QED
  BY <1>6 DEF Holds, S, T, v

LEMMA BothHeld ==
  ASSUME NEW x \in Seq(Int), NEW k \in Nat, k > 0, NEW p1, NEW p2, NEW P, NEW Q,
         Holds(x, p1, k, P), Holds(x, p2, k, Q), P \cap Q = {}
  PROVE  Holds(x, United(p1, p2, k), 2 * k, P \cup Q)
<1> DEFINE s1 == SumOver(x, P, Len(x))
           t1 == SumOver(PointSquares(x), P, Len(x))
           s2 == SumOver(x, Q, Len(x))
           t2 == SumOver(PointSquares(x), Q, Len(x))
           S == SumOver(x, P \cup Q, Len(x))
           T == SumOver(PointSquares(x), P \cup Q, Len(x))
<1>0. /\ Len(x) \in Nat /\ Q \cap P = {} /\ Q \cup P = P \cup Q
      /\ \A i \in 1 .. Len(x) : x[i] \in Int
  BY PointsAreIntegers
<1>1. s1 \in Int /\ s2 \in Int /\ S = s1 + s2
  <2>1. s1 \in Int /\ S = s1 + s2
    BY <1>0, SumOverUnion
  <2>2. s2 \in Int
    BY <1>0, SumOverUnion
  <2> QED
    BY <2>1, <2>2
<1>2. t1 \in Int /\ t2 \in Int /\ T = t1 + t2
  <2>0. \A i \in 1 .. Len(x) : PointSquares(x)[i] \in Int
    BY SquaresAreIntegers
  <2>1. t1 \in Int /\ T = t1 + t2
    BY <1>0, <2>0, SumOverUnion
  <2>2. t2 \in Int
    BY <1>0, <2>0, SumOverUnion
  <2> QED
    BY <2>1, <2>2
<1>3. Exact(p1, k, s1, t1) /\ Exact(p2, k, s2, t2)
  BY DEF Holds
<1> HIDE DEF s1, t1, s2, t2, S, T
<1>4. Exact(United(p1, p2, k), 2 * k, s1 + s2, t1 + t2)
  BY <1>1, <1>2, <1>3, UnitedIsExact
<1>5. Exact(United(p1, p2, k), 2 * k, S, T)
  BY <1>1, <1>2, <1>4
<1> QED
  BY <1>5 DEF Holds, S, T

LEMMA AllHeld ==
  ASSUME NEW x \in Seq(Int), NEW p, Holds(x, p, Len(x), 1 .. Len(x))
  PROVE  Exact(p, Len(x), SumUpTo(x, Len(x)), SumUpTo(PointSquares(x), Len(x)))
<1>1. /\ SumOver(x, 1 .. Len(x), Len(x)) = SumUpTo(x, Len(x))
      /\ SumOver(PointSquares(x), 1 .. Len(x), Len(x)) = SumUpTo(PointSquares(x), Len(x))
  <2>1. Len(x) \in Nat /\ \A i \in 1 .. Len(x) : x[i] \in Int
    BY PointsAreIntegers
  <2>2. \A i \in 1 .. Len(x) : PointSquares(x)[i] \in Int
    BY SquaresAreIntegers
  <2>3. SumOver(x, 1 .. Len(x), Len(x)) = SumUpTo(x, Len(x))
    BY <2>1, SumOverAll
  <2>4. SumOver(PointSquares(x), 1 .. Len(x), Len(x)) = SumUpTo(PointSquares(x), Len(x))
    BY <2>1, <2>2, SumOverAll
  <2> QED
    BY <2>3, <2>4
<1> QED
  BY <1>1 DEF Holds

-----------------------------------------------------------------------------
(* Remainders.                                                             *)
LEMMA IsMultiple ==
  ASSUME NEW b \in Nat, b > 0, NEW a \in Nat
  PROVE  a % b = 0 <=> \E k \in Nat : a = b * k
<1> DEFINE q == a \div b
           r == a % b
<1>1. q \in Nat /\ r \in 0 .. b - 1 /\ a = b * q + r
  OBVIOUS
<1> HIDE DEF q, r
<1>2. ASSUME r = 0 PROVE \E k \in Nat : a = b * k
  BY <1>1, <1>2
<1>3. ASSUME NEW k \in Nat, a = b * k PROVE r = 0
  <2>1. CASE k <= q
    <3>1. b * (q - k) = b * q - b * k
      BY <1>1
    <3>2. b * (q - k) >= 0
      BY <1>1, <2>1
    <3> QED
      BY <1>1, <1>3, <3>1, <3>2
  <2>2. CASE k > q
    <3>1. b * (k - q) = b * k - b * q
      BY <1>1
    <3>2. \A j \in Nat : j >= 1 => b * j >= b
      OBVIOUS
    <3>3. b * (k - q) >= b
      BY <1>1, <2>2, <3>2
    <3> QED
      BY <1>1, <1>3, <3>1, <3>3
  <2> QED
    BY <1>1, <2>1, <2>2
<1> QED
  BY <1>2, <1>3 DEF r

LEMMA SmallRemainder ==
  ASSUME NEW b \in Nat, b > 0, NEW a \in Nat, a < b
  PROVE  a % b = a
OBVIOUS

(* What divides a power of two less than wholly, does so evenly.           *)
LEMMA EvenlyDivided ==
  ASSUME NEW w, IsPowerOfTwo(w), NEW o \in Nat, o > 0, w % o = 0, 2 * o <= w
  PROVE  w % (2 * o) = 0
<1>1. w \in Nat /\ w > 0 /\ \A d \in 2 .. w : w % d = 0 => d % 2 = 0
  BY DEF IsPowerOfTwo
<1>2. PICK k \in Nat : w = o * k
  BY <1>1, IsMultiple
<1>3. k >= 2
  <2>1. k = 0 \/ k = 1 \/ k >= 2
    OBVIOUS
  <2> QED
    BY <1>1, <1>2, <2>1
<1>4. k <= w
  BY <1>2, <1>3
<1>5. w % k = 0
  <2>1. w = k * o
    BY <1>2
  <2> QED
    BY <2>1, <1>1, <1>3, IsMultiple
<1>6. k % 2 = 0
  BY SMTT(30), <1>1, <1>3, <1>4, <1>5
<1>7. PICK j \in Nat : k = 2 * j
  BY <1>6
<1> DEFINE e == 2 * o
<1>8. w = e * j /\ e \in Nat /\ e > 0
  BY <1>2, <1>7
<1> HIDE DEF e
<1>9. w % e = 0
  BY <1>1, <1>8, IsMultiple
<1> QED
  BY <1>9 DEF e

LEMMA HalfOfPower ==
  ASSUME NEW w, IsPowerOfTwo(w), w >= 2
  PROVE  IsPowerOfTwo(w \div 2) /\ w = 2 * (w \div 2)
<1>1. w \in Nat /\ \A d \in 2 .. w : w % d = 0 => d % 2 = 0
  BY DEF IsPowerOfTwo
<1>2. w % w = 0
  <2>1. w = w * 1
    BY <1>1
  <2> QED
    BY <2>1, <1>1, IsMultiple
<1>3. w % 2 = 0
  BY <1>1, <1>2
<1> DEFINE h == w \div 2
<1>4. h \in Nat /\ h > 0 /\ w = 2 * h
  BY <1>1, <1>3
<1> HIDE DEF h
<1>5. ASSUME NEW d \in 2 .. h, h % d = 0 PROVE d % 2 = 0
  <2>1. PICK k \in Nat : h = d * k
    BY <1>4, <1>5, IsMultiple
  <2>2. w = d * (2 * k) /\ 2 * k \in Nat
    BY <1>4, <2>1
  <2>3. w % d = 0
    BY <1>1, <2>2, IsMultiple
  <2>4. d \in 2 .. w
    BY <1>4
  <2> QED
    BY <1>1, <2>3, <2>4
<1> QED
  BY <1>4, <1>5 DEF IsPowerOfTwo, h

(* Every second of the partitions that are left has its neighbour.         *)
LEMMA Neighbours ==
  ASSUME NEW w \in Nat, NEW o \in Nat, o > 0, w % (2 * o) = 0, NEW i \in 1 .. w, (i - 1) % (2 * o) = 0
  PROVE  /\ i + o \in 1 .. w /\ (i - 1) % o = 0 /\ ((i + o) - 1) % o = 0
         /\ ((i + o) - 1) % (2 * o) # 0
<1>1. PICK k \in Nat : i - 1 = (2 * o) * k
  BY IsMultiple
<1>2. PICK j \in Nat : w = (2 * o) * j
  BY IsMultiple
<1>3. k < j
  <2>1. (2 * o) * k < (2 * o) * j
    BY <1>1, <1>2
  <2>2. ASSUME k >= j PROVE FALSE
    <3>1. (2 * o) * (k - j) >= 0
      BY <2>2
    <3>2. (2 * o) * (k - j) = (2 * o) * k - (2 * o) * j
      OBVIOUS
    <3> QED
      BY <2>1, <3>1, <3>2
  <2> QED
    BY <2>2
<1>4. i + o \in 1 .. w
  <2>1. (2 * o) * (j - k) = (2 * o) * j - (2 * o) * k
    OBVIOUS
  <2>2. \A l \in Nat : l >= 1 => (2 * o) * l >= 2 * o
    OBVIOUS
  <2>3. (2 * o) * (j - k) >= 2 * o
    BY <1>3, <2>2
  <2> QED
    BY <1>1, <1>2, <2>1, <2>3
<1>5. (i - 1) % o = 0
  <2>1. i - 1 = o * (2 * k) /\ 2 * k \in Nat
    BY <1>1
  <2> QED
    BY <2>1, IsMultiple
<1>6. ((i + o) - 1) % o = 0
  <2>1. (i + o) - 1 = o * (2 * k + 1) /\ 2 * k + 1 \in Nat /\ (i + o) - 1 \in Nat
    BY <1>1
  <2> QED
    BY <2>1, IsMultiple
<1>7. ((i + o) - 1) % (2 * o) # 0
  <2>1. (i + o) - 1 = (2 * o) * k + o
    BY <1>1
  <2>2. ASSUME NEW l \in Nat, (i + o) - 1 = (2 * o) * l PROVE FALSE
    <3>1. (2 * o) * (l - k) = o
      BY <2>1, <2>2
    <3>2. o * (2 * (l - k)) = o * 1
      BY <3>1
    <3>3. 2 * (l - k) = 1
      <4>1. (2 * (l - k)) * o = 1 * o
        BY <3>2
      <4> QED
        BY <4>1, Cancelled
    <3> QED
      BY <3>3
  <2>3. (i + o) - 1 \in Nat
    OBVIOUS
  <2> QED
    BY <2>2, <2>3, IsMultiple
<1> QED
  BY <1>4, <1>5, <1>6, <1>7

(* The others are such neighbours.                                         *)
LEMMA NeighbourOf ==
  ASSUME NEW o \in Nat, o > 0, NEW i \in Nat, i > 0, (i - 1) % o = 0, (i - 1) % (2 * o) # 0
  PROVE  i > o /\ ((i - o) - 1) % (2 * o) = 0
<1>0. i - 1 \in Nat
  OBVIOUS
<1>1. PICK k \in Nat : i - 1 = o * k
  BY <1>0, IsMultiple
<1>2. k % 2 = 1
  <2>1. ASSUME k % 2 = 0 PROVE FALSE
    <3>1. PICK j \in Nat : k = 2 * j
      BY <2>1
    <3> DEFINE e == 2 * o
    <3>2. i - 1 = e * j /\ e \in Nat /\ e > 0
      BY <1>1, <3>1
    <3>3. (i - 1) % e # 0
      OBVIOUS
    <3> HIDE DEF e
    <3> QED
      BY <1>0, <3>2, <3>3, IsMultiple
  <2> QED
    BY <2>1
<1>3. PICK j \in Nat : k = 2 * j + 1
  BY <1>2
<1>4. i - 1 = (2 * o) * j + o /\ (2 * o) * j >= 0
  BY <1>1, <1>3
<1>5. (i - o) - 1 = (2 * o) * j /\ (i - o) - 1 \in Nat /\ i > o
  BY <1>4
<1> QED
  BY <1>5, IsMultiple

(* If there is no room for twice as much, o is the whole.                  *)
LEMMA WholeDivided ==
  ASSUME NEW w \in Nat, w > 0, NEW o \in Nat, o > 0, w % o = 0, ~(2 * o <= w)
  PROVE  o = w
<1>1. PICK k \in Nat : w = o * k
  BY IsMultiple
<1>2. k = 0 \/ k = 1 \/ k >= 2
  OBVIOUS
<1>3. \A j \in Nat : j >= 2 => o * j >= 2 * o
  OBVIOUS
<1> QED
  BY <1>1, <1>2, <1>3

-----------------------------------------------------------------------------
(* A function of the places 1 .. n is a sequence.                          *)
Places(f) == Len(f) \in Nat /\ f = [l \in 1 .. Len(f) |-> f[l]]

LEMMA PlacesCounted ==
  ASSUME NEW k \in Nat, NEW f, f = [l \in 1 .. k |-> f[l]]
  PROVE  Len(f) = k /\ Places(f)
<1> DEFINE S == {f[l] : l \in 1 .. k}
<1>1. f \in [1 .. k -> S]
  OBVIOUS
<1> HIDE DEF S
<1>2. f \in Seq(S)
  BY <1>1
<1>3. Len(f) = k
  BY <1>1, <1>2
<1> QED
  BY <1>3 DEF Places

(* The partitions that are left, and the points each of them holds: all    *)
(* that are done, none of them twice.                                      *)
Remaining(w, o) == {i \in 1 .. w : (i - 1) % o = 0}
LiveParts == Remaining(Len(partitions), offset)
OwnedBy(own, x, parts, len, live, done) ==
  /\ own \in [live -> SUBSET Nat]
  /\ \A i \in live : Holds(x, parts[i], len, own[i])
  /\ \A i, j \in live : i # j => own[i] \cap own[j] = {}
  /\ \A q \in Nat : q \in 1 .. done <=> \E i \in live : q \in own[i]
Covered ==
  \E own : OwnedBy(own, inputBuffer, partitions, partition_len, LiveParts, points_done)

DevTypes ==
  devPc # "idle" =>
    /\ inputBuffer \in Seq(Int) /\ points_done \in 1 .. Len(inputBuffer)
    /\ partition_len \in Nat \ {0} /\ offset \in Nat \ {0}
    /\ Places(partitions) /\ IsPowerOfTwo(Len(partitions))
DevLanes ==
  devPc = "lanes" => offset = 1 /\ partition_len * Len(partitions) = points_done
DevAccrue ==
  devPc = "accrue" =>
    /\ partition_len * Len(partitions) = points_done * offset
    /\ Len(partitions) % offset = 0 /\ (deviator.kind # "array" => offset = 1)
DevCovered == devPc \in {"lanes", "accrue"} => Covered
DevTail ==
  devPc = "tail" => Holds(inputBuffer, partitions[1], points_done, 1 .. points_done)
DevInv == DevTypes /\ DevLanes /\ DevAccrue /\ DevCovered /\ DevTail

LEMMA MinOfTwo ==
  ASSUME NEW a \in Nat, NEW b \in Nat
  PROVE  Min({a, b}) = IF a < b THEN a ELSE b
<1>1. \E y \in {a, b} : \A q \in {a, b} : y <= q
  OBVIOUS
<1> QED
  BY <1>1 DEF Min

LEMMA SmallPowers == IsPowerOfTwo(1) /\ IsPowerOfTwo(2)
<1>1. \A d \in 2 .. 1 : FALSE
  OBVIOUS
<1>2. \A d \in 2 .. 2 : d % 2 = 0
  OBVIOUS
<1> QED
  BY <1>1, <1>2 DEF IsPowerOfTwo

LEMMA DevInit == NoDeviation => DevInv
BY DEF NoDeviation, DevInv, DevTypes, DevLanes, DevAccrue, DevCovered, DevTail

LEMMA DeviateInv ==
  ASSUME NEW d \in Deviators, NEW x \in Inputs(d), Deviate(d, x)
  PROVE  DevInv'
<1>1. x \in Seq(Int) /\ Len(x) \in Nat /\ Len(x) > 0
  <2>1. x \in Seq(Int) /\ x # <<>>
    BY RunningAssumption DEF Deviate
  <2> QED
    BY <2>1
<1>2. IsPowerOfTwo(d.width) /\ d.width \in Nat
  BY RunningAssumption DEF IsPowerOfTwo
<1> DEFINE done == points_done'
<1>3. done \in 1 .. Len(x) /\ IsPowerOfTwo(done)
  <2>1. CASE Len(x) < d.width
    <3>1. done = Min({2, Len(x)})
      BY <2>1 DEF Deviate, TwoLanes
    <3>2. done = IF 2 < Len(x) THEN 2 ELSE Len(x)
      BY <1>1, <3>1, MinOfTwo
    <3> HIDE DEF done
    <3>3. \A k \in Nat : k > 0 /\ done = (IF 2 < k THEN 2 ELSE k) => (done = 2 /\ 2 <= k) \/ done = 1
      OBVIOUS
    <3>4. (done = 2 /\ 2 <= Len(x)) \/ done = 1
      BY <1>1, <3>2, <3>3
    <3> QED
      BY <1>1, <3>4, SmallPowers
  <2>2. CASE ~(Len(x) < d.width)
    <3>1. done = Min({d.width, Len(x)})
      BY <2>2 DEF Deviate
    <3>2. done = d.width
      BY <1>1, <1>2, <2>2, <3>1, MinOfTwo
    <3> QED
      BY <1>1, <1>2, <2>2, <3>2 DEF IsPowerOfTwo
  <2> QED
    BY <2>1, <2>2
<1>4. /\ inputBuffer' = x /\ partitions' = [l \in 1 .. done |-> Single(x[l])]
      /\ partition_len' = 1 /\ offset' = 1 /\ devPc' = "lanes"
  BY DEF Deviate
<1> HIDE DEF done
<1>5. Len(partitions') = done /\ Places(partitions')
  <2>1. done \in Nat /\ partitions' = [l \in 1 .. done |-> partitions'[l]]
    BY <1>3, <1>4
  <2> QED
    BY <2>1, PlacesCounted
<1>6. DevTypes'
  BY <1>1, <1>3, <1>4, <1>5 DEF DevTypes, done
<1>7. DevLanes' /\ DevAccrue' /\ DevTail'
  <2>1. partition_len' * Len(partitions') = points_done'
    <3>1. partition_len' * Len(partitions') = 1 * done
      BY <1>4, <1>5
    <3>2. done \in Int => 1 * done = done
      OBVIOUS
    <3> QED
      BY <1>3, <3>1, <3>2 DEF done
  <2> QED
    BY <1>4, <2>1 DEF DevLanes, DevAccrue, DevTail
<1>8. LiveParts' = 1 .. done
  <2>1. \A i \in 1 .. done : (i - 1) % 1 = 0
    OBVIOUS
  <2> QED
    BY <1>4, <1>5, <2>1 DEF LiveParts, Remaining
<1> DEFINE own == [i \in 1 .. done |-> {i}]
<1>9. OwnedBy(own, x, partitions', 1, 1 .. done, done)
  <2>1. ASSUME NEW i \in 1 .. done PROVE Holds(x, partitions'[i], 1, own[i])
    <3>1. i \in 1 .. Len(x)
      BY <1>1, <1>3
    <3>2. Holds(x, Single(x[i]), 1, {i})
      BY <1>1, <3>1, OneHeld
    <3> QED
      BY <1>4, <3>2
  <2>2. own \in [1 .. done -> SUBSET Nat] /\ \A i, j \in 1 .. done : i # j => own[i] \cap own[j] = {}
    OBVIOUS
  <2>3. \A q \in Nat : q \in 1 .. done <=> \E i \in 1 .. done : q \in own[i]
    OBVIOUS
  <2> HIDE DEF own
  <2> QED
    BY <2>1, <2>2, <2>3 DEF OwnedBy
<1> HIDE DEF own
<1>10. Covered'
  BY <1>4, <1>8, <1>9 DEF Covered, done
<1> QED
  BY <1>6, <1>7, <1>10 DEF DevInv, DevCovered

(* In the lanes, all partitions are left.                                  *)
LEMMA AllLive ==
  ASSUME DevTypes, offset = 1
  PROVE  LiveParts = 1 .. Len(partitions)
<1>1. \A i \in Nat : i - 1 \in Int /\ (i - 1) % 1 = 0
  OBVIOUS
<1> QED
  BY <1>1 DEF LiveParts, Remaining

LEMMA LaneRoundInv ==
  ASSUME DevInv, LaneRound
  PROVE  DevInv'
<1> DEFINE w == Len(partitions)
           m == Len(inputBuffer)
<1>1. /\ inputBuffer \in Seq(Int) /\ points_done \in 1 .. m /\ m \in Nat
      /\ partition_len \in Nat /\ partition_len > 0 /\ offset = 1
      /\ Places(partitions) /\ IsPowerOfTwo(w) /\ w \in Nat /\ w > 0
      /\ partition_len * w = points_done
  BY DEF DevInv, DevTypes, DevLanes, LaneRound, IsPowerOfTwo
<1>2. /\ devPc' = "lanes" /\ inputBuffer' = inputBuffer /\ offset' = offset
      /\ partition_len' = partition_len + 1 /\ points_done' = points_done + w
      /\ partition_len < m \div w
      /\ partitions' = [l \in 1 .. w |-> Updated(partitions[l], partition_len, inputBuffer[points_done + l])]
  <2>1. DOMAIN partitions = 1 .. w
    BY <1>1 DEF Places
  <2> QED
    BY <2>1 DEF LaneRound
<1>3. PICK own : OwnedBy(own, inputBuffer, partitions, partition_len, LiveParts, points_done)
  BY DEF DevInv, DevCovered, Covered, LaneRound
<1>4. LiveParts = 1 .. w
  BY <1>1, AllLive DEF DevInv
<1> HIDE DEF w, m
<1>5. Len(partitions') = w /\ Places(partitions')
  <2>1. partitions' = [l \in 1 .. w |-> partitions'[l]]
    BY <1>2
  <2> QED
    BY <2>1, <1>1, PlacesCounted
<1>6. points_done + w <= m
  <2>1. w * (m \div w) <= m
    BY <1>1
  <2>2. \A k \in Nat : partition_len < k => (partition_len + 1) * w <= k * w
    BY <1>1
  <2>3. m \div w \in Nat
    BY <1>1
  <2>4. (partition_len + 1) * w = points_done + w
    BY <1>1
  <2> QED
    <3>1. (partition_len + 1) * w <= (m \div w) * w
      BY <1>2, <2>2, <2>3
    <3>2. (m \div w) * w = w * (m \div w)
      BY <1>1, <2>3
    <3> QED
      BY <1>1, <2>1, <2>3, <2>4, <3>1, <3>2
<1>7. DevTypes'
  BY <1>1, <1>2, <1>5, <1>6 DEF DevTypes, m
<1>8. DevLanes' /\ DevAccrue' /\ DevTail'
  BY <1>1, <1>2, <1>5 DEF DevLanes, DevAccrue, DevTail
<1>9. LiveParts' = 1 .. w
  <2>1. \A i \in Nat : i - 1 \in Int /\ (i - 1) % 1 = 0
    OBVIOUS
  <2> QED
    BY <2>1, <1>1, <1>2, <1>5 DEF LiveParts, Remaining
<1> DEFINE next == [i \in 1 .. w |-> own[i] \cup {points_done + i}]
<1>10. OwnedBy(next, inputBuffer, partitions', partition_len + 1, 1 .. w, points_done + w)
  <2>1. ASSUME NEW i \in 1 .. w
        PROVE  Holds(inputBuffer, partitions'[i], partition_len + 1, next[i])
    <3>1. Holds(inputBuffer, partitions[i], partition_len, own[i])
      BY <1>3, <1>4 DEF OwnedBy
    <3>2. /\ points_done + i \in 1 .. m /\ points_done + i \notin 1 .. points_done
          /\ points_done + i \in Nat
      BY <1>1, <1>6
    <3>3. points_done + i \notin own[i]
      BY <1>3, <1>4, <3>2 DEF OwnedBy
    <3>4. Holds(inputBuffer, Updated(partitions[i], partition_len, inputBuffer[points_done + i]),
                partition_len + 1, own[i] \cup {points_done + i})
      BY <1>1, <3>1, <3>2, <3>3, AnotherHeld DEF m
    <3> QED
      BY <1>2, <3>4
  <2>2. ASSUME NEW i \in 1 .. w, NEW j \in 1 .. w, i # j PROVE next[i] \cap next[j] = {}
    <3>1. own[i] \cap own[j] = {}
      BY <1>3, <1>4, <2>2 DEF OwnedBy
    <3>2. \A q \in own[i] \cup own[j] : q \in 1 .. points_done
      BY <1>3, <1>4 DEF OwnedBy
    <3>3. /\ points_done + i \notin 1 .. points_done /\ points_done + j \notin 1 .. points_done
          /\ points_done + i # points_done + j
      BY <1>1, <2>2
    <3> QED
      BY <3>1, <3>2, <3>3
  <2>3. ASSUME NEW q \in Nat
        PROVE  q \in 1 .. points_done + w <=> \E i \in 1 .. w : q \in next[i]
    <3>1. q \in 1 .. points_done <=> \E i \in 1 .. w : q \in own[i]
      BY <1>3, <1>4 DEF OwnedBy
    <3>2. q \in 1 .. points_done + w
            <=> q \in 1 .. points_done \/ q \in points_done + 1 .. points_done + w
      BY <1>1
    <3>3. q \in points_done + 1 .. points_done + w <=> \E i \in 1 .. w : q = points_done + i
      <4>1. q \in points_done + 1 .. points_done + w
              => q - points_done \in 1 .. w /\ q = points_done + (q - points_done)
        BY <1>1
      <4> QED
        BY <1>1, <4>1
    <3> QED
      BY <3>1, <3>2, <3>3
  <2>4. next \in [1 .. w -> SUBSET Nat]
    BY <1>1, <1>3, <1>4 DEF OwnedBy
  <2> HIDE DEF next
  <2> QED
    BY <2>1, <2>2, <2>3, <2>4 DEF OwnedBy
<1> HIDE DEF next
<1>11. Covered'
  BY <1>2, <1>9, <1>10 DEF Covered
<1> QED
  BY <1>7, <1>8, <1>11 DEF DevInv, DevCovered

LEMMA LanesEndInv ==
  ASSUME DevInv, LanesEnd
  PROVE  DevInv'
<1>1. /\ devPc = "lanes" /\ devPc' = "accrue" /\ inputBuffer' = inputBuffer /\ offset' = offset
      /\ partition_len' = partition_len /\ points_done' = points_done /\ partitions' = partitions
      /\ deviator' = deviator
  BY DEF LanesEnd
<1>2. DevTypes' /\ DevLanes' /\ DevTail'
  BY <1>1 DEF DevInv, DevTypes, DevLanes, DevTail
<1>3. Covered'
  BY <1>1 DEF DevInv, DevCovered, Covered, LiveParts, Remaining
<1>4. DevAccrue'
  <2>1. offset = 1 /\ partition_len * Len(partitions) = points_done /\ Len(partitions) \in Nat /\ points_done \in Nat
    BY <1>1 DEF DevInv, DevTypes, DevLanes, Places
  <2>2. Len(partitions) % 1 = 0 /\ points_done * 1 = points_done
    BY <2>1
  <2> QED
    BY <1>1, <2>1, <2>2 DEF DevAccrue
<1> QED
  BY <1>2, <1>3, <1>4 DEF DevInv, DevCovered

(* The neighbours that become one.                                         *)
LEMMA NeighboursOwned ==
  ASSUME NEW x \in Seq(Int), NEW w \in Nat, NEW len \in Nat, len > 0, NEW done, NEW own,
         NEW o \in Nat, o > 0, w % o = 0, w % (2 * o) = 0,
         NEW parts, NEW after, OwnedBy(own, x, parts, len, Remaining(w, o), done),
         \A i \in Remaining(w, 2 * o) : after[i] = United(parts[i], parts[i + o], len)
  PROVE  \E next : OwnedBy(next, x, after, 2 * len, Remaining(w, 2 * o), done)
<1> DEFINE live == Remaining(w, o)
           left == Remaining(w, 2 * o)
<1> DEFINE next == [i \in left |-> own[i] \cup own[i + o]]
<1>1. ASSUME NEW i \in left
      PROVE  i \in live /\ i + o \in live /\ i + o \notin left /\ i # i + o
  <2>1. i \in 1 .. w /\ (i - 1) % (2 * o) = 0
    BY <1>1 DEF Remaining
  <2>2. /\ i + o \in 1 .. w /\ (i - 1) % o = 0 /\ ((i + o) - 1) % o = 0
        /\ ((i + o) - 1) % (2 * o) # 0
    BY <2>1, Neighbours
  <2>3. i # i + o
    BY <2>1
  <2> QED
    BY <2>1, <2>2, <2>3 DEF Remaining
<1>2. ASSUME NEW i \in live, i \notin left
      PROVE  i - o \in left /\ (i - o) + o = i
  <2>1. i \in Nat /\ i > 0 /\ i <= w /\ (i - 1) % o = 0 /\ (i - 1) % (2 * o) # 0
    BY <1>2 DEF Remaining
  <2>2. i > o /\ ((i - o) - 1) % (2 * o) = 0
    BY <2>1, NeighbourOf
  <2> QED
    BY <2>1, <2>2 DEF Remaining
<1>3. \A i, j \in left : i # j => i + o # j + o
  BY DEF Remaining
<1> HIDE DEF live, left
<1>4. ASSUME NEW i \in left PROVE Holds(x, after[i], 2 * len, next[i])
  <2>1. Holds(x, parts[i], len, own[i]) /\ Holds(x, parts[i + o], len, own[i + o])
    BY <1>1 DEF OwnedBy, live
  <2>2. own[i] \cap own[i + o] = {}
    BY <1>1 DEF OwnedBy, live
  <2>3. Holds(x, United(parts[i], parts[i + o], len), 2 * len, own[i] \cup own[i + o])
    BY <2>1, <2>2, BothHeld
  <2> QED
    BY <2>3 DEF left
<1>5. next \in [left -> SUBSET Nat]
  BY <1>1 DEF OwnedBy, live
<1>6. ASSUME NEW i \in left, NEW j \in left, i # j PROVE next[i] \cap next[j] = {}
  <2>1. i + o # j + o /\ i + o # j /\ i # j + o
    BY <1>1, <1>3, <1>6
  <2>2. /\ own[i] \cap own[j] = {} /\ own[i] \cap own[j + o] = {}
        /\ own[i + o] \cap own[j] = {} /\ own[i + o] \cap own[j + o] = {}
    BY <1>1, <1>6, <2>1 DEF OwnedBy, live
  <2> QED
    BY <2>2
<1>7. ASSUME NEW q \in Nat PROVE q \in 1 .. done <=> \E i \in left : q \in next[i]
  <2>1. q \in 1 .. done <=> \E i \in live : q \in own[i]
    BY DEF OwnedBy, live
  <2>2. ASSUME NEW i \in live, q \in own[i] PROVE \E j \in left : q \in next[j]
    <3>1. CASE i \in left
      BY <2>2, <3>1
    <3>2. CASE i \notin left
      <4>1. i - o \in left /\ (i - o) + o = i
        BY <1>2, <3>2
      <4>2. next[i - o] = own[i - o] \cup own[i]
        BY <4>1
      <4> QED
        BY <2>2, <4>1, <4>2
    <3> QED
      BY <3>1, <3>2
  <2>3. ASSUME NEW i \in left, q \in next[i] PROVE \E j \in live : q \in own[j]
    BY <1>1, <2>3
  <2> QED
    BY <2>1, <2>2, <2>3
<1> HIDE DEF next
<1> QED
  BY <1>4, <1>5, <1>6, <1>7 DEF OwnedBy, left

(* The halves that become one.                                             *)
LEMMA HalvesOwned ==
  ASSUME NEW x \in Seq(Int), NEW h \in Nat, NEW len \in Nat, len > 0, NEW done, NEW own,
         NEW parts, NEW after, OwnedBy(own, x, parts, len, 1 .. 2 * h, done),
         \A i \in 1 .. h : after[i] = United(parts[i], parts[i + h], len)
  PROVE  \E next : OwnedBy(next, x, after, 2 * len, 1 .. h, done)
<1> DEFINE next == [i \in 1 .. h |-> own[i] \cup own[i + h]]
<1>1. ASSUME NEW i \in 1 .. h
      PROVE  i \in 1 .. 2 * h /\ i + h \in 1 .. 2 * h /\ i + h \notin 1 .. h /\ i # i + h
  OBVIOUS
<1>2. \A i \in 1 .. 2 * h : i \notin 1 .. h => i - h \in 1 .. h /\ (i - h) + h = i
  OBVIOUS
<1>3. \A i, j \in 1 .. h : i # j => i + h # j + h
  OBVIOUS
<1>4. ASSUME NEW i \in 1 .. h PROVE Holds(x, after[i], 2 * len, next[i])
  <2>1. Holds(x, parts[i], len, own[i]) /\ Holds(x, parts[i + h], len, own[i + h])
    BY <1>1 DEF OwnedBy
  <2>2. own[i] \cap own[i + h] = {}
    BY <1>1 DEF OwnedBy
  <2>3. Holds(x, United(parts[i], parts[i + h], len), 2 * len, own[i] \cup own[i + h])
    BY <2>1, <2>2, BothHeld
  <2> QED
    BY <2>3
<1>5. next \in [1 .. h -> SUBSET Nat]
  BY <1>1 DEF OwnedBy
<1>6. ASSUME NEW i \in 1 .. h, NEW j \in 1 .. h, i # j PROVE next[i] \cap next[j] = {}
  <2>1. i + h # j + h /\ i + h # j /\ i # j + h
    BY <1>1, <1>3, <1>6
  <2>2. /\ own[i] \cap own[j] = {} /\ own[i] \cap own[j + h] = {}
        /\ own[i + h] \cap own[j] = {} /\ own[i + h] \cap own[j + h] = {}
    BY <1>1, <1>6, <2>1 DEF OwnedBy
  <2> QED
    BY <2>2
<1>7. ASSUME NEW q \in Nat PROVE q \in 1 .. done <=> \E i \in 1 .. h : q \in next[i]
  <2>1. q \in 1 .. done <=> \E i \in 1 .. 2 * h : q \in own[i]
    BY DEF OwnedBy
  <2>2. ASSUME NEW i \in 1 .. 2 * h, q \in own[i] PROVE \E j \in 1 .. h : q \in next[j]
    <3>1. CASE i \in 1 .. h
      BY <2>2, <3>1
    <3>2. CASE i \notin 1 .. h
      <4>1. i - h \in 1 .. h /\ (i - h) + h = i
        BY <1>2, <3>2
      <4>2. next[i - h] = own[i - h] \cup own[i]
        BY <4>1
      <4> QED
        BY <2>2, <4>1, <4>2
    <3> QED
      BY <3>1, <3>2
  <2>3. ASSUME NEW i \in 1 .. h, q \in next[i] PROVE \E j \in 1 .. 2 * h : q \in own[j]
    BY <1>1, <2>3
  <2> QED
    BY <2>1, <2>2, <2>3
<1> HIDE DEF next
<1> QED
  BY <1>4, <1>5, <1>6, <1>7 DEF OwnedBy

LEMMA AccrueInv ==
  ASSUME DevInv, Accrue
  PROVE  DevInv'
<1> DEFINE w == Len(partitions)
<1>1. /\ inputBuffer \in Seq(Int) /\ points_done \in 1 .. Len(inputBuffer)
      /\ partition_len \in Nat /\ partition_len > 0 /\ offset \in Nat /\ offset > 0
      /\ Places(partitions) /\ IsPowerOfTwo(w) /\ w \in Nat /\ w > 0
      /\ partition_len * w = points_done * offset /\ w % offset = 0
      /\ (deviator.kind # "array" => offset = 1) /\ 2 * offset <= w /\ points_done \in Nat
  BY DEF DevInv, DevTypes, DevAccrue, Accrue, MoreStages, IsPowerOfTwo
<1>2. /\ devPc = "accrue" /\ devPc' = "accrue" /\ inputBuffer' = inputBuffer
      /\ points_done' = points_done /\ deviator' = deviator
  BY DEF Accrue
<1>3. PICK own : OwnedBy(own, inputBuffer, partitions, partition_len, LiveParts, points_done)
  BY <1>2 DEF DevInv, DevCovered, Covered
<1>4. CASE deviator.kind = "array"
  <2>1. /\ offset' = 2 * offset /\ partition_len' = 2 * partition_len
        /\ partitions' = [i \in 1 .. w |->
             IF (i - 1) % (2 * offset) = 0
             THEN United(partitions[i], partitions[i + offset], partition_len) ELSE partitions[i]]
    <3>1. DOMAIN partitions = 1 .. w
      BY <1>1 DEF Places
    <3> QED
      BY <1>4, <3>1 DEF Accrue, NeighboursJoined
  <2> HIDE DEF w
  <2>2. Len(partitions') = w /\ Places(partitions')
    <3>1. partitions' = [i \in 1 .. w |-> partitions'[i]]
      BY <2>1
    <3> QED
      BY <3>1, <1>1, PlacesCounted
  <2>3. w % (2 * offset) = 0
    BY <1>1, EvenlyDivided
  <2>4. DevTypes'
    BY <1>1, <1>2, <2>1, <2>2 DEF DevTypes
  <2>5. DevLanes' /\ DevTail'
    BY <1>2 DEF DevLanes, DevTail
  <2>6. DevAccrue'
    <3>1. (2 * partition_len) * w = points_done * (2 * offset)
      BY <1>1
    <3> QED
      BY <1>2, <1>4, <2>1, <2>2, <2>3, <3>1 DEF DevAccrue
  <2>7. LiveParts = Remaining(w, offset) /\ LiveParts' = Remaining(w, 2 * offset)
    BY <2>1, <2>2 DEF LiveParts, w
  <2>8. \A i \in Remaining(w, 2 * offset) :
          partitions'[i] = United(partitions[i], partitions[i + offset], partition_len)
    BY <2>1 DEF Remaining
  <2>9. \E next : OwnedBy(next, inputBuffer, partitions', 2 * partition_len,
                          Remaining(w, 2 * offset), points_done)
    BY <1>1, <1>3, <2>3, <2>7, <2>8, NeighboursOwned
  <2>10. Covered'
    BY <1>2, <2>1, <2>7, <2>9 DEF Covered
  <2> QED
    BY <2>4, <2>5, <2>6, <2>10 DEF DevInv, DevCovered
<1>5. CASE deviator.kind # "array"
  <2> DEFINE h == w \div 2
  <2>1. /\ offset' = 1 /\ partition_len' = 2 * partition_len
        /\ partitions' = [l \in 1 .. h |-> United(partitions[l], partitions[l + h], partition_len)]
    BY <1>1, <1>5 DEF Accrue, HalvesJoined
  <2>2. IsPowerOfTwo(h) /\ w = 2 * h /\ h \in Nat
    <3>1. w >= 2
      BY <1>1, <1>5
    <3> HIDE DEF w
    <3> QED
      BY <1>1, <3>1, HalfOfPower
  <2> HIDE DEF h, w
  <2>3. Len(partitions') = h /\ Places(partitions')
    <3>1. partitions' = [i \in 1 .. h |-> partitions'[i]]
      BY <2>1
    <3> QED
      BY <3>1, <2>2, PlacesCounted
  <2>4. DevTypes'
    BY <1>1, <1>2, <2>1, <2>2, <2>3 DEF DevTypes
  <2>5. DevLanes' /\ DevTail'
    BY <1>2 DEF DevLanes, DevTail
  <2>6. DevAccrue'
    <3>1. (2 * partition_len) * h = partition_len * w /\ points_done * 1 = points_done * offset
      BY <1>1, <1>5, <2>2
    <3>2. h % 1 = 0
      BY <2>2
    <3> QED
      BY <1>1, <1>2, <2>1, <2>3, <3>1, <3>2 DEF DevAccrue
  <2>7. \A i \in Int : (i - 1) % 1 = 0
    OBVIOUS
  <2>8. LiveParts = 1 .. 2 * h /\ LiveParts' = 1 .. h
    BY <1>1, <1>5, <2>1, <2>2, <2>3, <2>7 DEF LiveParts, Remaining, w
  <2>9. \A i \in 1 .. h : partitions'[i] = United(partitions[i], partitions[i + h], partition_len)
    BY <2>1
  <2>10. \E next : OwnedBy(next, inputBuffer, partitions', 2 * partition_len, 1 .. h, points_done)
    BY <1>1, <1>3, <2>2, <2>8, <2>9, HalvesOwned
  <2>11. Covered'
    BY <1>2, <2>1, <2>8, <2>10 DEF Covered
  <2> QED
    BY <2>4, <2>5, <2>6, <2>11 DEF DevInv, DevCovered
<1> QED
  BY <1>4, <1>5

LEMMA AccrueEndInv ==
  ASSUME DevInv, AccrueEnd
  PROVE  DevInv'
<1> DEFINE w == Len(partitions)
<1>1. /\ inputBuffer \in Seq(Int) /\ partition_len \in Nat /\ offset \in Nat /\ offset > 0
      /\ w \in Nat /\ w > 0 /\ w % offset = 0 /\ ~(2 * offset <= w) /\ points_done \in Nat
      /\ partition_len * w = points_done * offset
  BY DEF DevInv, DevTypes, DevAccrue, AccrueEnd, MoreStages, IsPowerOfTwo
<1>2. /\ devPc = "accrue" /\ devPc' = "tail" /\ inputBuffer' = inputBuffer
      /\ points_done' = points_done /\ partitions' = partitions /\ partition_len' = partition_len
      /\ offset' = offset
  BY DEF AccrueEnd
<1>3. PICK own : OwnedBy(own, inputBuffer, partitions, partition_len, LiveParts, points_done)
  BY <1>2 DEF DevInv, DevCovered, Covered
<1>4. offset = w
  <2> HIDE DEF w
  <2> QED
    BY <1>1, WholeDivided
<1>5. partition_len = points_done
  <2> HIDE DEF w
  <2> QED
    BY <1>1, <1>4, Cancelled
<1>6. LiveParts = {1}
  <2>1. ASSUME NEW i \in 1 .. w PROVE (i - 1) % w = 0 <=> i = 1
    <3>1. i - 1 \in Nat /\ i - 1 < w
      BY <1>1
    <3>2. (i - 1) % w = i - 1
      <4> HIDE DEF w
      <4> QED
        BY <1>1, <3>1, SmallRemainder
    <3> QED
      BY <3>1, <3>2
  <2>2. 1 \in 1 .. w
    BY <1>1
  <2> QED
    BY <1>4, <2>1, <2>2 DEF LiveParts, Remaining
<1>7. own[1] = 1 .. points_done
  <2>1. \A q \in Nat : q \in 1 .. points_done <=> q \in own[1]
    BY <1>3, <1>6 DEF OwnedBy
  <2>2. own[1] \subseteq Nat
    BY <1>3, <1>6 DEF OwnedBy
  <2>3. \A q : q \in own[1] <=> q \in 1 .. points_done
    BY <1>1, <2>1, <2>2
  <2> QED
    BY <2>3, Zenon
<1>8. Holds(inputBuffer, partitions[1], points_done, 1 .. points_done)
  BY <1>3, <1>5, <1>6, <1>7 DEF OwnedBy
<1> QED
  BY <1>2, <1>8 DEF DevInv, DevTypes, DevLanes, DevAccrue, DevCovered, DevTail

LEMMA TailValueInv ==
  ASSUME DevInv, TailValue
  PROVE  DevInv'
<1> DEFINE w == Len(partitions)
           q == points_done + 1
<1>1. /\ inputBuffer \in Seq(Int) /\ points_done \in Nat /\ points_done > 0 /\ w \in Nat /\ w > 0
      /\ points_done < Len(inputBuffer) /\ Places(partitions)
      /\ Holds(inputBuffer, partitions[1], points_done, 1 .. points_done)
  BY DEF DevInv, DevTypes, DevTail, TailValue, IsPowerOfTwo
<1>2. /\ devPc' = "tail" /\ inputBuffer' = inputBuffer /\ points_done' = q
      /\ partition_len' = partition_len /\ offset' = offset
      /\ partitions' = [partitions EXCEPT ![1] = Updated(@, points_done, inputBuffer[q])]
  BY DEF TailValue
<1>3. DOMAIN partitions = 1 .. w /\ 1 \in 1 .. w
  BY <1>1 DEF Places
<1>4. Len(partitions') = w /\ Places(partitions')
  <2>1. partitions' = [i \in 1 .. w |-> partitions'[i]]
    BY <1>2, <1>3
  <2> HIDE DEF w
  <2> QED
    BY <2>1, <1>1, PlacesCounted
<1>5. Holds(inputBuffer, Updated(partitions[1], points_done, inputBuffer[q]), points_done + 1,
            (1 .. points_done) \cup {q})
  <2>1. q \in 1 .. Len(inputBuffer) /\ q \notin 1 .. points_done
    BY <1>1
  <2> HIDE DEF q
  <2> QED
    BY <1>1, <2>1, AnotherHeld
<1>6. (1 .. points_done) \cup {q} = 1 .. q
  BY <1>1
<1>7. DevTail'
  BY <1>2, <1>3, <1>5, <1>6 DEF DevTail
<1>8. DevTypes'
  BY <1>1, <1>2, <1>4 DEF DevInv, DevTypes, TailValue
<1> QED
  BY <1>2, <1>7, <1>8 DEF DevInv, DevLanes, DevAccrue, DevCovered

LEMMA DevStep == DevInv /\ [DeviationNext]_deviationVars => DevInv'
<1> SUFFICES ASSUME DevInv, [DeviationNext]_deviationVars PROVE DevInv'
  OBVIOUS
<1>1. ASSUME NEW d \in Deviators, NEW x \in Inputs(d), Deviate(d, x) PROVE DevInv'
  BY <1>1, DeviateInv
<1>2. CASE LaneRound
  BY <1>2, LaneRoundInv
<1>3. CASE LanesEnd
  BY <1>3, LanesEndInv
<1>4. CASE Accrue
  BY <1>4, AccrueInv
<1>5. CASE AccrueEnd
  BY <1>5, AccrueEndInv
<1>6. CASE TailValue
  BY <1>6, TailValueInv
<1>7. CASE DeviationReturn
  BY <1>7 DEF DeviationReturn, DevInv, DevTypes, DevLanes, DevAccrue, DevCovered, DevTail
<1>8. CASE UNCHANGED deviationVars
  BY <1>8 DEF deviationVars, DevInv, DevTypes, DevLanes, DevAccrue, DevCovered, DevTail, Covered, LiveParts, Remaining
<1> QED
  BY <1>1, <1>2, <1>3, <1>4, <1>5, <1>6, <1>7, <1>8 DEF DeviationNext

LEMMA DevRight == DevInv => DeviationRight
<1> SUFFICES ASSUME DevInv, devPc = "tail", points_done = Len(inputBuffer) PROVE DeviationRight
  BY DEF DeviationRight
<1>1. inputBuffer \in Seq(Int) /\ Holds(inputBuffer, partitions[1], Len(inputBuffer), 1 .. Len(inputBuffer))
  BY DEF DevInv, DevTypes, DevTail
<1>2. Exact(partitions[1], Len(inputBuffer), SumUpTo(inputBuffer, Len(inputBuffer)),
            SumUpTo(PointSquares(inputBuffer), Len(inputBuffer)))
  BY <1>1, AllHeld
<1> QED
  BY <1>2 DEF DeviationRight, Exact, IsQuotient, PointSquares

THEOREM DeviationIsRight == DeviationSpec => []DeviationRight
<1>1. NoDeviation => DevInv
  BY DevInit
<1>2. DevInv /\ [DeviationNext]_deviationVars => DevInv'
  BY DevStep
<1>3. DevInv => DeviationRight
  BY DevRight
<1> QED
  BY <1>1, <1>2, <1>3, PTL DEF DeviationSpec
=============================================================================
