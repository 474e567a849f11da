-------------------------- MODULE IndexKernels_proofs --------------------------
(***************************************************************************)
(* The index kernels return the first of the best values, for every width, *)
(* every order of the lanes and every length of the input (FirstBestHolds);*)
(* where equal values are not told apart, one of the best (BestFoundHolds);*)
(* and with NaNs among the values the best number, where comparisons are   *)
(* ordered, or else the index of some point (NaNsAreHarmless).             *)
(*                                                                         *)
(* An entry is a value with its index.  The invariant says that for every  *)
(* point consumed some entry answers: a better value, or the same value at *)
(* an index that is not larger; and that every entry is either the initial *)
(* one or stands for a point consumed.  Entries are those of the lanes     *)
(* first, then that of the reduction and those of the lanes it has not yet *)
(* come to, and then the former alone.                                     *)
(***************************************************************************)
EXTENDS IndexKernels, TLAPS

Careful == Comparable(src) /\ Counts /\ TieSafe

Called == \E c \in Calls : proto = c.proto /\ src = c.src
Bounds ==
  /\ n = IF proto.capped /\ Len(src) > Cap THEN Cap ELSE Len(src)
  /\ pos \in 0 .. n
  /\ lane \in 0 .. proto.width

First0 == IF proto.first THEN src[1] ELSE Floor

Answers(v, i, q) == v > At(q) \/ (v = At(q) /\ i <= q)
Founded(v, i) ==
  \/ v = First0 /\ i = 0
  \/ v > First0 /\ i \in 0 .. pos - 1 /\ At(i) = v
LaneFounded(l) ==
  /\ val[l] \in Nat /\ idx[l] \in Nat
  /\ Founded(val[l], idx[l]) \/ (proto.ramp /\ val[l] = First0 /\ idx[l] = l)

InVector ==
  /\ val = [l \in Lanes(proto) |-> val[l]] /\ idx = [l \in Lanes(proto) |-> idx[l]]
  /\ cur = [l \in Lanes(proto) |-> cur[l]]
  /\ best = First0 /\ index = 0 /\ lane = 0
  /\ \A l \in Lanes(proto) : LaneFounded(l)
  /\ \A l \in Lanes(proto) : pos + proto.order[l] < n => cur[l] = pos + proto.order[l]
  /\ \A q \in 0 .. pos - 1 : \E l \in Lanes(proto) : Answers(val[l], idx[l], q)

InReduce ==
  /\ best \in Nat /\ index \in Nat
  /\ proto.reduce = "vector" => lane = proto.width
  /\ Founded(best, index)
  /\ \A l \in Lanes(proto) : LaneFounded(l)
  /\ \A q \in 0 .. pos - 1 :
       \/ Answers(best, index, q)
       \/ \E l \in Lanes(proto) : l >= lane /\ Answers(val[l], idx[l], q)

IInv ==
  /\ pc \in {"idle", "vector", "reduce", "done"}
  /\ pc # "idle" => Called /\ Bounds
  /\ Careful =>
       /\ pc = "vector" => InVector
       /\ pc = "reduce" => InReduce
       /\ pc = "done" => IsFirstBest(target)

-----------------------------------------------------------------------------
(* What a call in progress has: the facts of the assumption about Calls.   *)
LEMMA CallFacts ==
  ASSUME Called, Bounds
  PROVE  /\ ProtoKernel(proto)
         /\ src \in Seq(Nat \cup {NaN}) /\ Len(src) \in Nat /\ Len(src) >= 1
         /\ n \in Nat /\ 1 <= n /\ n <= Len(src)
         /\ proto.capped => n <= Cap
         /\ Looked = 0 .. n - 1
         /\ proto.width \in Nat /\ pos \in Nat /\ pos <= n /\ lane \in Nat /\ lane <= proto.width
<1>1. PICK c \in Calls : proto = c.proto /\ src = c.src
  BY DEF Called
<1>2. ProtoKernel(proto) /\ src \in Seq(Nat \cup {NaN}) /\ src # <<>>
  BY <1>1, CallsAssumption
<1>3. Len(src) \in Nat /\ Len(src) >= 1
  BY <1>2
<1>4. Cap \in Nat /\ 1 <= Cap
  BY ConstantsAssumption
<1>5. n \in Nat /\ 1 <= n /\ n <= Len(src) /\ (proto.capped => n <= Cap)
  BY <1>3, <1>4 DEF Bounds
<1>6. Looked = 0 .. n - 1
  BY DEF Looked, Bounds
<1> QED
  BY <1>2, <1>3, <1>5, <1>6 DEF Bounds, ProtoKernel

(* Without NaN every point looked at is a natural number.                  *)
LEMMA PointsAreNumbers ==
  ASSUME Called, Bounds, Comparable(src)
  PROVE  /\ \A q \in 0 .. n - 1 : At(q) \in Nat
         /\ First0 \in Nat
<1>1. src \in Seq(Nat \cup {NaN}) /\ n \in Nat /\ n <= Len(src) /\ Len(src) \in Nat /\ Len(src) >= 1
  BY CallFacts
<1>2. \A i \in 1 .. Len(src) : src[i] \in Nat
  <2> TAKE i \in 1 .. Len(src)
  <2>1. src[i] \in Nat \cup {NaN}
    BY <1>1
  <2>2. src[i] # NaN
    BY <1>1 DEF Comparable
  <2> QED
    BY <2>1, <2>2
<1>3. \A q \in 0 .. n - 1 : At(q) \in Nat
  BY <1>1, <1>2 DEF At
<1> QED
  BY <1>1, <1>2, <1>3 DEF First0, Floor

(* The comparison of numbers.                                              *)
LEMMA GtOfNumbers ==
  ASSUME NEW v \in Nat, NEW w \in Nat
  PROVE  /\ Gt(v, w) <=> v > w
         /\ Eq(v, w) <=> v = w
BY DEF Gt, Eq, NaN

(* What one lane does with a number: it keeps the better value, and takes  *)
(* the new index exactly if the new value is better.                       *)
LEMMA LaneStep ==
  ASSUME Called, Bounds, TieSafe, NEW v \in Nat, NEW old \in Nat, NEW i, NEW j
  PROVE  /\ v > old => Kept(v, old) = v /\ KeptIndex(i, v, old, j) = i
         /\ ~(v > old) => Kept(v, old) = old /\ KeptIndex(i, v, old, j) = j
<1>1. proto.takes \in {"greater", "notLessEqual"}
  BY CallFacts DEF ProtoKernel, TieSafe
<1>2. v # NaN /\ old # NaN
  BY DEF NaN
<1>3. Kept(v, old) = IF v > old THEN v ELSE old
  BY <1>2, GtOfNumbers DEF Kept, Better
<1>4. Takes(v, old) <=> v > old
  <2>1. CASE proto.takes = "greater"
    BY <2>1, GtOfNumbers DEF Takes, Better
  <2>2. CASE proto.takes = "notLessEqual"
    <3>1. Takes(v, old) <=> ~(Gt(old, v) \/ Eq(v, old))
      BY <2>2 DEF Takes
    <3> QED
      BY <3>1, GtOfNumbers
  <2> QED
    BY <1>1, <2>1, <2>2
<1>5. Keeps(v, old) <=> ~(v > old)
  BY <1>1, <1>4 DEF Keeps
<1> QED
  BY <1>3, <1>4, <1>5 DEF KeptIndex

-----------------------------------------------------------------------------
(* One vector: points and lanes correspond, so that every new point gets   *)
(* the answer of its lane, and the answers given before stay right because *)
(* an entry is only replaced by a better one.                              *)
LEMMA BlockStep ==
  ASSUME Called, Bounds, Careful, InVector, Block
  PROVE  InVector' /\ Bounds'
<1>1. /\ ProtoKernel(proto) /\ n \in Nat /\ 1 <= n /\ proto.width \in Nat /\ pos \in Nat /\ pos <= n
      /\ \A q \in 0 .. n - 1 : At(q) \in Nat
      /\ First0 \in Nat
  BY CallFacts, PointsAreNumbers DEF Careful
<1>2. /\ proto' = proto /\ src' = src /\ n' = n /\ lane' = lane /\ best' = best /\ index' = index
      /\ pos' = pos + Step /\ MoreVectors
      /\ val' = [l \in Lanes(proto) |->
               IF Loaded(l) THEN Kept(At(pos + proto.order[l]), val[l]) ELSE val[l]]
      /\ idx' = [l \in Lanes(proto) |->
               IF Loaded(l) THEN KeptIndex(cur[l], At(pos + proto.order[l]), val[l], idx[l])
               ELSE idx[l]]
      /\ cur' = [l \in Lanes(proto) |-> LaneIndex(cur[l] + Step)]
  BY DEF Block
<1>3. /\ Step \in Nat /\ Step >= 1 /\ Step <= proto.width /\ pos + Step <= n
      /\ Step = proto.width \/ pos + Step = n
  BY <1>1, <1>2 DEF Step, MoreVectors
<1>4. /\ First0' = First0 /\ Lanes(proto') = Lanes(proto) /\ Lanes(proto)' = Lanes(proto)
      /\ \A q : At(q)' = At(q)
  BY <1>2 DEF First0, Lanes, At
<1>5. \A l \in Lanes(proto) : proto.order[l] \in Nat /\ proto.order[l] < proto.width
  BY <1>1 DEF ProtoKernel, Lanes
<1>6. ASSUME NEW l \in Lanes(proto)
      PROVE  /\ LaneFounded(l)'
             /\ val'[l] \in Nat /\ idx'[l] \in Nat
             /\ \A q \in 0 .. pos - 1 : Answers(val[l], idx[l], q) => Answers(val'[l], idx'[l], q)
             /\ pos + proto.order[l] < n => Answers(val'[l], idx'[l], pos + proto.order[l])
  <2>0. LaneFounded(l)
    BY DEF InVector
  <2>1. /\ val[l] \in Nat /\ idx[l] \in Nat /\ LaneFounded(l)
        /\ proto.order[l] \in Nat /\ proto.order[l] < proto.width /\ l \in Nat
    BY <2>0, <1>5, <1>1 DEF LaneFounded, Lanes
  <2>2. CASE ~Loaded(l)
    <3>1. val'[l] = val[l] /\ idx'[l] = idx[l]
      BY <1>2, <2>2
    <3>2. LaneFounded(l)'
      BY <3>1, <2>1, <1>1, <1>2, <1>3, <1>4 DEF LaneFounded, Founded, At
    <3> QED
      BY <3>1, <3>2, <2>1, <2>2 DEF Loaded
  <2>3. CASE Loaded(l)
    <3> DEFINE q0 == pos + proto.order[l]
               v == At(q0)
    <3>0. q0 < n
      BY <2>3 DEF Loaded
    <3>1. q0 \in 0 .. n - 1 /\ v \in Nat /\ cur[l] = q0 /\ q0 < pos + Step
      <4>1. q0 \in 0 .. n - 1 /\ q0 < pos + Step
        BY <3>0, <2>1, <1>1, <1>3
      <4>2. cur[l] = q0
        BY <3>0 DEF InVector
      <4> QED
        BY <4>1, <4>2, <1>1
    <3>2. val'[l] = Kept(v, val[l]) /\ idx'[l] = KeptIndex(q0, v, val[l], idx[l])
      BY <1>2, <2>3, <3>1
    <3>3. TieSafe
      BY DEF Careful
    <3> HIDE DEF q0
    <3>4. CASE v > val[l]
      <4>1. val'[l] = v /\ idx'[l] = q0
        BY <3>4, <3>3, <3>1, <3>2, <2>1, LaneStep
      <4>2. v > First0
        BY <3>4, <2>1, <3>1, <1>1 DEF LaneFounded, Founded
      <4>3. LaneFounded(l)'
        BY <4>1, <4>2, <3>1, <1>1, <1>2, <1>3, <1>4 DEF LaneFounded, Founded, At
      <4>4. \A q \in 0 .. pos - 1 : Answers(val[l], idx[l], q) => Answers(v, q0, q)
        <5> TAKE q \in 0 .. pos - 1
        <5>1. At(q) \in Nat
          BY <1>1
        <5> QED
          BY <5>1, <3>4, <3>1, <2>1 DEF Answers
      <4> QED
        BY <4>1, <4>3, <4>4, <3>1, <1>1 DEF Answers, q0
    <3>5. CASE ~(v > val[l])
      <4>1. val'[l] = val[l] /\ idx'[l] = idx[l]
        BY <3>5, <3>3, <3>1, <3>2, <2>1, LaneStep
      <4>2. LaneFounded(l)'
        BY <4>1, <2>1, <1>1, <1>2, <1>3, <1>4 DEF LaneFounded, Founded, At
      <4>3. idx[l] <= q0
        <5>1. CASE Founded(val[l], idx[l])
          BY <5>1, <2>1, <1>1, <3>1 DEF Founded, q0
        <5>2. CASE proto.ramp /\ idx[l] = l
          BY <5>2, <2>1, <1>1 DEF ProtoKernel, q0
        <5> QED
          BY <5>1, <5>2, <2>1 DEF LaneFounded
      <4>4. Answers(val[l], idx[l], q0)
        BY <4>3, <3>5, <3>1, <2>1 DEF Answers
      <4> QED
        BY <4>1, <4>2, <4>4, <2>1 DEF q0
    <3> QED
      BY <3>4, <3>5
  <2> QED
    BY <2>2, <2>3
<1>7. \A q \in 0 .. pos' - 1 : \E l \in Lanes(proto) : Answers(val'[l], idx'[l], q)
  <2> TAKE q \in 0 .. pos' - 1
  <2>1. CASE q < pos
    <3>1. PICK l \in Lanes(proto) : Answers(val[l], idx[l], q)
      BY <2>1, <1>1, <1>2, <1>3 DEF InVector
    <3> QED
      BY <3>1, <2>1, <1>6, <1>1, <1>2, <1>3
  <2>2. CASE q >= pos
    <3>1. q - pos \in Lanes(proto)
      BY <2>2, <1>1, <1>2, <1>3 DEF Lanes
    <3>2. PICK l \in Lanes(proto) : proto.order[l] = q - pos
      BY <3>1, <1>1 DEF ProtoKernel
    <3>3. pos + proto.order[l] = q /\ q < n
      BY <3>2, <2>2, <1>1, <1>2, <1>3
    <3> QED
      BY <3>3, <1>6
  <2> QED
    BY <2>1, <2>2, <1>1, <1>2, <1>3
<1>8. ASSUME NEW l \in Lanes(proto), pos' + proto.order[l] < n
      PROVE  cur'[l] = pos' + proto.order[l]
  <2>1. proto.order[l] \in Nat /\ cur[l] = pos + proto.order[l]
    BY <1>8, <1>1, <1>2, <1>3, <1>5 DEF InVector
  <2>2. cur[l] + Step = pos' + proto.order[l] /\ cur[l] + Step \in Nat
    BY <2>1, <1>1, <1>2, <1>3
  <2>3. proto.laneFloat => cur[l] + Step <= Exact
    BY <2>2, <1>8, <1>1, ConstantsAssumption DEF Careful, Counts
  <2>4. LaneIndex(cur[l] + Step) = cur[l] + Step
    BY <2>3 DEF LaneIndex, ToFloat
  <2> QED
    BY <2>2, <2>4, <1>2
<1>9. Bounds'
  BY <1>1, <1>2, <1>3 DEF Bounds
<1>10. \A l \in Lanes(proto) : LaneFounded(l)'
  BY <1>6
<1> QED
  BY <1>2, <1>4, <1>7, <1>8, <1>9, <1>10 DEF InVector, Answers

-----------------------------------------------------------------------------
(* The call, its input and the bounds of the loops, on any input.          *)
LEMMA BoundsStep ==
  ASSUME pc # "idle" => Called /\ Bounds, Next, pc' # "idle"
  PROVE  Called' /\ Bounds'
<1>1. CASE Begin
  <2>1. PICK c \in Calls : proto' = c.proto /\ src' = c.src /\ n' = Points(c)
    BY <1>1 DEF Begin
  <2>2. pos' = 0 /\ lane' = 0
    BY <1>1 DEF Begin
  <2>3. c.proto.width \in Nat /\ Len(c.src) \in Nat
    BY CallsAssumption DEF ProtoKernel
  <2>4. Points(c) \in Nat
    BY <2>3, ConstantsAssumption DEF Points
  <2> QED
    BY <2>1, <2>2, <2>3, <2>4 DEF Called, Bounds, Points
<1>2. ASSUME ~Begin
      PROVE  Called' /\ Bounds'
  <2>1. pc # "idle"
    BY <1>2 DEF Next, Block, Pair, Single, VectorsOver, StoreLanes, ReduceLane, ReduceAtOnce,
                LanesOver, TailPoint, Store, Return
  <2>2. Called /\ Bounds /\ ProtoKernel(proto)
    BY <2>1, CallFacts
  <2>3. /\ n \in Nat /\ 1 <= n /\ proto.width \in Nat /\ pos \in Nat /\ pos <= n
        /\ lane \in Nat /\ lane <= proto.width
    BY <2>2, CallFacts
  <2>4. ~Return
    BY DEF Return
  <2>5. proto' = proto /\ src' = src /\ n' = n
    BY <1>2, <2>4 DEF Next, Block, Pair, Single, StoreLanes, ReduceLane, ReduceAtOnce, TailPoint, Store
  <2>6. Called'
    BY <2>2, <2>5 DEF Called
  <2>7. pos' \in 0 .. n
    <3>1. CASE Block
      BY <3>1, <2>3 DEF Block, Step, MoreVectors
    <3>2. CASE Pair \/ Single \/ TailPoint
      BY <3>2, <2>3 DEF Pair, Single, TailPoint
    <3>3. CASE StoreLanes \/ ReduceLane \/ ReduceAtOnce \/ Store
      BY <3>3, <2>3 DEF StoreLanes, ReduceLane, ReduceAtOnce, Store
    <3> QED
      BY <1>2, <2>4, <3>1, <3>2, <3>3 DEF Next
  <2>8. lane' \in 0 .. proto.width
    <3>1. CASE StoreLanes
      BY <3>1, <2>2, <2>3 DEF StoreLanes, ProtoKernel
    <3>2. CASE ReduceLane \/ ReduceAtOnce
      BY <3>2, <2>3 DEF ReduceLane, ReduceAtOnce
    <3>3. CASE Block \/ Pair \/ Single \/ TailPoint \/ Store
      BY <3>3, <2>3 DEF Block, Pair, Single, TailPoint, Store
    <3> QED
      BY <1>2, <2>4, <3>1, <3>2, <3>3 DEF Next
  <2> QED
    BY <2>2, <2>5, <2>6, <2>7, <2>8 DEF Bounds
<1> QED
  BY <1>1, <1>2

(* A call starts with the initial entry in every lane and no point consumed. *)
LEMMA BeginStep ==
  ASSUME Begin, Careful', Called', Bounds'
  PROVE  InVector'
<1>1. PICK c \in Calls :
        /\ proto' = c.proto /\ src' = c.src
        /\ cur' = [l \in Lanes(c.proto) |-> c.proto.order[l]]
        /\ val' = [l \in Lanes(c.proto) |-> Start(c)]
        /\ idx' = [l \in Lanes(c.proto) |-> IF c.proto.ramp THEN l ELSE 0]
        /\ best' = Start(c)
  BY DEF Begin
<1>2. pos' = 0 /\ lane' = 0 /\ index' = 0
  BY DEF Begin
<1>3. First0' = Start(c) /\ Lanes(proto)' = Lanes(c.proto)
  BY <1>1 DEF First0, Start, Lanes
<1>4. ProtoKernel(c.proto) /\ c.src \in Seq(Nat \cup {NaN}) /\ c.src # <<>>
  BY CallsAssumption
<1>5. Start(c) \in Nat
  <2>1. c.src[1] \in Nat \cup {NaN} /\ 1 \in DOMAIN c.src
    BY <1>4
  <2>2. c.src[1] # NaN
    BY <2>1, <1>1 DEF Careful, Comparable
  <2> QED
    BY <2>1, <2>2 DEF Start, Floor
<1>6. ASSUME NEW l \in Lanes(c.proto)
      PROVE  LaneFounded(l)' /\ cur'[l] = pos' + proto'.order[l]
  <2>0. c.proto.order[l] \in Lanes(c.proto) /\ c.proto.width \in Nat
    BY <1>4 DEF ProtoKernel
  <2>1. l \in Nat /\ c.proto.order[l] \in Nat
    BY <2>0 DEF Lanes
  <2>2. val'[l] = Start(c) /\ idx'[l] = IF c.proto.ramp THEN l ELSE 0
    BY <1>1
  <2>3. LaneFounded(l)'
    BY <2>1, <2>2, <1>1, <1>3, <1>5 DEF LaneFounded, Founded
  <2> QED
    BY <2>1, <2>3, <1>1, <1>2
<1> QED
  BY <1>1, <1>2, <1>3, <1>6 DEF InVector

(* The reduction starts with the initial entry, or with that of lane 0.    *)
LEMMA StoreLanesStep ==
  ASSUME Called, Bounds, Careful, InVector, StoreLanes
  PROVE  InReduce'
<1>1. /\ ProtoKernel(proto) /\ n \in Nat /\ proto.width \in Nat /\ pos \in Nat
      /\ First0 \in Nat
  BY CallFacts, PointsAreNumbers DEF Careful
<1>2. /\ proto' = proto /\ src' = src /\ pos' = pos /\ val' = val /\ idx' = idx
      /\ proto.reduce \in {"scan", "lane0"}
      /\ IF proto.reduce = "lane0"
         THEN lane' = 1 /\ best' = val[0] /\ index' = idx[0]
         ELSE lane' = lane /\ best' = best /\ index' = index
  BY DEF StoreLanes
<1>3. First0' = First0 /\ Lanes(proto)' = Lanes(proto) /\ \A q : At(q)' = At(q)
  BY <1>2 DEF First0, Lanes, At
<1>4. \A l \in Lanes(proto) : LaneFounded(l) /\ LaneFounded(l)'
  BY <1>2, <1>3 DEF InVector, LaneFounded, Founded
<1>5. \A q \in 0 .. pos - 1 : \E l \in Lanes(proto) : Answers(val[l], idx[l], q)
  BY DEF InVector
<1>6. CASE proto.reduce = "lane0"
  <2>1. 0 \in Lanes(proto) /\ ~proto.ramp
    BY <1>1, <1>6 DEF ProtoKernel, Lanes
  <2>2. val[0] \in Nat /\ idx[0] \in Nat /\ Founded(val[0], idx[0])
    BY <2>1, <1>4 DEF LaneFounded
  <2>3. Founded(best, index)'
    BY <2>2, <1>2, <1>3, <1>6 DEF Founded
  <2>4. \A q \in 0 .. pos - 1 :
          \/ Answers(val[0], idx[0], q)
          \/ \E l \in Lanes(proto) : l >= 1 /\ Answers(val[l], idx[l], q)
    <3> TAKE q \in 0 .. pos - 1
    <3>1. PICK l \in Lanes(proto) : Answers(val[l], idx[l], q)
      BY <1>5
    <3>2. l = 0 \/ l >= 1
      BY <1>1 DEF Lanes
    <3> QED
      BY <3>1, <3>2
  <2> QED
    BY <2>2, <2>3, <2>4, <1>2, <1>3, <1>4, <1>6 DEF InReduce, Answers
<1>7. CASE proto.reduce = "scan"
  <2>1. lane' = 0 /\ best' = First0 /\ index' = 0
    BY <1>2, <1>7 DEF InVector
  <2>2. Founded(best, index)'
    BY <2>1, <1>3 DEF Founded
  <2>3. \A l \in Lanes(proto) : l >= 0
    BY <1>1 DEF Lanes
  <2> QED
    BY <2>1, <2>2, <2>3, <1>1, <1>2, <1>3, <1>4, <1>5 DEF InReduce, Answers
<1> QED
  BY <1>2, <1>6, <1>7

(* One lane joins the reduction: whatever its entry answered for, the new  *)
(* entry does.                                                             *)
LEMMA ReduceLaneStep ==
  ASSUME Called, Bounds, Careful, InReduce, ReduceLane
  PROVE  InReduce'
<1>1. /\ ProtoKernel(proto) /\ n \in Nat /\ proto.width \in Nat /\ pos \in Nat /\ pos <= n
      /\ lane \in Nat /\ First0 \in Nat
      /\ \A q \in 0 .. n - 1 : At(q) \in Nat
  BY CallFacts, PointsAreNumbers DEF Careful
<1>2. /\ proto' = proto /\ src' = src /\ pos' = pos /\ val' = val /\ idx' = idx
      /\ lane' = lane + 1 /\ lane < proto.width
      /\ IF Gt(val[lane], best) THEN best' = val[lane] /\ index' = idx[lane]
         ELSE best' = best /\ index' = IF SmallerIndex(lane) THEN idx[lane] ELSE index
  BY DEF ReduceLane
<1>3. First0' = First0 /\ Lanes(proto)' = Lanes(proto) /\ \A q : At(q)' = At(q)
  BY <1>2 DEF First0, Lanes, At
<1>4. \A l \in Lanes(proto) : LaneFounded(l) /\ LaneFounded(l)'
  BY <1>2, <1>3 DEF InReduce, LaneFounded, Founded
<1>5. lane \in Lanes(proto) /\ proto.width # 0
  BY <1>1, <1>2 DEF Lanes
<1>6. val[lane] \in Nat /\ idx[lane] \in Nat /\ best \in Nat /\ index \in Nat
  BY <1>4, <1>5 DEF LaneFounded, InReduce
<1>7. Founded(best, index)
  BY DEF InReduce
<1>8. Gt(val[lane], best) <=> val[lane] > best
  BY <1>6, GtOfNumbers
<1>9. proto.ties \/ proto.reduce = "vector"
  BY <1>5 DEF Careful, TieSafe
<1>9a. proto.reduce # "vector"
  BY <1>1, <1>2 DEF InReduce
<1>10. CASE val[lane] > best
  <2>1. best' = val[lane] /\ index' = idx[lane]
    BY <1>10, <1>8, <1>2
  <2>2. val[lane] > First0
    BY <1>10, <1>7, <1>6, <1>1 DEF Founded
  <2>3. Founded(val[lane], idx[lane])
    BY <2>2, <1>4, <1>5, <1>1, <1>6 DEF LaneFounded, Founded
  <2>4. Founded(best, index)'
    BY <2>1, <2>3, <1>2, <1>3 DEF Founded
  <2>5. ASSUME NEW q \in 0 .. pos - 1
        PROVE  \/ Answers(val[lane], idx[lane], q)
               \/ \E l \in Lanes(proto) : l >= lane + 1 /\ Answers(val[l], idx[l], q)
    <3>1. CASE Answers(best, index, q)
      <4>1. At(q) \in Nat
        BY <1>1
      <4> QED
        BY <4>1, <3>1, <1>10, <1>6 DEF Answers
    <3>2. CASE \E l \in Lanes(proto) : l >= lane /\ Answers(val[l], idx[l], q)
      BY <3>2, <1>1 DEF Lanes
    <3> QED
      BY <3>1, <3>2 DEF InReduce
  <2> QED
    BY <2>1, <2>4, <2>5, <1>2, <1>3, <1>4, <1>6, <1>9a DEF InReduce, Answers
<1>11. CASE ~(val[lane] > best)
  <2>1. best' = best /\ index' = IF SmallerIndex(lane) THEN idx[lane] ELSE index
    BY <1>11, <1>8, <1>2
  <2>2. index' \in Nat /\ index' <= index
    BY <2>1, <1>6 DEF SmallerIndex
  <2>3. ASSUME proto.ties, val[lane] = best
        PROVE  index' <= idx[lane]
    BY <2>3, <2>1, <1>6, GtOfNumbers DEF SmallerIndex
  <2>4. Founded(best, index)'
    <3>1. CASE ~SmallerIndex(lane)
      BY <3>1, <2>1, <1>7, <1>2, <1>3 DEF Founded
    <3>2. CASE SmallerIndex(lane)
      <4>1. val[lane] = best /\ idx[lane] < index /\ index' = idx[lane]
        BY <3>2, <2>1, <1>6, GtOfNumbers DEF SmallerIndex
      <4>2. index \in 0 .. pos - 1 /\ best > First0
        BY <4>1, <1>7, <1>6 DEF Founded
      <4>3. Founded(val[lane], idx[lane])
        BY <4>1, <4>2, <1>4, <1>5, <1>1, <1>6 DEF LaneFounded, Founded
      <4> QED
        BY <4>1, <4>3, <2>1, <1>2, <1>3 DEF Founded
    <3> QED
      BY <3>1, <3>2
  <2>5. proto.ties
    BY <1>9, <1>1, <1>2 DEF InReduce
  <2>6. ASSUME NEW q \in 0 .. pos - 1
        PROVE  \/ Answers(best, index', q)
               \/ \E l \in Lanes(proto) : l >= lane + 1 /\ Answers(val[l], idx[l], q)
    <3>0. At(q) \in Nat
      BY <1>1
    <3>1. CASE Answers(best, index, q)
      BY <3>0, <3>1, <2>2, <1>6 DEF Answers
    <3>2. CASE Answers(val[lane], idx[lane], q)
      BY <3>0, <3>2, <2>2, <2>3, <2>5, <1>11, <1>6 DEF Answers
    <3>3. CASE \E l \in Lanes(proto) : l >= lane /\ l # lane /\ Answers(val[l], idx[l], q)
      BY <3>3, <1>1 DEF Lanes
    <3> QED
      BY <3>1, <3>2, <3>3 DEF InReduce
  <2> QED
    BY <2>1, <2>2, <2>4, <2>6, <1>2, <1>3, <1>4, <1>6, <1>9a DEF InReduce, Answers
<1> QED
  BY <1>10, <1>11

(* The reduction in registers: the best lane and the smallest index of the *)
(* lanes equal to it answer for every point.                               *)
LEMMA ReduceAtOnceStep ==
  ASSUME Called, Bounds, Careful, InVector, ReduceAtOnce
  PROVE  InReduce'
<1>1. /\ ProtoKernel(proto) /\ n \in Nat /\ proto.width \in Nat /\ pos \in Nat /\ pos <= n
      /\ First0 \in Nat
      /\ \A q \in 0 .. n - 1 : At(q) \in Nat
  BY CallFacts, PointsAreNumbers DEF Careful
<1>2. /\ proto' = proto /\ src' = src /\ pos' = pos /\ val' = val /\ idx' = idx
      /\ lane' = proto.width /\ proto.reduce = "vector"
  BY DEF ReduceAtOnce
<1>3. First0' = First0 /\ Lanes(proto)' = Lanes(proto) /\ \A q : At(q)' = At(q)
  BY <1>2 DEF First0, Lanes, At
<1>4. \A l \in Lanes(proto) : LaneFounded(l) /\ LaneFounded(l)'
  BY <1>2, <1>3 DEF InVector, LaneFounded, Founded
<1>5. ~proto.ramp
  BY <1>1, <1>2 DEF ProtoKernel
<1>6. \A l \in Lanes(proto) : val[l] \in Nat /\ idx[l] \in Nat /\ Founded(val[l], idx[l]) /\ val[l] # NaN
  BY <1>4, <1>5 DEF LaneFounded, NaN
<1>7. PICK l0 \in Lanes(proto) :
        /\ best' = val[l0]
        /\ val[l0] = NaN \/ \A m \in Lanes(proto) : val[m] # NaN /\ val[m] <= val[l0]
        /\ \/ Equals(val[l0]) = {} /\ index' = AllOnes
           \/ \E i \in Equals(val[l0]) : index' = i /\ \A j \in Equals(val[l0]) : i <= j
  BY DEF ReduceAtOnce
<1>8. Equals(val[l0]) = {idx[l] : l \in {m \in Lanes(proto) : val[m] = val[l0]}}
  BY <1>6 DEF Equals, Eq
<1>9. PICK l1 \in Lanes(proto) :
        /\ val[l1] = best' /\ index' = idx[l1]
        /\ \A m \in Lanes(proto) : val[m] = best' => index' <= idx[m]
  BY <1>7, <1>8
<1>10. \A m \in Lanes(proto) : val[m] <= best'
  BY <1>6, <1>7
<1>11. Founded(best, index)'
  BY <1>9, <1>6, <1>2, <1>3 DEF Founded
<1>12. ASSUME NEW q \in 0 .. pos - 1
       PROVE  Answers(best', index', q)
  <2>1. PICK m \in Lanes(proto) : Answers(val[m], idx[m], q)
    BY DEF InVector
  <2>2. val[m] <= best' /\ (val[m] = best' => index' <= idx[m])
    BY <1>9, <1>10
  <2>3. At(q) \in Nat /\ best' \in Nat /\ index' \in Nat
    BY <1>1, <1>6, <1>9
  <2> QED
    BY <2>1, <2>2, <2>3, <1>6 DEF Answers
<1> QED
  BY <1>2, <1>3, <1>4, <1>6, <1>9, <1>11, <1>12 DEF InReduce, Answers

(* A point behind the last vector.                                         *)
LEMMA TailPointStep ==
  ASSUME Called, Bounds, Careful, InReduce, TailPoint
  PROVE  InReduce'
<1>1. /\ n \in Nat /\ pos \in Nat /\ proto.width \in Nat /\ First0 \in Nat
      /\ \A q \in 0 .. n - 1 : At(q) \in Nat
  BY CallFacts, PointsAreNumbers DEF Careful
<1>2. /\ proto' = proto /\ src' = src /\ pos' = pos + 1 /\ val' = val /\ idx' = idx
      /\ lane' = lane /\ lane = proto.width /\ pos < n
      /\ IF Gt(At(pos), best) THEN best' = At(pos) /\ index' = ScalarIndex(pos)
         ELSE best' = best /\ index' = index
  BY DEF TailPoint, LanesOver
<1>3. First0' = First0 /\ Lanes(proto)' = Lanes(proto) /\ \A q : At(q)' = At(q)
  BY <1>2 DEF First0, Lanes, At
<1>4. \A l \in Lanes(proto) : LaneFounded(l)'
  <2> TAKE l \in Lanes(proto)
  <2>1. LaneFounded(l)
    BY DEF InReduce
  <2> QED
    BY <2>1, <1>1, <1>2, <1>3 DEF LaneFounded, Founded
<1>5. \A q \in 0 .. pos - 1 : Answers(best, index, q)
  <2>1. ~\E l \in Lanes(proto) : l >= lane
    BY <1>1, <1>2 DEF Lanes
  <2> QED
    BY <2>1 DEF InReduce
<1>6. ScalarIndex(pos) = pos
  <2>1. proto.tailFloat => pos <= Exact
    BY <1>1, <1>2, ConstantsAssumption DEF Careful, Counts
  <2> QED
    BY <2>1 DEF ScalarIndex, ToFloat
<1>7. best \in Nat /\ index \in Nat /\ Founded(best, index) /\ At(pos) \in Nat
  BY <1>1, <1>2 DEF InReduce
<1>8. Gt(At(pos), best) <=> At(pos) > best
  BY <1>7, GtOfNumbers
<1>9. index < pos \/ (index = 0 /\ best = First0)
  BY <1>7, <1>1 DEF Founded
<1>10. Founded(best, index)' /\ best' \in Nat /\ index' \in Nat
  <2>1. CASE At(pos) > best
    <3>1. best' = At(pos) /\ index' = pos
      BY <2>1, <1>2, <1>6, <1>8
    <3>2. At(pos) > First0
      BY <2>1, <1>7, <1>1 DEF Founded
    <3> QED
      BY <3>1, <3>2, <1>1, <1>2, <1>3 DEF Founded
  <2>2. CASE ~(At(pos) > best)
    BY <2>2, <1>1, <1>2, <1>3, <1>7, <1>8 DEF Founded
  <2> QED
    BY <2>1, <2>2
<1>11. ASSUME NEW q \in 0 .. pos
       PROVE  Answers(best', index', q)
  <2>1. At(q) \in Nat
    BY <1>1, <1>2
  <2>2. CASE At(pos) > best
    <3>1. best' = At(pos) /\ index' = pos
      BY <2>2, <1>2, <1>6, <1>8
    <3>2. CASE q = pos
      BY <3>1, <3>2, <1>1 DEF Answers
    <3>3. CASE q \in 0 .. pos - 1
      BY <3>1, <3>3, <2>1, <2>2, <1>5, <1>7 DEF Answers
    <3> QED
      BY <3>2, <3>3, <1>1
  <2>3. CASE ~(At(pos) > best)
    <3>1. best' = best /\ index' = index
      BY <2>3, <1>2, <1>8
    <3>2. CASE q = pos
      BY <3>1, <3>2, <2>3, <1>7, <1>9, <1>1 DEF Answers
    <3>3. CASE q \in 0 .. pos - 1
      BY <3>1, <3>3, <1>5
    <3> QED
      BY <3>2, <3>3, <1>1
  <2> QED
    BY <2>2, <2>3
<1>12. proto'.reduce = "vector" => lane' = proto'.width
  BY <1>2
<1> QED
  BY <1>1, <1>2, <1>3, <1>4, <1>10, <1>11, <1>12 DEF InReduce, Answers

(* With all points consumed the entry that answers for all of them is the  *)
(* first best: the initial one, too, as then nothing is better than the    *)
(* first point or the worst number.                                        *)
LEMMA StoreStep ==
  ASSUME Called, Bounds, Careful, InReduce, Store
  PROVE  IsFirstBest(target)'
<1>1. /\ n \in Nat /\ 1 <= n /\ proto.width \in Nat /\ First0 \in Nat
      /\ \A q \in 0 .. n - 1 : At(q) \in Nat
      /\ Looked = 0 .. n - 1 /\ (proto.capped => n <= Cap)
  BY CallFacts, PointsAreNumbers DEF Careful
<1>2. /\ proto' = proto /\ src' = src /\ pos = n /\ lane = proto.width
      /\ target' = IF proto.capped THEN index % (Cap + 1) ELSE index
  BY DEF Store, LanesOver
<1>3. Looked' = Looked /\ \A q : At(q)' = At(q)
  BY <1>2 DEF Looked, At
<1>4. \A q \in 0 .. n - 1 : Answers(best, index, q)
  <2>1. ~\E l \in Lanes(proto) : l >= lane
    BY <1>1, <1>2 DEF Lanes
  <2> QED
    BY <2>1, <1>2 DEF InReduce
<1>5. best \in Nat /\ index \in Nat /\ Founded(best, index)
  BY DEF InReduce
<1>6. index \in 0 .. n - 1
  BY <1>1, <1>2, <1>5 DEF Founded
<1>7. target' = index
  <2>1. CASE proto.capped
    <3>1. Cap \in Nat /\ index < Cap + 1
      BY <2>1, <1>1, <1>6, ConstantsAssumption
    <3>2. index % (Cap + 1) = index
      BY <3>1, <1>5
    <3> QED
      BY <2>1, <3>2, <1>2
  <2>2. CASE ~proto.capped
    BY <2>2, <1>2
  <2> QED
    BY <2>1, <2>2
<1>8. At(index) = best
  <2>1. CASE best > First0
    BY <2>1, <1>1, <1>5 DEF Founded
  <2>2. CASE best = First0 /\ index = 0
    <3>1. 0 \in 0 .. n - 1 /\ At(0) \in Nat
      BY <1>1
    <3>2. At(0) <= best
      BY <3>1, <1>4, <1>5 DEF Answers
    <3>3. At(0) >= First0
      BY <3>1 DEF First0, Floor, At
    <3> QED
      BY <2>2, <3>1, <3>2, <3>3, <1>5
  <2> QED
    BY <2>1, <2>2, <1>5 DEF Founded
<1>9. ASSUME NEW q \in 0 .. n - 1
      PROVE  At(q) <= At(index) /\ (At(q) = At(index) => index <= q)
  BY <1>1, <1>4, <1>5, <1>8 DEF Answers
<1> QED
  BY <1>1, <1>3, <1>6, <1>7, <1>9 DEF IsFirstBest, IsBest

-----------------------------------------------------------------------------
LEMMA InitInvariant ==
  ASSUME Init
  PROVE  IInv
BY DEF Init, IInv

LEMMA StepInvariant ==
  ASSUME IInv, [Next]_vars
  PROVE  IInv'
<1>1. CASE UNCHANGED vars
  <2>1. Called' <=> Called
    BY <1>1 DEF Called, vars
  <2>2. Bounds' <=> Bounds
    BY <1>1 DEF Bounds, vars
  <2>3. Careful' <=> Careful
    BY <1>1 DEF Careful, Comparable, Counts, TieSafe, vars
  <2>4. InVector' <=> InVector
    BY <1>1 DEF InVector, LaneFounded, Founded, Answers, First0, At, Lanes, vars
  <2>5. InReduce' <=> InReduce
    BY <1>1 DEF InReduce, LaneFounded, Founded, Answers, First0, At, Lanes, vars
  <2>6. IsFirstBest(target)' <=> IsFirstBest(target)
    BY <1>1 DEF IsFirstBest, IsBest, Looked, At, vars
  <2> QED
    BY <1>1, <2>1, <2>2, <2>3, <2>4, <2>5, <2>6 DEF IInv, vars
<1>2. CASE Next
  <2>1. pc' \in {"idle", "vector", "reduce", "done"}
    BY <1>2 DEF IInv, Next, Begin, Block, Pair, Single, VectorsOver, StoreLanes, ReduceLane,
                ReduceAtOnce, LanesOver, TailPoint, Store, Return
  <2>2. pc' # "idle" => Called' /\ Bounds'
    BY <1>2, BoundsStep DEF IInv
  <2>3. ASSUME Careful', pc' # "idle", ~Begin
        PROVE  Careful /\ Called /\ Bounds /\ pc # "idle"
    <3>1. ~Return
      BY <2>3 DEF Return
    <3>2. proto' = proto /\ src' = src /\ n' = n
      BY <1>2, <2>3, <3>1 DEF Next, Block, Pair, Single, StoreLanes, ReduceLane, ReduceAtOnce,
                              TailPoint, Store
    <3>3. pc # "idle"
      BY <1>2, <2>3, <3>1 DEF Next, Block, Pair, Single, VectorsOver, StoreLanes, ReduceLane,
                              ReduceAtOnce, LanesOver, TailPoint, Store
    <3> QED
      BY <2>3, <3>2, <3>3 DEF IInv, Careful, Comparable, Counts, TieSafe
  <2>4. ASSUME Careful', pc' = "vector"
        PROVE  InVector'
    <3>1. CASE Begin
      BY <2>2, <2>4, <3>1, BeginStep
    <3>2. CASE ~Begin
      <4>1. Careful /\ Called /\ Bounds /\ pc = "vector"
        BY <1>2, <2>3, <2>4, <3>2 DEF Next, Block, Pair, Single, StoreLanes, ReduceLane,
                              ReduceAtOnce, LanesOver, TailPoint, Store, Return
      <4>2. ~proto.pairs
        BY <4>1, CallFacts DEF ProtoKernel, Careful, TieSafe
      <4>3. Block
        BY <1>2, <2>4, <3>2, <4>1, <4>2 DEF Next, Pair, Single, StoreLanes, ReduceLane,
                              ReduceAtOnce, LanesOver, TailPoint, Store, Return
      <4> QED
        BY <4>1, <4>3, BlockStep DEF IInv
    <3> QED
      BY <3>1, <3>2
  <2>5. ASSUME Careful', pc' = "reduce"
        PROVE  InReduce'
    <3>1. ~Begin
      BY <2>5 DEF Begin
    <3>2. Careful /\ Called /\ Bounds
      BY <2>3, <2>5, <3>1
    <3>3. CASE StoreLanes
      BY <3>2, <3>3, StoreLanesStep DEF IInv, StoreLanes, VectorsOver
    <3>4. CASE ReduceAtOnce
      BY <3>2, <3>4, ReduceAtOnceStep DEF IInv, ReduceAtOnce, VectorsOver
    <3>5. CASE ReduceLane
      BY <3>2, <3>5, ReduceLaneStep DEF IInv, ReduceLane
    <3>6. CASE TailPoint
      BY <3>2, <3>6, TailPointStep DEF IInv, TailPoint, LanesOver
    <3>7. ~(Block \/ Pair \/ Single \/ Store \/ Return)
      BY <2>5 DEF Block, Pair, Single, Store, Return
    <3> QED
      BY <1>2, <3>1, <3>3, <3>4, <3>5, <3>6, <3>7 DEF Next
  <2>6. ASSUME Careful', pc' = "done"
        PROVE  IsFirstBest(target)'
    <3>1. Store
      BY <1>2, <2>6 DEF Next, Begin, Block, Pair, Single, VectorsOver, StoreLanes, ReduceLane,
                        ReduceAtOnce, LanesOver, TailPoint, Return
    <3>2. Careful /\ Called /\ Bounds
      BY <2>3, <2>6, <3>1 DEF Store, LanesOver, Begin
    <3> QED
      BY <3>1, <3>2, StoreStep DEF IInv, Store, LanesOver
  <2> QED
    BY <2>1, <2>2, <2>4, <2>5, <2>6 DEF IInv
<1> QED
  BY <1>1, <1>2

(* The invariant of every run of every index kernel.                       *)
THEOREM IndexInvariantHolds == Spec => []IInv
<1>1. Init => IInv
  BY InitInvariant
<1>2. IInv /\ [Next]_vars => IInv'
  BY StepInvariant
<1> QED
  BY <1>1, <1>2, PTL DEF Spec

(* Every index kernel whose reduction minds equal values returns the first *)
(* of the best values, whatever its width, its order of lanes and the      *)
(* length of its input, as long as its indices can be counted in floats.   *)
THEOREM FirstBestHolds == Spec => []FirstBest
<1>1. IInv => FirstBest
  BY DEF IInv, FirstBest, Careful
<1> QED
  BY <1>1, IndexInvariantHolds, PTL

-----------------------------------------------------------------------------
(***************************************************************************)
(* Types.  With the bounds of the loops the type invariant is inductive.   *)
(***************************************************************************)

(* Every point is a number or NaN.                                         *)
LEMMA PointsAreValues ==
  ASSUME Called, Bounds
  PROVE  /\ \A q \in 0 .. n - 1 : At(q) \in Nat \cup {NaN}
         /\ First0 \in Nat \cup {NaN}
<1>1. src \in Seq(Nat \cup {NaN}) /\ n \in Nat /\ n <= Len(src) /\ Len(src) \in Nat /\ Len(src) >= 1
  BY CallFacts
<1>2. \A i \in 1 .. Len(src) : src[i] \in Nat \cup {NaN}
  BY <1>1
<1>3. \A q \in 0 .. n - 1 : At(q) \in Nat \cup {NaN}
  BY <1>1, <1>2 DEF At
<1> QED
  BY <1>1, <1>2, <1>3 DEF First0, Floor

LEMMA ToFloatType ==
  ASSUME NEW i \in Nat
  PROVE  ToFloat(i) \in Nat
BY ConstantsAssumption DEF ToFloat

(* What a lane keeps is one of the values or NaN, and one of the indices   *)
(* or 0.                                                                   *)
LEMMA KeptTypes ==
  ASSUME NEW v, NEW old, NEW i, NEW j
  PROVE  /\ Kept(v, old) \in {v, old, NaN}
         /\ KeptIndex(i, v, old, j) \in {i, j, 0}
BY DEF Kept, KeptIndex

LEMMA TypesStep ==
  ASSUME TypeOK, pc # "idle" => Called /\ Bounds, [Next]_vars
  PROVE  TypeOK'
<1>1. CASE Begin
  <2>1. PICK c \in Calls :
          /\ proto' = c.proto /\ src' = c.src /\ n' = Points(c)
          /\ cur' = [l \in Lanes(c.proto) |-> c.proto.order[l]]
          /\ val' = [l \in Lanes(c.proto) |-> Start(c)]
          /\ idx' = [l \in Lanes(c.proto) |-> IF c.proto.ramp THEN l ELSE 0]
          /\ best' = Start(c)
    BY <1>1 DEF Begin
  <2>2. pc' = "vector" /\ pos' = 0 /\ lane' = 0 /\ index' = 0 /\ target' = NoTarget
    BY <1>1 DEF Begin
  <2>3. ProtoKernel(c.proto) /\ c.src \in Seq(Nat \cup {NaN}) /\ c.src # <<>>
    BY CallsAssumption
  <2>4. Len(c.src) \in Nat /\ Start(c) \in Nat \cup {NaN}
    BY <2>3 DEF Start, Floor
  <2>5. Points(c) \in 0 .. Len(c.src)
    BY <2>4, ConstantsAssumption DEF Points
  <2>6. \A l \in Lanes(c.proto) : l \in Nat /\ c.proto.order[l] \in Nat /\ c.proto.width \in Nat
    <3> TAKE l \in Lanes(c.proto)
    <3>1. c.proto.order[l] \in Lanes(c.proto) /\ c.proto.width \in Nat
      BY <2>3 DEF ProtoKernel
    <3> QED
      BY <3>1 DEF Lanes
  <2>7. Lanes(proto') = Lanes(c.proto) /\ proto'.width = c.proto.width
    BY <2>1
  <2>8. 0 \in 0 .. proto'.width
    BY <2>1, <2>3 DEF ProtoKernel
  <2>9. \A l \in Lanes(proto') : val'[l] \in Nat \cup {NaN} /\ idx'[l] \in Nat /\ cur'[l] \in Nat
    BY <2>1, <2>4, <2>6
  <2>10. DOMAIN val' = Lanes(proto') /\ DOMAIN idx' = Lanes(proto') /\ DOMAIN cur' = Lanes(proto')
    BY <2>1, <2>7
  <2>11. n' \in 0 .. Len(src') /\ pos' \in 0 .. n' /\ best' \in Nat \cup {NaN}
    BY <2>1, <2>2, <2>4, <2>5
  <2> QED
    BY <2>2, <2>8, <2>9, <2>10, <2>11 DEF TypeOK, NoTarget
<1>2. CASE Return
  BY <1>2 DEF Return, TypeOK, Lanes, Floor, NoTarget
<1>3. CASE UNCHANGED vars
  BY <1>3 DEF TypeOK, Lanes, vars
<1>4. ASSUME Next, ~Begin, ~Return
      PROVE  TypeOK'
  <2>1. pc # "idle"
    BY <1>4 DEF Next, Block, Pair, Single, VectorsOver, StoreLanes, ReduceLane, ReduceAtOnce,
                LanesOver, TailPoint, Store
  <2>2. proto' = proto /\ src' = src /\ n' = n
    BY <1>4 DEF Next, Block, Pair, Single, StoreLanes, ReduceLane, ReduceAtOnce, TailPoint, Store
  <2>3. Lanes(proto') = Lanes(proto)
    BY <2>2
  <2>4. /\ ProtoKernel(proto)
        /\ n \in Nat /\ 1 <= n /\ proto.width \in Nat /\ pos \in Nat /\ pos <= n
        /\ lane \in Nat /\ lane <= proto.width /\ Len(src) \in Nat
        /\ \A q \in 0 .. n - 1 : At(q) \in Nat \cup {NaN}
    BY <2>1, CallFacts, PointsAreValues
  <2>5. pc' # "idle"
    BY <1>4, <2>1 DEF Next, Block, Pair, Single, StoreLanes, ReduceLane, ReduceAtOnce, TailPoint, Store
  <2>6. Bounds'
    BY <1>4, <2>1, <2>5, BoundsStep
  <2>7. pos' \in 0 .. n' /\ lane' \in 0 .. proto'.width /\ n' \in 0 .. Len(src')
    BY <2>2, <2>4, <2>6, CallFacts DEF Bounds, TypeOK
  <2>8. \A l \in Lanes(proto) : val[l] \in Nat \cup {NaN} /\ idx[l] \in Nat /\ cur[l] \in Nat /\ l \in Nat
    BY <2>4 DEF TypeOK, Lanes
  <2>9. CASE Block
    <3>1. /\ val' = [l \in Lanes(proto) |->
               IF Loaded(l) THEN Kept(At(pos + proto.order[l]), val[l]) ELSE val[l]]
          /\ idx' = [l \in Lanes(proto) |->
               IF Loaded(l) THEN KeptIndex(cur[l], At(pos + proto.order[l]), val[l], idx[l])
               ELSE idx[l]]
          /\ cur' = [l \in Lanes(proto) |-> LaneIndex(cur[l] + Step)]
          /\ pc' = "vector" /\ best' = best /\ index' = index /\ target' = target
      BY <2>9 DEF Block
    <3>2. Step \in Nat
      BY <2>9, <2>4 DEF Step, Block, MoreVectors
    <3>3. \A l \in Lanes(proto) : val'[l] \in Nat \cup {NaN} /\ idx'[l] \in Nat
      <4> TAKE l \in Lanes(proto)
      <4>0. proto.order[l] \in Lanes(proto)
        BY <2>4 DEF ProtoKernel
      <4>1. proto.order[l] \in Nat
        BY <4>0, <2>4 DEF Lanes
      <4>2. Loaded(l) => At(pos + proto.order[l]) \in Nat \cup {NaN}
        BY <4>1, <2>4 DEF Loaded
      <4> QED
        BY <3>1, <4>2, <2>8, KeptTypes
    <3>4. \A l \in Lanes(proto) : cur'[l] \in Nat
      <4> TAKE l \in Lanes(proto)
      <4>1. cur[l] + Step \in Nat
        BY <2>8, <3>2
      <4>2. LaneIndex(cur[l] + Step) \in Nat
        BY <4>1, ToFloatType DEF LaneIndex
      <4> QED
        BY <3>1, <4>2
    <3> QED
      BY <3>1, <3>3, <3>4, <2>3, <2>7 DEF TypeOK
  <2>10. CASE Pair
    <3>1. /\ val' = [l \in Lanes(proto) |-> Kept(At(pos + (l % 2)), val[l])]
          /\ idx' = [l \in Lanes(proto) |-> KeptIndex(cur[l % 2], At(pos + (l % 2)), val[l], idx[l])]
          /\ cur' = [l \in Lanes(proto) |-> cur[l % 2] + 2]
          /\ pc' = "vector" /\ best' = best /\ index' = index /\ target' = target
          /\ n - pos >= 2 /\ proto.pairs /\ pc = "vector"
      BY <2>10 DEF Pair
    <3>2. ASSUME NEW l \in Lanes(proto)
          PROVE  val'[l] \in Nat \cup {NaN} /\ idx'[l] \in Nat /\ cur'[l] \in Nat
      <4>0. proto.width > 1
        BY <3>1, <2>4 DEF ProtoKernel
      <4>1. l % 2 \in 0 .. 1
        BY <2>8
      <4>2. l % 2 \in Lanes(proto)
        BY <4>0, <4>1, <2>4 DEF Lanes
      <4>3. At(pos + (l % 2)) \in Nat \cup {NaN}
        BY <4>1, <3>1, <2>4
      <4> QED
        BY <3>1, <4>2, <4>3, <2>8, KeptTypes
    <3> QED
      BY <3>1, <3>2, <2>3, <2>7 DEF TypeOK
  <2>11. CASE Single
    <3>1. /\ val' = [val EXCEPT ![0] = IF At(pos) = NaN THEN NaN ELSE Kept(At(pos), @)]
          /\ idx' = [idx EXCEPT ![0] = IF At(pos) = NaN THEN 0 ELSE IF Gt(At(pos), val[0]) THEN cur[0] ELSE @]
          /\ pc' = "vector" /\ best' = best /\ index' = index /\ target' = target /\ cur' = cur
          /\ n - pos = 1 /\ proto.pairs /\ pc = "vector"
      BY <2>11 DEF Single
    <3>2. 0 \in Lanes(proto) /\ At(pos) \in Nat \cup {NaN}
      BY <3>1, <2>4 DEF Lanes, ProtoKernel
    <3>3. Kept(At(pos), val[0]) \in Nat \cup {NaN}
      BY <3>2, <2>8, KeptTypes
    <3>4. ASSUME NEW l \in Lanes(proto)
          PROVE  val'[l] \in Nat \cup {NaN} /\ idx'[l] \in Nat
      <4>1. l = 0 => val'[l] \in {NaN, Kept(At(pos), val[0])} /\ idx'[l] \in {0, cur[0], idx[0]}
        BY <3>1, <3>2 DEF TypeOK
      <4>2. l # 0 => val'[l] = val[l] /\ idx'[l] = idx[l]
        BY <3>1 DEF TypeOK
      <4> QED
        BY <4>1, <4>2, <3>2, <3>3, <2>8
    <3>5. DOMAIN val' = DOMAIN val /\ DOMAIN idx' = DOMAIN idx
      BY <3>1
    <3> QED
      BY <3>1, <3>4, <3>5, <2>3, <2>7, <2>8 DEF TypeOK
  <2>12. CASE StoreLanes
    <3>1. proto.reduce = "lane0" => 0 \in Lanes(proto)
      BY <2>4 DEF ProtoKernel, Lanes
    <3> QED
      BY <3>1, <2>12, <2>3, <2>7, <2>8 DEF StoreLanes, TypeOK
  <2>13. CASE ReduceLane
    <3>1. lane \in Lanes(proto)
      BY <2>13, <2>4 DEF ReduceLane, Lanes
    <3>2. best' \in {best, val[lane]} /\ index' \in {index, idx[lane]} /\ pc' = pc
      BY <2>13 DEF ReduceLane
    <3> QED
      BY <3>1, <3>2, <2>13, <2>3, <2>7, <2>8 DEF ReduceLane, TypeOK
  <2>14. CASE ReduceAtOnce
    <3>1. PICK l \in Lanes(proto) :
            /\ best' = val[l]
            /\ \/ Equals(val[l]) = {} /\ index' = AllOnes
               \/ \E i \in Equals(val[l]) : index' = i
      BY <2>14 DEF ReduceAtOnce
    <3>2. Equals(val[l]) \subseteq Nat
      BY <2>8 DEF Equals
    <3> QED
      BY <3>1, <3>2, <2>14, <2>3, <2>7, <2>8 DEF ReduceAtOnce, TypeOK
  <2>15. CASE TailPoint
    <3>1. ScalarIndex(pos) \in Nat
      BY <2>4, ToFloatType DEF ScalarIndex
    <3>2. At(pos) \in Nat \cup {NaN}
      BY <2>15, <2>4 DEF TailPoint
    <3>3. best' \in {best, At(pos)} /\ index' \in {index, ScalarIndex(pos)}
      BY <2>15 DEF TailPoint
    <3> QED
      BY <3>1, <3>2, <3>3, <2>15, <2>3, <2>7, <2>8 DEF TailPoint, LanesOver, TypeOK
  <2>16. CASE Store
    <3>1. index \in Int /\ Cap + 1 \in Nat /\ Cap + 1 > 0
      BY ConstantsAssumption DEF TypeOK, AllOnes
    <3>2. index % (Cap + 1) \in Int
      BY <3>1
    <3> QED
      BY <3>1, <3>2, <2>16, <2>3, <2>7, <2>8 DEF Store, TypeOK
  <2> QED
    BY <1>4, <2>9, <2>10, <2>11, <2>12, <2>13, <2>14, <2>15, <2>16 DEF Next
<1> QED
  BY <1>1, <1>2, <1>3, <1>4

(* The variables have their types, and every index is that of a lane or a  *)
(* point, whatever the input.                                              *)
THEOREM IndexTypes == Spec => []TypeOK
<1>1. Init => TypeOK
  BY DEF Init, TypeOK, Lanes, Floor, NoTarget
<1>2. IInv /\ TypeOK /\ [Next]_vars => TypeOK'
  BY TypesStep DEF IInv
<1> QED
  BY <1>1, <1>2, IndexInvariantHolds, PTL DEF Spec

-----------------------------------------------------------------------------
(***************************************************************************)
(* The index is that of a point, also with NaNs among the values.  The     *)
(* index of every lane is; only a lane of a scan that no point has reached *)
(* may have a larger one, and then it holds the value the reduction starts *)
(* from, which the reduction does not take.                                *)
(***************************************************************************)
Ranged == Counts /\ (proto.reduce = "vector" /\ proto.maxNaN => Comparable(src))

(* The index of a lane that is used next is that of the point it loads.    *)
CurRight ==
  \A l \in Lanes(proto) :
    /\ MoreVectors \/ (proto.pairs /\ l < 2)
    /\ pos + proto.order[l] < n
    => cur[l] = pos + proto.order[l]

LaneInRange(l) == idx[l] < n \/ (proto.ramp /\ val[l] = First0 /\ idx[l] = l)

RangeInVector ==
  /\ best = First0 /\ index = 0
  /\ CurRight
  /\ \A l \in Lanes(proto) : LaneInRange(l)
  /\ \A l \in Lanes(proto) : proto.reduce = "vector" => val[l] # NaN

RangeInReduce ==
  /\ index \in 0 .. n - 1
  /\ proto.ramp => (best = First0 /\ index = 0) \/ Gt(best, First0)
  /\ \A l \in Lanes(proto) : LaneInRange(l)

RangeInv ==
  pc # "idle" /\ Ranged =>
    /\ pc = "vector" => RangeInVector
    /\ pc = "reduce" => RangeInReduce
    /\ pc = "done" => target \in Looked

(* What the types say of a call in progress, lane by lane.                 *)
LEMMA LaneFacts ==
  ASSUME Called, Bounds, TypeOK
  PROVE  /\ \A l \in Lanes(proto) :
              /\ l \in Nat /\ l < proto.width
              /\ val[l] \in Nat \cup {NaN} /\ idx[l] \in Nat /\ cur[l] \in Nat
              /\ proto.order[l] \in Nat /\ proto.order[l] < proto.width
         /\ proto.width > 0 => 0 \in Lanes(proto)
         /\ proto.pairs => 1 \in Lanes(proto)
<1>1. ProtoKernel(proto) /\ proto.width \in Nat
  BY CallFacts
<1>2. \A l \in Lanes(proto) : proto.order[l] \in Lanes(proto)
  BY <1>1 DEF ProtoKernel
<1>3. \A l \in Lanes(proto) : l \in Nat /\ l < proto.width
  BY <1>1 DEF Lanes
<1>4. proto.pairs => proto.width > 1
  BY <1>1 DEF ProtoKernel
<1>5. (proto.width > 0 => 0 \in Lanes(proto)) /\ (proto.pairs => 1 \in Lanes(proto))
  BY <1>1, <1>4 DEF Lanes
<1> QED
  BY <1>2, <1>3, <1>5 DEF TypeOK

(* The steps of the loops that take a vector, by what they leave alone.    *)
LEMMA BlockFacts ==
  ASSUME Called, Bounds, TypeOK, Block
  PROVE  /\ Step \in Nat /\ Step >= 1 /\ Step <= proto.width /\ pos + Step <= n /\ pos' = pos + Step
         /\ Step = proto.width \/ pos + Step = n
<1>1. n \in Nat /\ proto.width \in Nat /\ pos \in Nat /\ pos <= n /\ pos' = pos + Step /\ MoreVectors
  BY CallFacts DEF Block
<1> QED
  BY <1>1 DEF Step, MoreVectors

(* The lanes count on right, as long as their indices are counted.         *)
LEMMA CurStep ==
  ASSUME Called, Bounds, TypeOK, Counts, CurRight, Block \/ Pair \/ Single
  PROVE  CurRight'
<1>1. /\ ProtoKernel(proto)
      /\ n \in Nat /\ proto.width \in Nat /\ pos \in Nat /\ pos <= n
  BY CallFacts
<1>2. /\ proto' = proto /\ n' = n
      /\ Lanes(proto') = Lanes(proto)
  BY DEF Block, Pair, Single
<1>3. CASE Block
  <2>1. ASSUME NEW l \in Lanes(proto), pos' + proto.order[l] < n
        PROVE  cur'[l] = pos' + proto.order[l]
    <3>1. proto.order[l] \in Nat /\ Step \in Nat /\ Step >= 1 /\ pos' = pos + Step
      BY <1>3, LaneFacts, BlockFacts
    <3>2. cur[l] = pos + proto.order[l]
      BY <3>1, <2>1, <1>1, <1>3 DEF CurRight, Block
    <3>3. cur[l] + Step = pos' + proto.order[l] /\ cur[l] + Step \in Nat
      BY <3>1, <3>2, <1>1
    <3>4. proto.laneFloat => cur[l] + Step <= Exact
      BY <3>3, <2>1, <1>1, ConstantsAssumption DEF Counts
    <3>5. LaneIndex(cur[l] + Step) = cur[l] + Step
      BY <3>4 DEF LaneIndex, ToFloat
    <3>6. cur'[l] = LaneIndex(cur[l] + Step)
      BY <1>3 DEF Block
    <3> QED
      BY <3>3, <3>5, <3>6
  <2> QED
    BY <2>1, <1>2 DEF CurRight
<1>4. CASE Pair
  <2>1. /\ proto.pairs /\ ~MoreVectors /\ n - pos >= 2 /\ pos' = pos + 2
        /\ cur' = [l \in Lanes(proto) |-> cur[l % 2] + 2]
    BY <1>4 DEF Pair
  <2>2. ~MoreVectors'
    BY <2>1, <1>1, <1>2 DEF MoreVectors
  <2>3. 0 \in Lanes(proto) /\ 1 \in Lanes(proto) /\ proto.order[0] = 0 /\ proto.order[1] = 1
    BY <2>1, <1>1, LaneFacts DEF ProtoKernel
  <2>4. cur[0] = pos /\ cur[1] = pos + 1
    BY <2>1, <2>3, <1>1 DEF CurRight
  <2>5. cur'[0] = pos' + proto.order[0] /\ cur'[1] = pos' + proto.order[1]
    BY <2>1, <2>3, <2>4, <1>1
  <2>6. ASSUME NEW l \in Lanes(proto), l < 2
        PROVE  l = 0 \/ l = 1
    BY <2>6, <1>1 DEF Lanes
  <2> QED
    BY <2>2, <2>5, <2>6, <1>2 DEF CurRight
<1>5. CASE Single
  <2>1. pos' = n /\ ~MoreVectors /\ cur' = cur /\ n - pos = 1
    BY <1>5 DEF Single
  <2>2. ~MoreVectors'
    BY <2>1, <1>1, <1>2 DEF MoreVectors
  <2>3. \A l \in Lanes(proto) : ~(pos' + proto.order[l] < n)
    BY <2>1, <1>1, LaneFacts
  <2> QED
    BY <2>2, <2>3, <1>2 DEF CurRight
<1> QED
  BY <1>3, <1>4, <1>5

LEMMA RangeBegin ==
  ASSUME Begin, Called', Bounds'
  PROVE  CurRight' /\ (Ranged' => RangeInVector')
<1>1. PICK c \in Calls :
        /\ proto' = c.proto /\ src' = c.src /\ n' = Points(c)
        /\ cur' = [l \in Lanes(c.proto) |-> c.proto.order[l]]
        /\ val' = [l \in Lanes(c.proto) |-> Start(c)]
        /\ idx' = [l \in Lanes(c.proto) |-> IF c.proto.ramp THEN l ELSE 0]
        /\ best' = Start(c)
  BY DEF Begin
<1>2. pos' = 0 /\ index' = 0
  BY DEF Begin
<1>3. ProtoKernel(c.proto) /\ c.src \in Seq(Nat \cup {NaN}) /\ c.src # <<>>
  BY CallsAssumption
<1>4. Points(c) \in Nat /\ 1 <= Points(c)
  <2>1. Len(c.src) \in Nat /\ 1 <= Len(c.src)
    BY <1>3
  <2> QED
    BY <2>1, ConstantsAssumption DEF Points
<1>5. Lanes(proto') = Lanes(c.proto) /\ First0' = Start(c)
  BY <1>1 DEF First0, Start
<1>6. \A l \in Lanes(c.proto) : c.proto.order[l] \in Nat
  <2>1. \A l \in Lanes(c.proto) : c.proto.order[l] \in Lanes(c.proto)
    BY <1>3 DEF ProtoKernel
  <2> QED
    BY <2>1, <1>3 DEF Lanes, ProtoKernel
<1>7. CurRight'
  BY <1>1, <1>2, <1>5, <1>6 DEF CurRight
<1>8. \A l \in Lanes(proto') : LaneInRange(l)'
  BY <1>1, <1>4, <1>5 DEF LaneInRange
<1>9. \A l \in Lanes(proto') : proto'.reduce = "vector" => val'[l] # NaN
  BY <1>1, <1>3, <1>5 DEF Start, Floor, NaN, ProtoKernel
<1> QED
  BY <1>1, <1>2, <1>5, <1>7, <1>8, <1>9 DEF RangeInVector

LEMMA RangeBlock ==
  ASSUME Called, Bounds, TypeOK, Ranged, RangeInVector, Block \/ Pair \/ Single
  PROVE  RangeInVector'
<1>1. /\ ProtoKernel(proto)
      /\ n \in Nat /\ 1 <= n /\ proto.width \in Nat /\ pos \in Nat /\ pos <= n
      /\ \A q \in 0 .. n - 1 : At(q) \in Nat \cup {NaN}
  BY CallFacts, PointsAreValues
<1>2. /\ proto' = proto /\ n' = n /\ src' = src /\ best' = best /\ index' = index
      /\ Lanes(proto') = Lanes(proto) /\ First0' = First0
  BY DEF Block, Pair, Single, First0
<1>3. CurRight'
  BY CurStep DEF Ranged, RangeInVector
<1>4. \A l \in Lanes(proto) :
        /\ l \in Nat /\ l < proto.width
        /\ val[l] \in Nat \cup {NaN} /\ idx[l] \in Nat /\ cur[l] \in Nat
        /\ proto.order[l] \in Nat /\ proto.order[l] < proto.width
        /\ LaneInRange(l)
        /\ proto.reduce = "vector" => val[l] # NaN
  BY LaneFacts DEF RangeInVector
<1>5. ASSUME NEW v \in Nat \cup {NaN}, NEW old, old # NaN, proto.reduce = "vector",
             proto.maxNaN => v # NaN
      PROVE  Kept(v, old) # NaN
  BY <1>5 DEF Kept, Better, Gt
<1>6. CASE Block
  <2>1. /\ val' = [l \in Lanes(proto) |->
               IF Loaded(l) THEN Kept(At(pos + proto.order[l]), val[l]) ELSE val[l]]
        /\ idx' = [l \in Lanes(proto) |->
               IF Loaded(l) THEN KeptIndex(cur[l], At(pos + proto.order[l]), val[l], idx[l])
               ELSE idx[l]]
        /\ MoreVectors
    BY <1>6 DEF Block
  <2>2. ASSUME NEW l \in Lanes(proto)
        PROVE  /\ LaneInRange(l)'
               /\ proto.reduce = "vector" => val'[l] # NaN
    <3> DEFINE q == pos + proto.order[l]
    <3>1. CASE ~Loaded(l)
      <4>1. val'[l] = val[l] /\ idx'[l] = idx[l]
        BY <2>1, <3>1
      <4> QED
        BY <4>1, <1>2, <1>4 DEF LaneInRange
    <3>2. CASE Loaded(l)
      <4>0. q \in 0 .. n - 1 /\ q \in Nat
        BY <3>2, <1>1, <1>4 DEF Loaded
      <4>1. cur[l] = q /\ At(q) \in Nat \cup {NaN}
        BY <4>0, <2>1, <1>1 DEF RangeInVector, CurRight
      <4>2. val'[l] = Kept(At(q), val[l]) /\ idx'[l] \in {cur[l], idx[l], 0}
        BY <2>1, <3>2, KeptTypes
      <4>3. idx[l] < n
        <5>1. CASE idx[l] = l /\ proto.ramp
          <6>1. proto.order[l] = l
            BY <5>1, <1>1 DEF ProtoKernel
          <6> QED
            BY <6>1, <5>1, <4>0, <1>1, <1>4
        <5> QED
          BY <5>1, <1>4 DEF LaneInRange
      <4>4. idx'[l] < n
        BY <4>0, <4>1, <4>2, <4>3, <1>1
      <4>5. proto.reduce = "vector" /\ proto.maxNaN => At(q) # NaN
        <5>1. src \in Seq(Nat \cup {NaN}) /\ n <= Len(src)
          BY CallFacts
        <5>2. q + 1 \in DOMAIN src
          BY <5>1, <4>0, <1>1
        <5> QED
          BY <5>2 DEF Ranged, Comparable, At
      <4>6. proto.reduce = "vector" => val'[l] # NaN
        BY <4>1, <4>2, <4>5, <1>4, <1>5
      <4> QED
        BY <4>4, <4>6, <1>2 DEF LaneInRange
    <3> QED
      BY <3>1, <3>2
  <2> QED
    BY <2>2, <1>2, <1>3 DEF RangeInVector
<1>7. CASE Pair
  <2>1. /\ proto.pairs /\ n - pos >= 2
        /\ idx' = [l \in Lanes(proto) |-> KeptIndex(cur[l % 2], At(pos + (l % 2)), val[l], idx[l])]
    BY <1>7 DEF Pair
  <2>2. /\ 0 \in Lanes(proto) /\ 1 \in Lanes(proto) /\ proto.order[0] = 0 /\ proto.order[1] = 1
        /\ ~proto.ramp /\ proto.reduce # "vector"
    BY <2>1, <1>1, LaneFacts DEF ProtoKernel
  <2>3. cur[0] = pos /\ cur[1] = pos + 1
    BY <2>1, <2>2, <1>1 DEF CurRight, RangeInVector
  <2>4. ASSUME NEW l \in Lanes(proto)
        PROVE  idx'[l] < n
    <3>1. idx'[l] \in {cur[l % 2], idx[l], 0}
      BY <2>1, KeptTypes
    <3>2. l % 2 = 0 \/ l % 2 = 1
      BY <1>4
    <3>3. cur[l % 2] < n
      BY <2>1, <2>3, <3>2, <1>1
    <3>4. idx[l] < n
      BY <2>2, <1>4 DEF LaneInRange
    <3> QED
      BY <3>1, <3>3, <3>4, <1>1
  <2> QED
    BY <2>2, <2>4, <1>2, <1>3 DEF RangeInVector, LaneInRange
<1>8. CASE Single
  <2>1. /\ proto.pairs /\ n - pos = 1
        /\ idx' = [idx EXCEPT ![0] = IF At(pos) = NaN THEN 0 ELSE IF Gt(At(pos), val[0]) THEN cur[0] ELSE @]
    BY <1>8 DEF Single
  <2>2. /\ 0 \in Lanes(proto) /\ proto.order[0] = 0
        /\ ~proto.ramp /\ proto.reduce # "vector"
    BY <2>1, <1>1, LaneFacts DEF ProtoKernel
  <2>3. cur[0] = pos
    BY <2>1, <2>2, <1>1 DEF CurRight, RangeInVector
  <2>4. ASSUME NEW l \in Lanes(proto)
        PROVE  idx'[l] < n
    <3>1. idx'[l] \in {0, cur[0], idx[l]}
      BY <2>1 DEF TypeOK
    <3>2. idx[l] < n
      BY <2>2, <1>4 DEF LaneInRange
    <3> QED
      BY <2>1, <2>3, <3>1, <3>2, <1>1
  <2> QED
    BY <2>2, <2>4, <1>2, <1>3 DEF RangeInVector, LaneInRange
<1> QED
  BY <1>6, <1>7, <1>8

(* The reduction: a lane that no point has reached is equal to the value   *)
(* the reduction starts from, and is not taken.                            *)
LEMMA RangeStore ==
  ASSUME Called, Bounds, TypeOK, Ranged, RangeInVector, StoreLanes \/ ReduceAtOnce
  PROVE  RangeInReduce'
<1>1. /\ ProtoKernel(proto)
      /\ n \in Nat /\ 1 <= n /\ proto.width \in Nat
  BY CallFacts
<1>2. /\ proto' = proto /\ n' = n /\ src' = src /\ val' = val /\ idx' = idx
      /\ Lanes(proto') = Lanes(proto) /\ First0' = First0
  BY DEF StoreLanes, ReduceAtOnce, First0
<1>3. \A l \in Lanes(proto) : LaneInRange(l)' /\ (~proto.ramp => idx[l] \in 0 .. n - 1)
  BY <1>1, <1>2, LaneFacts DEF RangeInVector, LaneInRange
<1>4. CASE StoreLanes
  <2>1. CASE proto.reduce = "lane0"
    <3>1. index' = idx[0] /\ ~proto.ramp /\ 0 \in Lanes(proto)
      BY <2>1, <1>4, <1>1, LaneFacts DEF StoreLanes, ProtoKernel
    <3> QED
      BY <3>1, <1>2, <1>3 DEF RangeInReduce
  <2>2. CASE proto.reduce # "lane0"
    <3>1. index' = 0 /\ best' = First0
      BY <2>2, <1>4 DEF StoreLanes, RangeInVector
    <3> QED
      BY <3>1, <1>1, <1>2, <1>3 DEF RangeInReduce
  <2> QED
    BY <2>1, <2>2
<1>5. CASE ReduceAtOnce
  <2>1. PICK l \in Lanes(proto) :
          /\ best' = val[l]
          /\ \/ Equals(val[l]) = {} /\ index' = AllOnes
             \/ \E i \in Equals(val[l]) : index' = i
    BY <1>5 DEF ReduceAtOnce
  <2>2. proto.reduce = "vector" /\ ~proto.ramp
    BY <1>5, <1>1 DEF ReduceAtOnce, ProtoKernel
  <2>3. Eq(val[l], val[l])
    BY <2>2 DEF Eq, RangeInVector
  <2>4. idx[l] \in Equals(val[l])
    BY <2>3 DEF Equals
  <2>5. \A i \in Equals(val[l]) : i \in 0 .. n - 1
    BY <2>2, <1>3 DEF Equals
  <2> QED
    BY <2>1, <2>2, <2>4, <2>5, <1>2, <1>3 DEF RangeInReduce
<1> QED
  BY <1>4, <1>5

LEMMA RangeReduceLane ==
  ASSUME Called, Bounds, TypeOK, Ranged, RangeInReduce, ReduceLane
  PROVE  RangeInReduce'
<1>1. /\ n \in Nat /\ 1 <= n /\ proto.width \in Nat /\ lane \in Nat
      /\ First0 \in Nat \cup {NaN} /\ best \in Nat \cup {NaN}
  BY CallFacts, PointsAreValues DEF TypeOK
<1>2. /\ proto' = proto /\ n' = n /\ src' = src /\ val' = val /\ idx' = idx
      /\ Lanes(proto') = Lanes(proto) /\ First0' = First0 /\ lane < proto.width
      /\ IF Gt(val[lane], best) THEN best' = val[lane] /\ index' = idx[lane]
         ELSE best' = best /\ index' = IF SmallerIndex(lane) THEN idx[lane] ELSE index
  BY DEF ReduceLane, First0
<1>3. lane \in Lanes(proto)
  BY <1>1, <1>2 DEF Lanes
<1>4. val[lane] \in Nat \cup {NaN} /\ idx[lane] \in Nat /\ LaneInRange(lane)
  BY <1>3, LaneFacts DEF RangeInReduce
<1>5. \A l \in Lanes(proto) : LaneInRange(l)'
  BY <1>2 DEF RangeInReduce, LaneInRange
<1>6. index \in 0 .. n - 1 /\ (proto.ramp => (best = First0 /\ index = 0) \/ Gt(best, First0))
  BY DEF RangeInReduce
<1>7. CASE Gt(val[lane], best)
  <2>1. val[lane] > best /\ val[lane] # NaN /\ best # NaN
    BY <1>7 DEF Gt
  <2>2. proto.ramp => Gt(val[lane], First0)
    BY <2>1, <1>1, <1>4, <1>6 DEF Gt, NaN
  <2>3. proto.ramp => val[lane] # First0
    BY <2>2, <1>4, <1>1 DEF Gt, NaN
  <2>4. idx[lane] \in 0 .. n - 1
    BY <2>3, <1>1, <1>4 DEF LaneInRange
  <2> QED
    BY <2>2, <2>4, <1>2, <1>5, <1>7 DEF RangeInReduce
<1>8. CASE ~Gt(val[lane], best)
  <2>1. CASE ~SmallerIndex(lane)
    BY <2>1, <1>2, <1>5, <1>6, <1>8 DEF RangeInReduce
  <2>2. CASE SmallerIndex(lane)
    <3>1. val[lane] = best /\ idx[lane] < index
      BY <2>2 DEF SmallerIndex, Eq
    <3>2. idx[lane] \in 0 .. n - 1
      BY <3>1, <1>1, <1>4, <1>6
    <3>3. proto.ramp => Gt(best, First0)
      BY <3>1, <1>4, <1>6
    <3> QED
      BY <2>2, <3>2, <3>3, <1>2, <1>5, <1>8 DEF RangeInReduce
  <2> QED
    BY <2>1, <2>2
<1> QED
  BY <1>7, <1>8

LEMMA RangeTailPoint ==
  ASSUME Called, Bounds, TypeOK, Ranged, RangeInReduce, TailPoint
  PROVE  RangeInReduce'
<1>1. /\ n \in Nat /\ 1 <= n /\ pos \in Nat
      /\ First0 \in Nat \cup {NaN} /\ best \in Nat \cup {NaN}
      /\ \A q \in 0 .. n - 1 : At(q) \in Nat \cup {NaN}
  BY CallFacts, PointsAreValues DEF TypeOK
<1>2. /\ proto' = proto /\ n' = n /\ src' = src /\ val' = val /\ idx' = idx
      /\ Lanes(proto') = Lanes(proto) /\ First0' = First0 /\ pos < n
      /\ IF Gt(At(pos), best) THEN best' = At(pos) /\ index' = ScalarIndex(pos)
         ELSE best' = best /\ index' = index
  BY DEF TailPoint, First0
<1>3. ScalarIndex(pos) = pos
  <2>1. proto.tailFloat => pos <= Exact
    BY <1>1, <1>2, ConstantsAssumption DEF Ranged, Counts
  <2> QED
    BY <2>1 DEF ScalarIndex, ToFloat
<1>4. At(pos) \in Nat \cup {NaN}
  BY <1>1, <1>2
<1>5. Gt(At(pos), best) /\ (best = First0 \/ Gt(best, First0)) => Gt(At(pos), First0)
  BY <1>1, <1>4 DEF Gt, NaN
<1>6. \A l \in Lanes(proto) : LaneInRange(l)'
  BY <1>2 DEF RangeInReduce, LaneInRange
<1>7. index' \in 0 .. n - 1
  BY <1>1, <1>2, <1>3 DEF RangeInReduce
<1>8. proto.ramp => (best' = First0 /\ index' = 0) \/ Gt(best', First0)
  BY <1>2, <1>5 DEF RangeInReduce
<1> QED
  BY <1>2, <1>6, <1>7, <1>8 DEF RangeInReduce

LEMMA RangeTarget ==
  ASSUME Called, Bounds, TypeOK, Ranged, RangeInReduce, Store
  PROVE  (target \in Looked)'
<1>1. n \in Nat /\ Looked = 0 .. n - 1 /\ (proto.capped => n <= Cap)
  BY CallFacts
<1>2. Looked' = Looked /\ target' = IF proto.capped THEN index % (Cap + 1) ELSE index
  BY DEF Store, Looked
<1>3. index \in 0 .. n - 1
  BY DEF RangeInReduce
<1>4. proto.capped => index % (Cap + 1) = index
  BY <1>1, <1>3, ConstantsAssumption
<1> QED
  BY <1>1, <1>2, <1>3, <1>4

(* A call goes on with the proto-kernel and the input it began with.       *)
LEMMA CallGoesOn ==
  ASSUME Next, ~Begin, pc' # "idle"
  PROVE  /\ proto' = proto /\ src' = src /\ n' = n /\ pc # "idle"
         /\ pc' = "vector" => pc = "vector" /\ (Block \/ Pair \/ Single)
         /\ pc' = "reduce" => \/ pc = "vector" /\ (StoreLanes \/ ReduceAtOnce)
                              \/ pc = "reduce" /\ (ReduceLane \/ TailPoint)
         /\ pc' = "done" => pc = "reduce" /\ Store
BY DEF Next, Begin, Block, Pair, Single, VectorsOver, StoreLanes, ReduceLane, ReduceAtOnce,
       LanesOver, TailPoint, Store, Return

LEMMA RangeStep ==
  ASSUME IInv, TypeOK, RangeInv, [Next]_vars
  PROVE  RangeInv'
<1>1. CASE UNCHANGED vars
  <2>1. (Ranged' <=> Ranged) /\ Looked' = Looked
    BY <1>1 DEF Ranged, Counts, Comparable, Looked, vars
  <2>2. RangeInVector' <=> RangeInVector
    BY <1>1 DEF RangeInVector, CurRight, MoreVectors, LaneInRange, First0, Lanes, vars
  <2>3. RangeInReduce' <=> RangeInReduce
    BY <1>1 DEF RangeInReduce, LaneInRange, First0, Lanes, Gt, vars
  <2> QED
    BY <1>1, <2>1, <2>2, <2>3 DEF RangeInv, vars
<1>2. CASE Begin
  <2>1. pc' = "vector"
    BY <1>2 DEF Begin
  <2>2. Called' /\ Bounds'
    BY <1>2, <2>1, BoundsStep DEF IInv, Next
  <2> QED
    BY <1>2, <2>1, <2>2, RangeBegin DEF RangeInv
<1>3. ASSUME Next, ~Begin, pc' # "idle", Ranged'
      PROVE  RangeInv'
  <2>1. proto' = proto /\ src' = src /\ n' = n /\ pc # "idle"
    BY <1>3, CallGoesOn
  <2>2. Ranged
    BY <2>1, <1>3 DEF Ranged, Counts, Comparable
  <2>3. Called /\ Bounds
    BY <2>1 DEF IInv
  <2>4. CASE pc' = "vector"
    BY <2>2, <2>3, <2>4, <1>3, CallGoesOn, RangeBlock DEF RangeInv
  <2>5. CASE pc' = "reduce"
    BY <2>2, <2>3, <2>5, <1>3, CallGoesOn, RangeStore, RangeReduceLane, RangeTailPoint DEF RangeInv
  <2>6. CASE pc' = "done"
    BY <2>2, <2>3, <2>6, <1>3, CallGoesOn, RangeTarget DEF RangeInv
  <2> QED
    BY <2>4, <2>5, <2>6 DEF RangeInv
<1> QED
  BY <1>1, <1>2, <1>3 DEF RangeInv

LEMMA RangeHolds == Spec => []RangeInv
<1>1. Init => RangeInv
  BY DEF Init, RangeInv
<1>2. IInv /\ TypeOK /\ RangeInv /\ [Next]_vars => RangeInv'
  BY RangeStep
<1> QED
  BY <1>1, <1>2, IndexInvariantHolds, IndexTypes, PTL DEF Spec

-----------------------------------------------------------------------------
(***************************************************************************)
(* The best value is found, by every kernel, and also past NaNs where      *)
(* comparisons are ordered: no point consumed is better than some entry,   *)
(* and every entry stands for a point of its value or is the initial one.  *)
(* As NaN is below every number, one invariant serves for inputs with and  *)
(* without NaNs.                                                           *)
(***************************************************************************)
Ordered == ~proto.maxNaN /\ proto.takes = "greater" /\ (proto.first => src[1] # NaN)
Sound == Counts /\ (Comparable(src) \/ Ordered)

EntryOf(v, i) ==
  \/ v = First0 /\ i = 0
  \/ v >= First0 /\ i \in 0 .. pos - 1 /\ At(i) = v
LaneEntry(l) ==
  /\ val[l] \in Nat
  /\ EntryOf(val[l], idx[l]) \/ (proto.ramp /\ val[l] = First0 /\ idx[l] = l)

EntriesInVector ==
  /\ best = First0 /\ index = 0 /\ lane = 0
  /\ CurRight
  /\ \A l \in Lanes(proto) : LaneEntry(l)
  /\ \A q \in 0 .. pos - 1 : \E l \in Lanes(proto) : val[l] >= At(q)

EntriesInReduce ==
  /\ best \in Nat
  /\ EntryOf(best, index)
  /\ proto.ramp => best > First0 \/ index = 0
  /\ \A l \in Lanes(proto) : LaneEntry(l)
  /\ \A q \in 0 .. pos - 1 :
       best >= At(q) \/ \E l \in Lanes(proto) : l >= lane /\ val[l] >= At(q)

EntriesDone ==
  /\ best \in Nat /\ target \in Looked
  /\ At(target) = best \/ (best = First0 /\ target = 0)
  /\ \A q \in Looked : At(q) <= best

EntriesInv ==
  pc # "idle" /\ Sound =>
    /\ pc = "vector" => EntriesInVector
    /\ pc = "reduce" => EntriesInReduce
    /\ pc = "done" => EntriesDone

(* The points of a call, and the value the search starts from: a number.   *)
LEMMA EntryFacts ==
  ASSUME Called, Bounds, Sound
  PROVE  /\ \A q \in 0 .. n - 1 : At(q) \in Int /\ At(q) >= NaN /\ (At(q) # NaN => At(q) \in Nat)
         /\ \A q \in 0 .. n - 1 : At(q) # NaN \/ Ordered
         /\ First0 \in Nat
<1>1. \A q \in 0 .. n - 1 : At(q) \in Nat \cup {NaN}
  BY PointsAreValues
<1>2. \A q \in 0 .. n - 1 : At(q) \in Int /\ At(q) >= NaN /\ (At(q) # NaN => At(q) \in Nat)
  BY <1>1 DEF NaN
<1>3. CASE Comparable(src)
  BY <1>2, <1>3, PointsAreNumbers DEF NaN
<1>4. CASE Ordered
  <2>1. First0 \in Nat \cup {NaN} /\ First0 # NaN
    BY <1>4, PointsAreValues DEF Ordered, First0, Floor, NaN
  <2> QED
    BY <1>2, <1>4, <2>1
<1> QED
  BY <1>3, <1>4 DEF Sound

(* What one lane does: it takes the point with its index, or keeps what it *)
(* has, which is then no worse.                                            *)
LEMMA EntryStep ==
  ASSUME ProtoKernel(proto), NEW v \in Int, v >= NaN, v # NaN \/ Ordered,
         NEW old \in Nat, NEW i, NEW j
  PROVE  \/ Kept(v, old) = v /\ KeptIndex(i, v, old, j) = i /\ v # NaN /\ v >= old
         \/ Kept(v, old) = old /\ KeptIndex(i, v, old, j) = j /\ v <= old
<1>1. old # NaN
  BY DEF NaN
<1>2. CASE v = NaN
  <2>1. ~Better(v, old)
    BY <1>2 DEF Better, Gt
  <2>2. Kept(v, old) = old
    BY <1>2, <2>1 DEF Kept, Ordered
  <2>3. ~Takes(v, old) /\ Keeps(v, old)
    BY <1>2, <2>1 DEF Takes, Keeps, Ordered
  <2> QED
    BY <1>2, <2>2, <2>3 DEF KeptIndex, NaN
<1>3. CASE v # NaN
  <2>1. Better(v, old) <=> v > old
    BY <1>1, <1>3 DEF Better, Gt
  <2>2. Kept(v, old) = IF v > old THEN v ELSE old
    BY <1>1, <1>3, <2>1 DEF Kept
  <2>3. proto.takes \in {"greater", "notLessEqual", "greaterEqual"}
    BY DEF ProtoKernel
  <2>4. /\ Gt(old, v) <=> old > v
        /\ Eq(v, old) <=> v = old
    BY <1>1, <1>3 DEF Gt, Eq
  <2>5. v > old => Takes(v, old)
    BY <2>1, <2>3, <2>4 DEF Takes
  <2>6. v < old => ~Takes(v, old) /\ Keeps(v, old)
    BY <2>1, <2>3, <2>4 DEF Takes, Keeps
  <2>7. v = old => Takes(v, old) \/ Keeps(v, old)
    BY <2>1, <2>3, <2>4 DEF Takes, Keeps
  <2> QED
    BY <1>3, <2>2, <2>5, <2>6, <2>7 DEF KeptIndex
<1> QED
  BY <1>2, <1>3

LEMMA EntriesBegin ==
  ASSUME Begin, Called', Bounds', Sound'
  PROVE  EntriesInVector'
<1>1. PICK c \in Calls :
        /\ proto' = c.proto /\ src' = c.src
        /\ val' = [l \in Lanes(c.proto) |-> Start(c)]
        /\ idx' = [l \in Lanes(c.proto) |-> IF c.proto.ramp THEN l ELSE 0]
        /\ best' = Start(c)
  BY DEF Begin
<1>2. pos' = 0 /\ lane' = 0 /\ index' = 0
  BY DEF Begin
<1>3. First0' = Start(c) /\ Lanes(proto') = Lanes(c.proto)
  BY <1>1 DEF First0, Start
<1>4. First0' \in Nat
  <2>1. c.src \in Seq(Nat \cup {NaN}) /\ c.src # <<>>
    BY CallsAssumption
  <2>2. c.src[1] \in Nat \cup {NaN} /\ 1 \in DOMAIN c.src
    BY <2>1
  <2>3. c.proto.first => c.src[1] # NaN
    BY <2>2, <1>1 DEF Sound, Comparable, Ordered
  <2> QED
    BY <2>2, <2>3, <1>3 DEF Start, Floor
<1>5. \A l \in Lanes(proto') : LaneEntry(l)'
  BY <1>1, <1>3, <1>4 DEF LaneEntry, EntryOf
<1>6. CurRight'
  BY RangeBegin
<1> QED
  BY <1>1, <1>2, <1>3, <1>5, <1>6 DEF EntriesInVector

(* The lanes take a vector, a pair or a single point: every lane ends up   *)
(* with an entry, no worse than before, and every new point is in a lane.  *)
LEMMA EntriesBlock ==
  ASSUME Called, Bounds, TypeOK, Sound, EntriesInVector, Block \/ Pair \/ Single
  PROVE  EntriesInVector'
<1>1. /\ ProtoKernel(proto)
      /\ n \in Nat /\ 1 <= n /\ proto.width \in Nat /\ pos \in Nat /\ pos <= n
      /\ \A q \in 0 .. n - 1 : At(q) \in Int /\ At(q) >= NaN /\ (At(q) # NaN => At(q) \in Nat)
      /\ \A q \in 0 .. n - 1 : At(q) # NaN \/ Ordered
      /\ First0 \in Nat
  BY CallFacts, EntryFacts
<1>2. /\ proto' = proto /\ n' = n /\ src' = src /\ best' = best /\ index' = index /\ lane' = lane
      /\ Lanes(proto') = Lanes(proto) /\ First0' = First0
      /\ \A q : At(q)' = At(q)
  BY DEF Block, Pair, Single, First0, At
<1>3. CurRight'
  BY CurStep DEF Sound, EntriesInVector
<1>4. \A l \in Lanes(proto) :
        /\ l \in Nat /\ l < proto.width
        /\ val[l] \in Nat /\ idx[l] \in Nat
        /\ proto.order[l] \in Nat /\ proto.order[l] < proto.width
        /\ LaneEntry(l)
  BY LaneFacts DEF EntriesInVector, LaneEntry
<1>5. PICK m \in Nat : pos' = m /\ pos <= m /\ m <= n
  <2>1. CASE Block
    BY <2>1, <1>1, BlockFacts
  <2>2. CASE Pair \/ Single
    BY <2>2, <1>1 DEF Pair, Single
  <2> QED
    BY <2>1, <2>2
(* What has to be shown of one lane: q is the point it loads.              *)
<1>6. ASSUME NEW l \in Lanes(proto), NEW q \in 0 .. n - 1, q < pos', q >= pos,
             proto.ramp => q >= l,
             \/ val'[l] = At(q) /\ idx'[l] = q /\ At(q) # NaN /\ At(q) >= val[l]
             \/ val'[l] = val[l] /\ idx'[l] = idx[l] /\ At(q) <= val[l]
      PROVE  LaneEntry(l)' /\ val'[l] >= val[l] /\ val'[l] >= At(q)
  <2>1. At(q) \in Int /\ (At(q) # NaN => At(q) \in Nat) /\ q \in Nat
    BY <1>1
  <2>2. CASE val'[l] = At(q) /\ idx'[l] = q /\ At(q) # NaN /\ At(q) >= val[l]
    <3>1. val[l] >= First0
      BY <1>1, <1>4 DEF LaneEntry, EntryOf
    <3>2. EntryOf(val[l], idx[l])'
      <4>1. q \in 0 .. pos' - 1
        BY <2>1, <1>5, <1>6
      <4>2. At(idx[l])' = At(q)
        BY <2>2, <1>2 DEF At
      <4>3. val'[l] >= First0'
        BY <2>1, <2>2, <3>1, <1>1, <1>2, <1>4
      <4> QED
        BY <2>2, <4>1, <4>2, <4>3 DEF EntryOf
    <3> QED
      BY <2>1, <2>2, <3>2, <1>4 DEF LaneEntry
  <2>3. CASE val'[l] = val[l] /\ idx'[l] = idx[l] /\ At(q) <= val[l]
    <3>1. EntryOf(val[l], idx[l]) => EntryOf(val[l], idx[l])'
      BY <2>3, <1>1, <1>2, <1>4, <1>5 DEF EntryOf
    <3> QED
      BY <2>1, <2>3, <3>1, <1>2, <1>4 DEF LaneEntry
  <2> QED
    BY <1>6, <2>2, <2>3
<1>7. CASE Block
  <2>1. /\ val' = [l \in Lanes(proto) |->
               IF Loaded(l) THEN Kept(At(pos + proto.order[l]), val[l]) ELSE val[l]]
        /\ idx' = [l \in Lanes(proto) |->
               IF Loaded(l) THEN KeptIndex(cur[l], At(pos + proto.order[l]), val[l], idx[l])
               ELSE idx[l]]
        /\ MoreVectors
    BY <1>7 DEF Block
  <2>2. /\ Step \in Nat /\ Step >= 1 /\ Step <= proto.width /\ pos + Step <= n /\ pos' = pos + Step
        /\ Step = proto.width \/ pos + Step = n
    BY <1>7, BlockFacts
  <2>3. ASSUME NEW l \in Lanes(proto), Loaded(l)
        PROVE  /\ LaneEntry(l)' /\ val'[l] >= val[l]
               /\ val'[l] >= At(pos + proto.order[l])
    <3> DEFINE q == pos + proto.order[l]
    <3>1. q \in 0 .. n - 1 /\ q < pos' /\ q >= pos
      BY <2>2, <2>3, <1>1, <1>4 DEF Loaded
    <3>2. cur[l] = q
      BY <2>1, <2>3 DEF EntriesInVector, CurRight, Loaded
    <3>3. val'[l] = Kept(At(q), val[l]) /\ idx'[l] = KeptIndex(q, At(q), val[l], idx[l])
      BY <2>1, <2>3, <3>2
    <3>4. proto.ramp => q >= l
      BY <1>1, <1>4 DEF ProtoKernel
    <3>5. At(q) \in Int /\ At(q) >= NaN /\ (At(q) # NaN \/ Ordered) /\ val[l] \in Nat
      BY <3>1, <1>1, <1>4
    <3>6. \/ val'[l] = At(q) /\ idx'[l] = q /\ At(q) # NaN /\ At(q) >= val[l]
          \/ val'[l] = val[l] /\ idx'[l] = idx[l] /\ At(q) <= val[l]
      BY <3>3, <3>5, <1>1, EntryStep
    <3> QED
      BY <3>1, <3>4, <3>6, <1>6
  <2>4. ASSUME NEW l \in Lanes(proto), ~Loaded(l)
        PROVE  LaneEntry(l)' /\ val'[l] >= val[l]
    <3>1. val'[l] = val[l] /\ idx'[l] = idx[l]
      BY <2>1, <2>4
    <3>2. EntryOf(val[l], idx[l]) => EntryOf(val[l], idx[l])'
      BY <3>1, <1>1, <1>2, <1>4, <1>5 DEF EntryOf
    <3> QED
      BY <3>1, <3>2, <1>2, <1>4 DEF LaneEntry
  <2>5. ASSUME NEW q \in 0 .. pos' - 1
        PROVE  \E l \in Lanes(proto) : val'[l] >= At(q)
    <3>0. q \in 0 .. n - 1 /\ At(q) \in Int
      <4>1. q \in 0 .. n - 1
        BY <1>1, <1>5
      <4> QED
        BY <4>1, <1>1
    <3>1. CASE q < pos
      <4>1. PICK l \in Lanes(proto) : val[l] >= At(q)
        BY <3>1, <1>1, <1>5 DEF EntriesInVector
      <4>2. val'[l] >= val[l] /\ val'[l] \in Nat
        BY <2>3, <2>4 DEF LaneEntry
      <4> QED
        BY <3>0, <4>1, <4>2, <1>4
    <3>2. CASE q >= pos
      <4>1. q - pos \in Lanes(proto)
        BY <3>2, <2>2, <1>1, <1>5 DEF Lanes
      <4>2. PICK l \in Lanes(proto) : proto.order[l] = q - pos
        BY <4>1, <1>1 DEF ProtoKernel
      <4>3. pos + proto.order[l] = q /\ q < n
        BY <4>2, <3>2, <1>1, <1>5
      <4> QED
        BY <4>3, <2>3 DEF Loaded
    <3> QED
      BY <3>1, <3>2, <1>1, <1>5
  <2> QED
    BY <2>3, <2>4, <2>5, <1>2, <1>3 DEF EntriesInVector
<1>8. CASE Pair
  <2>1. /\ proto.pairs /\ n - pos >= 2 /\ pos' = pos + 2
        /\ val' = [l \in Lanes(proto) |-> Kept(At(pos + (l % 2)), val[l])]
        /\ idx' = [l \in Lanes(proto) |-> KeptIndex(cur[l % 2], At(pos + (l % 2)), val[l], idx[l])]
    BY <1>8 DEF Pair
  <2>2. /\ 0 \in Lanes(proto) /\ 1 \in Lanes(proto) /\ proto.order[0] = 0 /\ proto.order[1] = 1
        /\ ~proto.ramp
    BY <2>1, <1>1, LaneFacts DEF ProtoKernel
  <2>3. cur[0] = pos /\ cur[1] = pos + 1
    BY <2>1, <2>2, <1>1 DEF CurRight, EntriesInVector
  <2>4. ASSUME NEW l \in Lanes(proto)
        PROVE  LaneEntry(l)' /\ val'[l] >= val[l] /\ val'[l] >= At(pos + (l % 2))
    <3> DEFINE q == pos + (l % 2)
    <3>0. l % 2 = 0 \/ l % 2 = 1
      BY <1>4
    <3>1. q \in 0 .. n - 1 /\ q < pos' /\ q >= pos /\ cur[l % 2] = q
      BY <3>0, <2>1, <2>3, <1>1
    <3>3. val'[l] = Kept(At(q), val[l]) /\ idx'[l] = KeptIndex(q, At(q), val[l], idx[l])
      BY <2>1, <3>1
    <3>5. At(q) \in Int /\ At(q) >= NaN /\ (At(q) # NaN \/ Ordered) /\ val[l] \in Nat
      BY <3>1, <1>1, <1>4
    <3>6. \/ val'[l] = At(q) /\ idx'[l] = q /\ At(q) # NaN /\ At(q) >= val[l]
          \/ val'[l] = val[l] /\ idx'[l] = idx[l] /\ At(q) <= val[l]
      BY <3>3, <3>5, <1>1, EntryStep
    <3> QED
      BY <3>1, <3>6, <2>2, <1>6
  <2>5. ASSUME NEW q \in 0 .. pos' - 1
        PROVE  \E l \in Lanes(proto) : val'[l] >= At(q)
    <3>0. q \in 0 .. n - 1 /\ At(q) \in Int
      <4>1. q \in 0 .. n - 1
        BY <1>1, <1>5
      <4> QED
        BY <4>1, <1>1
    <3>1. CASE q < pos
      <4>1. PICK l \in Lanes(proto) : val[l] >= At(q)
        BY <3>1, <1>1, <1>5 DEF EntriesInVector
      <4>2. val'[l] >= val[l] /\ val'[l] \in Nat
        BY <2>4 DEF LaneEntry
      <4> QED
        BY <3>0, <4>1, <4>2, <1>4
    <3>2. CASE q = pos
      <4>1. val'[0] >= At(pos + (0 % 2)) /\ pos + (0 % 2) = pos
        BY <2>2, <2>4, <1>1
      <4> QED
        BY <3>2, <4>1, <2>2
    <3>3. CASE q = pos + 1
      <4>1. val'[1] >= At(pos + (1 % 2)) /\ pos + (1 % 2) = pos + 1
        BY <2>2, <2>4, <1>1
      <4> QED
        BY <3>3, <4>1, <2>2
    <3> QED
      BY <3>1, <3>2, <3>3, <2>1, <1>1
  <2> QED
    BY <2>4, <2>5, <1>2, <1>3 DEF EntriesInVector
<1>9. CASE Single
  <2>1. /\ proto.pairs /\ n - pos = 1 /\ pos' = n
        /\ val' = [val EXCEPT ![0] = IF At(pos) = NaN THEN NaN ELSE Kept(At(pos), @)]
        /\ idx' = [idx EXCEPT ![0] = IF At(pos) = NaN THEN 0 ELSE IF Gt(At(pos), val[0]) THEN cur[0] ELSE @]
    BY <1>9 DEF Single
  <2>2. /\ 0 \in Lanes(proto) /\ proto.order[0] = 0 /\ ~proto.ramp /\ ~Ordered
    BY <2>1, <1>1, LaneFacts DEF ProtoKernel, Ordered
  <2>3. cur[0] = pos /\ pos \in 0 .. n - 1
    BY <2>1, <2>2, <1>1 DEF CurRight, EntriesInVector
  <2>4. At(pos) \in Nat /\ At(pos) # NaN /\ val[0] \in Nat
    BY <2>2, <2>3, <1>1, <1>4
  <2>5. /\ val'[0] = Kept(At(pos), val[0])
        /\ idx'[0] = IF Gt(At(pos), val[0]) THEN pos ELSE idx[0]
        /\ \A l \in Lanes(proto) : l # 0 => val'[l] = val[l] /\ idx'[l] = idx[l]
    BY <2>1, <2>2, <2>3, <2>4 DEF TypeOK
  <2>6. LaneEntry(0)' /\ val'[0] >= val[0] /\ val'[0] >= At(pos)
    <3>1. Gt(At(pos), val[0]) <=> At(pos) > val[0]
      BY <2>4, GtOfNumbers
    <3>2. Kept(At(pos), val[0]) = IF At(pos) > val[0] THEN At(pos) ELSE val[0]
      BY <2>4, <3>1 DEF Kept, Better, NaN
    <3>3. \/ val'[0] = At(pos) /\ idx'[0] = pos /\ At(pos) # NaN /\ At(pos) >= val[0]
          \/ val'[0] = val[0] /\ idx'[0] = idx[0] /\ At(pos) <= val[0]
      BY <2>4, <2>5, <3>1, <3>2
    <3>4. pos < pos' /\ pos >= pos
      BY <2>1, <1>1
    <3> QED
      BY <2>2, <2>3, <3>3, <3>4, <1>6
  <2>7. ASSUME NEW l \in Lanes(proto)
        PROVE  LaneEntry(l)' /\ val'[l] >= val[l]
    <3>1. CASE l = 0
      BY <3>1, <2>6
    <3>2. CASE l # 0
      <4>1. val'[l] = val[l] /\ idx'[l] = idx[l]
        BY <3>2, <2>5
      <4>2. EntryOf(val[l], idx[l]) => EntryOf(val[l], idx[l])'
        BY <4>1, <1>1, <1>2, <1>4, <1>5 DEF EntryOf
      <4> QED
        BY <4>1, <4>2, <1>2, <1>4 DEF LaneEntry
    <3> QED
      BY <3>1, <3>2
  <2>8. ASSUME NEW q \in 0 .. pos' - 1
        PROVE  \E l \in Lanes(proto) : val'[l] >= At(q)
    <3>0. q \in 0 .. n - 1 /\ At(q) \in Int
      <4>1. q \in 0 .. n - 1
        BY <1>1, <1>5
      <4> QED
        BY <4>1, <1>1
    <3>1. CASE q < pos
      <4>1. PICK l \in Lanes(proto) : val[l] >= At(q)
        BY <3>1, <1>1, <1>5 DEF EntriesInVector
      <4>2. val'[l] >= val[l] /\ val'[l] \in Nat
        BY <2>7 DEF LaneEntry
      <4> QED
        BY <3>0, <4>1, <4>2, <1>4
    <3>2. CASE q = pos
      BY <3>2, <2>2, <2>6
    <3> QED
      BY <3>1, <3>2, <2>1, <1>1
  <2> QED
    BY <2>7, <2>8, <1>2, <1>3 DEF EntriesInVector
<1> QED
  BY <1>7, <1>8, <1>9

(* The reduction starts with the initial entry, with that of lane 0, or is *)
(* made in one step.                                                       *)
LEMMA EntriesStore ==
  ASSUME Called, Bounds, TypeOK, Sound, EntriesInVector, StoreLanes \/ ReduceAtOnce
  PROVE  EntriesInReduce'
<1>1. /\ ProtoKernel(proto)
      /\ n \in Nat /\ proto.width \in Nat /\ pos \in Nat /\ pos <= n
      /\ \A q \in 0 .. n - 1 : At(q) \in Int
      /\ First0 \in Nat
  BY CallFacts, EntryFacts
<1>2. /\ proto' = proto /\ src' = src /\ pos' = pos /\ val' = val /\ idx' = idx
      /\ Lanes(proto') = Lanes(proto) /\ First0' = First0
      /\ \A q : At(q)' = At(q)
  BY DEF StoreLanes, ReduceAtOnce, First0, At
<1>3. \A l \in Lanes(proto) :
        l \in Nat /\ l < proto.width /\ val[l] \in Nat /\ idx[l] \in Nat /\ LaneEntry(l) /\ LaneEntry(l)'
  BY <1>2, LaneFacts DEF EntriesInVector, LaneEntry, EntryOf
<1>4. CASE StoreLanes
  <2>1. CASE proto.reduce = "lane0"
    <3>1. /\ best' = val[0] /\ index' = idx[0] /\ lane' = 1
          /\ 0 \in Lanes(proto) /\ ~proto.ramp
      BY <1>1, <1>4, <2>1, LaneFacts DEF StoreLanes, ProtoKernel
    <3>2. EntryOf(best, index)'
      BY <3>1, <1>2, <1>3 DEF LaneEntry, EntryOf
    <3>3. ASSUME NEW q \in 0 .. pos - 1
          PROVE  best' >= At(q) \/ \E l \in Lanes(proto) : l >= 1 /\ val[l] >= At(q)
      <4>1. PICK l \in Lanes(proto) : val[l] >= At(q)
        BY DEF EntriesInVector
      <4> QED
        BY <4>1, <3>1, <1>3
    <3> QED
      BY <3>1, <3>2, <3>3, <1>2, <1>3 DEF EntriesInReduce
  <2>2. CASE proto.reduce # "lane0"
    <3>1. best' = First0 /\ index' = 0 /\ lane' = 0
      BY <1>4, <2>2 DEF StoreLanes, EntriesInVector
    <3> QED
      BY <3>1, <1>1, <1>2, <1>3 DEF EntriesInReduce, EntriesInVector, EntryOf
  <2> QED
    BY <2>1, <2>2
<1>5. CASE ReduceAtOnce
  <2>1. PICK k \in Lanes(proto) :
          /\ best' = val[k]
          /\ val[k] = NaN \/ \A m \in Lanes(proto) : val[m] # NaN /\ val[m] <= val[k]
          /\ \/ Equals(val[k]) = {} /\ index' = AllOnes
             \/ \E i \in Equals(val[k]) : index' = i
    BY <1>5 DEF ReduceAtOnce
  <2>2. proto.reduce = "vector" /\ ~proto.ramp
    BY <1>1, <1>5 DEF ReduceAtOnce, ProtoKernel
  <2>3. val[k] # NaN /\ \A m \in Lanes(proto) : val[m] <= val[k]
    BY <2>1, <1>3 DEF NaN
  <2>4. k \in {m \in Lanes(proto) : Eq(val[m], val[k])}
    BY <2>3 DEF Eq
  <2>5. PICK m \in Lanes(proto) : Eq(val[m], val[k]) /\ index' = idx[m]
    BY <2>1, <2>4 DEF Equals
  <2>6. val[m] = val[k]
    BY <2>5 DEF Eq
  <2>7. EntryOf(val[m], idx[m])'
    BY <2>2, <1>2, <1>3 DEF LaneEntry
  <2>8. EntryOf(best, index)'
    BY <2>1, <2>5, <2>6, <2>7, <1>2 DEF EntryOf
  <2>9. ASSUME NEW q \in 0 .. pos - 1
        PROVE  best' >= At(q)
    <3>1. PICK l \in Lanes(proto) : val[l] >= At(q)
      BY DEF EntriesInVector
    <3>2. q \in 0 .. n - 1
      BY <1>1
    <3>3. At(q) \in Int
      BY <3>2, <1>1
    <3> QED
      BY <3>1, <3>3, <2>1, <2>3, <1>3
  <2> QED
    BY <2>1, <2>2, <2>8, <2>9, <1>2, <1>3 DEF EntriesInReduce
<1> QED
  BY <1>4, <1>5

LEMMA EntriesReduceLane ==
  ASSUME Called, Bounds, TypeOK, Sound, EntriesInReduce, ReduceLane
  PROVE  EntriesInReduce'
<1>1. /\ n \in Nat /\ proto.width \in Nat /\ pos \in Nat /\ pos <= n /\ lane \in Nat
      /\ \A q \in 0 .. n - 1 : At(q) \in Int
      /\ First0 \in Nat
  BY CallFacts, EntryFacts
<1>2. /\ proto' = proto /\ src' = src /\ pos' = pos /\ val' = val /\ idx' = idx
      /\ lane' = lane + 1 /\ lane < proto.width
      /\ Lanes(proto') = Lanes(proto) /\ First0' = First0
      /\ \A q : At(q)' = At(q)
      /\ IF Gt(val[lane], best) THEN best' = val[lane] /\ index' = idx[lane]
         ELSE best' = best /\ index' = IF SmallerIndex(lane) THEN idx[lane] ELSE index
  BY DEF ReduceLane, First0, At
<1>3. \A l \in Lanes(proto) :
        l \in Nat /\ val[l] \in Nat /\ idx[l] \in Nat /\ LaneEntry(l) /\ LaneEntry(l)'
  BY <1>2, LaneFacts DEF EntriesInReduce, LaneEntry, EntryOf
<1>4. lane \in Lanes(proto)
  BY <1>1, <1>2 DEF Lanes
<1>5. /\ best \in Nat /\ EntryOf(best, index) /\ best >= First0
      /\ index \in Nat
      /\ proto.ramp => best > First0 \/ index = 0
      /\ val[lane] \in Nat /\ idx[lane] \in Nat
  BY <1>1, <1>3, <1>4 DEF EntriesInReduce, EntryOf
<1>6. Gt(val[lane], best) <=> val[lane] > best
  BY <1>5, GtOfNumbers
<1>7. best' \in Nat /\ best' >= best /\ best' >= val[lane]
  BY <1>2, <1>5, <1>6
<1>8. ASSUME NEW q \in 0 .. pos - 1
      PROVE  best' >= At(q) \/ \E l \in Lanes(proto) : l >= lane + 1 /\ val[l] >= At(q)
  <2>1. q \in 0 .. n - 1
    BY <1>1
  <2>2. At(q) \in Int
    BY <2>1, <1>1
  <2>3. CASE best >= At(q) \/ val[lane] >= At(q)
    BY <2>2, <2>3, <1>5, <1>7
  <2>4. CASE \E l \in Lanes(proto) : l >= lane /\ l # lane /\ val[l] >= At(q)
    BY <2>4, <1>1, <1>3
  <2> QED
    BY <2>3, <2>4 DEF EntriesInReduce
<1>9. EntryOf(best, index)' /\ (proto.ramp => best' > First0 \/ index' = 0)
  <2>1. CASE val[lane] > best
    <3>1. best' = val[lane] /\ index' = idx[lane] /\ best' > First0
      BY <2>1, <1>1, <1>2, <1>5, <1>6
    <3>2. EntryOf(val[lane], idx[lane])
      BY <3>1, <1>1, <1>2, <1>3, <1>4 DEF LaneEntry
    <3> QED
      BY <3>1, <3>2, <1>2 DEF EntryOf
  <2>2. CASE ~(val[lane] > best) /\ SmallerIndex(lane)
    <3>1. val[lane] = best /\ idx[lane] < index /\ best' = best /\ index' = idx[lane]
      BY <2>2, <1>2, <1>6 DEF SmallerIndex, Eq
    <3>2. proto.ramp => best > First0
      BY <3>1, <1>5
    <3>3. EntryOf(val[lane], idx[lane])
      BY <3>1, <3>2, <1>1, <1>2, <1>3, <1>4 DEF LaneEntry
    <3> QED
      BY <3>1, <3>2, <3>3, <1>2 DEF EntryOf
  <2>3. CASE ~(val[lane] > best) /\ ~SmallerIndex(lane)
    BY <2>3, <1>2, <1>5, <1>6 DEF EntryOf
  <2> QED
    BY <2>1, <2>2, <2>3
<1> QED
  BY <1>2, <1>3, <1>7, <1>8, <1>9 DEF EntriesInReduce

LEMMA EntriesTailPoint ==
  ASSUME Called, Bounds, TypeOK, Sound, EntriesInReduce, TailPoint
  PROVE  EntriesInReduce'
<1>1. /\ n \in Nat /\ proto.width \in Nat /\ pos \in Nat /\ pos <= n /\ lane \in Nat
      /\ \A q \in 0 .. n - 1 : At(q) \in Int /\ At(q) >= NaN /\ (At(q) # NaN => At(q) \in Nat)
      /\ First0 \in Nat
  BY CallFacts, EntryFacts
<1>2. /\ proto' = proto /\ src' = src /\ pos' = pos + 1 /\ val' = val /\ idx' = idx
      /\ lane' = lane /\ lane = proto.width /\ pos < n
      /\ Lanes(proto') = Lanes(proto) /\ First0' = First0
      /\ \A q : At(q)' = At(q)
      /\ IF Gt(At(pos), best) THEN best' = At(pos) /\ index' = ScalarIndex(pos)
         ELSE best' = best /\ index' = index
  BY DEF TailPoint, LanesOver, First0, At
<1>3. ScalarIndex(pos) = pos
  <2>1. proto.tailFloat => pos <= Exact
    BY <1>1, <1>2, ConstantsAssumption DEF Sound, Counts
  <2> QED
    BY <2>1 DEF ScalarIndex, ToFloat
<1>4. /\ best \in Nat /\ EntryOf(best, index) /\ best >= First0
      /\ proto.ramp => best > First0 \/ index = 0
  BY <1>1 DEF EntriesInReduce, EntryOf
<1>5. pos \in 0 .. n - 1
  BY <1>1, <1>2
<1>6. /\ At(pos) \in Int /\ At(pos) >= NaN /\ (At(pos) # NaN => At(pos) \in Nat)
      /\ Gt(At(pos), best) <=> At(pos) > best
  <2>1. At(pos) \in Int /\ At(pos) >= NaN /\ (At(pos) # NaN => At(pos) \in Nat)
    BY <1>1, <1>5
  <2>2. At(pos) > best => At(pos) # NaN
    BY <2>1, <1>4 DEF NaN
  <2> QED
    BY <2>1, <2>2, <1>4 DEF Gt, NaN
<1>7. best' \in Nat /\ best' >= best /\ best' >= At(pos)
  BY <1>2, <1>4, <1>6 DEF Gt
<1>8. \A l \in Lanes(proto) : LaneEntry(l)'
  <2> TAKE l \in Lanes(proto)
  <2>1. LaneEntry(l) /\ val'[l] = val[l] /\ idx'[l] = idx[l]
    BY <1>2 DEF EntriesInReduce
  <2>2. EntryOf(val[l], idx[l]) => EntryOf(val[l], idx[l])'
    BY <2>1, <1>1, <1>2 DEF EntryOf
  <2> QED
    BY <2>1, <2>2, <1>2 DEF LaneEntry
<1>9. EntryOf(best, index)' /\ (proto.ramp => best' > First0 \/ index' = 0)
  <2>1. CASE At(pos) > best
    <3>1. best' = At(pos) /\ index' = pos /\ best' > First0
      BY <2>1, <1>1, <1>2, <1>3, <1>4, <1>6
    <3>2. At(index)' = At(pos)
      BY <3>1, <1>2 DEF At
    <3>3. index' \in 0 .. pos' - 1
      BY <3>1, <1>1, <1>2
    <3> QED
      BY <3>1, <3>2, <3>3, <1>1, <1>2 DEF EntryOf
  <2>2. CASE ~(At(pos) > best)
    <3>1. best' = best /\ index' = index
      BY <2>2, <1>2, <1>6
    <3> QED
      BY <3>1, <1>1, <1>2, <1>4 DEF EntryOf
  <2> QED
    BY <2>1, <2>2
<1>10. ASSUME NEW q \in 0 .. pos
       PROVE  best' >= At(q)
  <2>1. CASE q = pos
    BY <2>1, <1>7
  <2>2. CASE q \in 0 .. pos - 1
    <3>1. ~\E l \in Lanes(proto) : l >= lane
      BY <1>1, <1>2 DEF Lanes
    <3>2. best >= At(q)
      BY <2>2, <3>1 DEF EntriesInReduce
    <3>3. q \in 0 .. n - 1
      BY <2>2, <1>1
    <3>4. At(q) \in Int
      BY <3>3, <1>1
    <3> QED
      BY <3>2, <3>4, <1>4, <1>7
  <2> QED
    BY <2>1, <2>2, <1>1
<1>11. \A q \in 0 .. pos' - 1 : best' >= At(q)
  BY <1>1, <1>2, <1>10
<1> QED
  BY <1>2, <1>7, <1>8, <1>9, <1>11 DEF EntriesInReduce

LEMMA EntriesTarget ==
  ASSUME Called, Bounds, TypeOK, Sound, EntriesInReduce, Store
  PROVE  EntriesDone'
<1>1. /\ n \in Nat /\ 1 <= n /\ proto.width \in Nat
      /\ Looked = 0 .. n - 1 /\ (proto.capped => n <= Cap)
  BY CallFacts
<1>2. /\ proto' = proto /\ src' = src /\ best' = best /\ pos = n /\ lane = proto.width
      /\ target' = IF proto.capped THEN index % (Cap + 1) ELSE index
      /\ First0' = First0 /\ Looked' = Looked
      /\ \A q : At(q)' = At(q)
  BY DEF Store, LanesOver, First0, Looked, At
<1>3. index \in 0 .. n - 1 /\ (At(index) = best \/ (best = First0 /\ index = 0))
  BY <1>1, <1>2 DEF EntriesInReduce, EntryOf
<1>4. proto.capped => index % (Cap + 1) = index
  BY <1>1, <1>3, ConstantsAssumption
<1>5. target' = index
  BY <1>2, <1>4
<1>6. At(target)' = At(index)
  BY <1>2, <1>5 DEF At
<1>7. \A q \in Looked : At(q) <= best
  <2>1. ~\E l \in Lanes(proto) : l >= lane
    BY <1>1, <1>2 DEF Lanes
  <2>2. \A q \in 0 .. pos - 1 : best >= At(q)
    BY <2>1 DEF EntriesInReduce
  <2>3. \A q \in 0 .. n - 1 : At(q) \in Int /\ best \in Nat
    BY EntryFacts DEF EntriesInReduce
  <2> QED
    BY <2>2, <2>3, <1>1, <1>2
<1>8. best' \in Nat /\ target' \in Looked'
  BY <1>1, <1>2, <1>3, <1>5 DEF EntriesInReduce
<1> QED
  BY <1>2, <1>3, <1>5, <1>6, <1>7, <1>8 DEF EntriesDone

LEMMA EntriesStep ==
  ASSUME IInv, TypeOK, EntriesInv, [Next]_vars
  PROVE  EntriesInv'
<1>1. CASE UNCHANGED vars
  <2>1. (Sound' <=> Sound)
    BY <1>1 DEF Sound, Ordered, Counts, Comparable, vars
  <2>2. EntriesInVector' <=> EntriesInVector
    BY <1>1 DEF EntriesInVector, CurRight, MoreVectors, LaneEntry, EntryOf, First0, At, Lanes, vars
  <2>3. EntriesInReduce' <=> EntriesInReduce
    BY <1>1 DEF EntriesInReduce, LaneEntry, EntryOf, First0, At, Lanes, vars
  <2>4. EntriesDone' <=> EntriesDone
    BY <1>1 DEF EntriesDone, Looked, First0, At, vars
  <2> QED
    BY <1>1, <2>1, <2>2, <2>3, <2>4 DEF EntriesInv, vars
<1>2. CASE Begin
  <2>1. pc' = "vector"
    BY <1>2 DEF Begin
  <2>2. Called' /\ Bounds'
    BY <1>2, <2>1, BoundsStep DEF IInv, Next
  <2> QED
    BY <1>2, <2>1, <2>2, EntriesBegin DEF EntriesInv
<1>3. ASSUME Next, ~Begin, pc' # "idle", Sound'
      PROVE  EntriesInv'
  <2>1. proto' = proto /\ src' = src /\ n' = n /\ pc # "idle"
    BY <1>3, CallGoesOn
  <2>2. Sound
    BY <2>1, <1>3 DEF Sound, Ordered, Counts, Comparable
  <2>3. Called /\ Bounds
    BY <2>1 DEF IInv
  <2>4. CASE pc' = "vector"
    BY <2>2, <2>3, <2>4, <1>3, CallGoesOn, EntriesBlock DEF EntriesInv
  <2>5. CASE pc' = "reduce"
    BY <2>2, <2>3, <2>5, <1>3, CallGoesOn, EntriesStore, EntriesReduceLane, EntriesTailPoint
       DEF EntriesInv
  <2>6. CASE pc' = "done"
    BY <2>2, <2>3, <2>6, <1>3, CallGoesOn, EntriesTarget DEF EntriesInv
  <2> QED
    BY <2>4, <2>5, <2>6 DEF EntriesInv
<1> QED
  BY <1>1, <1>2, <1>3 DEF EntriesInv

LEMMA EntriesHold == Spec => []EntriesInv
<1>1. Init => EntriesInv
  BY DEF Init, EntriesInv
<1>2. IInv /\ TypeOK /\ EntriesInv /\ [Next]_vars => EntriesInv'
  BY EntriesStep
<1> QED
  BY <1>1, <1>2, IndexInvariantHolds, IndexTypes, PTL DEF Spec

(* Every index kernel returns the index of a best value, the ones that     *)
(* may return a later one (avx2 and sse3 of the complex kernels) included. *)
THEOREM BestFoundHolds == Spec => []BestFound
<1>1. ASSUME IInv, EntriesInv
      PROVE  BestFound
  <2> SUFFICES ASSUME pc = "done", Comparable(src), Counts
               PROVE  IsBest(target)
    BY DEF BestFound
  <2>1. Called /\ Bounds /\ EntriesDone
    BY <1>1 DEF IInv, EntriesInv, Sound
  <2>2. Looked = 0 .. n - 1 /\ n \in Nat /\ 1 <= n /\ \A q \in 0 .. n - 1 : At(q) \in Nat
    BY <2>1, CallFacts, PointsAreNumbers
  <2>3. At(target) = best
    <3>1. CASE best = First0 /\ target = 0
      <4>1. At(0) \in Nat /\ At(0) <= best
        BY <2>1, <2>2, <3>1 DEF EntriesDone
      <4>2. First0 = Floor \/ First0 = At(0)
        BY DEF First0, At
      <4> QED
        BY <3>1, <4>1, <4>2 DEF Floor
    <3> QED
      BY <3>1, <2>1 DEF EntriesDone
  <2> QED
    BY <2>1, <2>3 DEF EntriesDone, IsBest
<1> QED
  BY <1>1, IndexInvariantHolds, EntriesHold, PTL

(* NaNs do no more harm than keep a number from being seen where the       *)
(* comparisons are not ordered: where they are, the best of the numbers is *)
(* found, and the index is that of a point anyway.                         *)
THEOREM NaNsAreHarmless == Spec => []NaNsHarmless
<1>1. ASSUME IInv, EntriesInv
      PROVE  NumberFound
  <2> DEFINE numbers == {p \in Looked : At(p) # NaN}
  <2> SUFFICES ASSUME pc = "done", Counts, Ordered,
                      NEW p \in numbers, At(p) > Floor
               PROVE  target \in numbers /\ \A q \in numbers : At(q) <= At(target)
    BY DEF NumberFound, Ordered
  <2>1. Called /\ Bounds /\ Sound /\ EntriesDone
    BY <1>1 DEF IInv, EntriesInv, Sound
  <2>2. best > Floor
    <3>1. p \in 0 .. n - 1 /\ At(p) <= best /\ best \in Nat
      BY <2>1, CallFacts DEF EntriesDone
    <3>2. At(p) \in Int
      BY <2>1, <3>1, EntryFacts
    <3> QED
      BY <3>1, <3>2 DEF Floor
  <2>3. At(target) = best
    <3>1. First0 = Floor \/ First0 = At(0)
      BY DEF First0, At
    <3> QED
      BY <2>1, <2>2, <3>1 DEF EntriesDone, Floor
  <2> QED
    BY <2>1, <2>3 DEF EntriesDone, NaN
<1>2. ASSUME RangeInv
      PROVE  InRange
  BY <1>2 DEF InRange, RangeInv, Ranged
<1>3. IInv /\ EntriesInv /\ RangeInv => NaNsHarmless
  BY <1>1, <1>2 DEF NaNsHarmless
<1> QED
  BY <1>3, IndexInvariantHolds, EntriesHold, RangeHolds, PTL
=============================================================================
