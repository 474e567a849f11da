------------------------------ MODULE IndexKernels ------------------------------
(***************************************************************************)
(* The kernels that look for the position of the largest or the smallest   *)
(* value: kernels/volk/volk_32f_index_{max,min}_{16u,32u}.h and            *)
(* volk_32fc_index_{max,min}_{16u,32u}.h, 84 proto-kernels.  A proto-kernel*)
(* keeps the best value and its index in every lane of a vector, reduces   *)
(* the lanes to one, and goes on with the points behind the last full      *)
(* vector.  A record of IndexProtos says how each of them does it.         *)
(*                                                                         *)
(* A value is its rank: of two numbers the larger one is the better one,   *)
(* so that for index_min the order of the floats is reversed, and for the  *)
(* complex kernels it is the rank of the squared magnitude.                *)
(***************************************************************************)
EXTENDS Integers, Sequences, FiniteSets

CONSTANTS
  Calls,   (* the calls: records [proto, src]                               *)
  Cap,     (* USHRT_MAX                                                     *)
  Exact    (* 2^24, up to which every integer is a float                    *)

NaN == -1       (* no comparison with it holds                              *)
Floor == 0      (* the worst number: -FLT_MAX, FLT_MAX, or 0 (FLT_MIN in    *)
                (* one kernel, which cannot tell smaller numbers apart)     *)
AllOnes == -1   (* UINT32_MAX: the index of a lane that is masked out       *)
NoTarget == -2  (* nothing has been written                                 *)

Lanes(p) == 0 .. p.width - 1
Comparable(src) == \A p \in DOMAIN src : src[p] # NaN

ASSUME ConstantsAssumption ==
  /\ Cap \in Nat /\ Exact \in Nat /\ 1 <= Cap /\ Cap <= Exact
(* What a record must be: the order is a permutation of the lanes, the     *)
(* tail of pairs goes with the comparison and the reduction of sse3 and    *)
(* takes its points in lanes 0 and 1, only a scan starts from other        *)
(* indices than 0, and a reduction in registers from the worst number.     *)
ProtoKernel(p) ==
  /\ p.width \in Nat
  /\ p.order \in [Lanes(p) -> Lanes(p)]
  /\ \A l \in Lanes(p) : \E m \in Lanes(p) : p.order[m] = l
  /\ p.takes \in {"greater", "notLessEqual", "greaterEqual"}
  /\ p.reduce \in {"scan", "lane0", "vector"}
  /\ p.width = 0 => p.reduce = "scan"
  /\ p.pairs => /\ p.takes = "greaterEqual" /\ p.reduce = "lane0"
                /\ p.width > 1 /\ p.order[0] = 0 /\ p.order[1] = 1
  /\ p.reduce = "vector" => ~p.first
  /\ p.ramp => p.reduce = "scan" /\ \A l \in Lanes(p) : p.order[l] = l

ASSUME CallsAssumption ==
  \A c \in Calls : ProtoKernel(c.proto) /\ c.src \in Seq(Nat \cup {NaN}) /\ c.src # <<>>

VARIABLES
  pc,      (* "idle", "vector", "reduce" or "done"                          *)
  proto,   (* the proto-kernel that runs                                    *)
  src,     (* its input                                                     *)
  n,       (* num_points, capped                                            *)
  pos,     (* how many points have been consumed                            *)
  cur,     (* currentIndexes: the index of each lane's next point           *)
  val,     (* maxValues, minValues                                          *)
  idx,     (* maxValuesIndex, minValuesIndex                                *)
  lane,    (* the lane the reduction comes to next                          *)
  best,    (* max, min                                                      *)
  index,   (* index                                                         *)
  target   (* *target                                                       *)

vars == <<pc, proto, src, n, pos, cur, val, idx, lane, best, index, target>>

At(p) == src[p + 1]
Gt(a, b) == a # NaN /\ b # NaN /\ a > b
Eq(a, b) == a # NaN /\ a = b

(* The conversion to float, up to 2 * Exact: odd numbers above Exact are   *)
(* ties and go to the neighbour with the even mantissa.                    *)
ToFloat(i) ==
  IF i <= Exact \/ i % 2 = 0 THEN i ELSE IF i % 4 = 1 THEN i - 1 ELSE i + 1

LaneIndex(i) == IF proto.laneFloat THEN ToFloat(i) ELSE i
ScalarIndex(i) == IF proto.tailFloat THEN ToFloat(i) ELSE i

(* The comparison of a vector with the best values so far.                 *)
Better(v, old) == Gt(v, old)

(* The value a lane keeps: the NEON maximum of a number and a NaN is NaN.  *)
Kept(v, old) ==
  IF proto.maxNaN /\ (v = NaN \/ old = NaN) THEN NaN
  ELSE IF Better(v, old) THEN v ELSE old

(* Whether a lane takes the new index, and whether it keeps the old one    *)
(* (sse3 ors two masks of which neither may be set).                       *)
Takes(v, old) ==
  \/ proto.takes = "greater" /\ Better(v, old)
  \/ proto.takes = "notLessEqual" /\ ~(Gt(old, v) \/ Eq(v, old))
  \/ proto.takes = "greaterEqual" /\ (Better(v, old) \/ Eq(v, old))
Keeps(v, old) ==
  IF proto.takes = "greaterEqual" THEN Gt(old, v) ELSE ~Takes(v, old)

KeptIndex(i, v, old, old_i) ==
  IF Takes(v, old) THEN i ELSE IF Keeps(v, old) THEN old_i ELSE 0

Init ==
  /\ pc = "idle"
  /\ proto = [width |-> 0] /\ src = <<>> /\ n = 0 /\ pos = 0
  /\ cur = <<>> /\ val = <<>> /\ idx = <<>>
  /\ lane = 0 /\ best = Floor /\ index = 0 /\ target = NoTarget

(* Mutant of Points: the cap of the 16u kernels is forgotten.              *)
PointsUncapped(c) == Len(c.src)

Points(c) == IF c.proto.capped /\ Len(c.src) > Cap THEN Cap ELSE Len(c.src)
Start(c) == IF c.proto.first THEN c.src[1] ELSE Floor

(* The call: the cap, the indices of the first vector, the values every    *)
(* lane starts with.                                                       *)
Begin ==
  /\ pc = "idle"
  /\ pc' = "vector"
  /\ \E c \in Calls :
       /\ proto' = c.proto /\ src' = c.src /\ n' = Points(c)
       /\ cur' = [l \in Lanes(c.proto) |-> c.proto.order[l]]
       /\ val' = [l \in Lanes(c.proto) |-> Start(c)]
       /\ idx' = [l \in Lanes(c.proto) |-> IF c.proto.ramp THEN l ELSE 0]
       /\ best' = Start(c)
  /\ pos' = 0 /\ lane' = 0 /\ index' = 0 /\ target' = NoTarget

(* Another vector is left; with RVV it may be a part of one.               *)
MoreVectors ==
  proto.width > 0 /\ IF proto.partial THEN pos < n ELSE pos + proto.width <= n
Loaded(l) == pos + proto.order[l] < n

(* Mutant of Step: a part of a vector counts as a whole one.               *)
StepWhole == proto.width

Step == IF pos + proto.width <= n THEN proto.width ELSE n - pos

(* One vector: every lane compares, selects and blends.                    *)
Block ==
  /\ pc = "vector" /\ MoreVectors
  /\ val' = [l \in Lanes(proto) |->
               IF Loaded(l) THEN Kept(At(pos + proto.order[l]), val[l]) ELSE val[l]]
  /\ idx' = [l \in Lanes(proto) |->
               IF Loaded(l) THEN KeptIndex(cur[l], At(pos + proto.order[l]), val[l], idx[l])
               ELSE idx[l]]
  /\ cur' = [l \in Lanes(proto) |-> LaneIndex(cur[l] + Step)]
  /\ pos' = pos + Step
  /\ UNCHANGED <<pc, proto, src, n, lane, best, index, target>>

(* sse3: two more points, each in two lanes.                               *)
Pair ==
  /\ pc = "vector" /\ ~MoreVectors /\ proto.pairs /\ n - pos >= 2
  /\ val' = [l \in Lanes(proto) |-> Kept(At(pos + (l % 2)), val[l])]
  /\ idx' = [l \in Lanes(proto) |-> KeptIndex(cur[l % 2], At(pos + (l % 2)), val[l], idx[l])]
  /\ cur' = [l \in Lanes(proto) |-> cur[l % 2] + 2]
  /\ pos' = pos + 2
  /\ UNCHANGED <<pc, proto, src, n, lane, best, index, target>>

(* sse3: one more point, in lane 0.                                        *)
Single ==
  /\ pc = "vector" /\ ~MoreVectors /\ proto.pairs /\ n - pos = 1
  /\ val' = [val EXCEPT ![0] = IF At(pos) = NaN THEN NaN ELSE Kept(At(pos), @)]
  /\ idx' = [idx EXCEPT ![0] = IF At(pos) = NaN THEN 0 ELSE IF Gt(At(pos), val[0]) THEN cur[0] ELSE @]
  /\ pos' = n
  /\ UNCHANGED <<pc, proto, src, n, cur, lane, best, index, target>>

VectorsOver == pc = "vector" /\ ~MoreVectors /\ (proto.pairs => pos = n)

(* The lanes are stored, to be reduced one by one.                         *)
StoreLanes ==
  /\ VectorsOver /\ proto.reduce \in {"scan", "lane0"}
  /\ pc' = "reduce"
  /\ IF proto.reduce = "lane0"
     THEN lane' = 1 /\ best' = val[0] /\ index' = idx[0]
     ELSE UNCHANGED <<lane, best, index>>
  /\ UNCHANGED <<proto, src, n, pos, cur, val, idx, target>>

(* Mutant of SmallerIndex: equal lanes are told apart by their order.      *)
SmallerIndexByLane(l) == FALSE

(* The second comparison of the reductions that mind equal values.         *)
SmallerIndex(l) == proto.ties /\ Eq(val[l], best) /\ idx[l] < index

(* One lane: a better value, or with proto.ties an equal one at a smaller  *)
(* index.                                                                  *)
ReduceLane ==
  /\ pc = "reduce" /\ lane < proto.width
  /\ IF Gt(val[lane], best) THEN best' = val[lane] /\ index' = idx[lane]
     ELSE /\ index' = IF SmallerIndex(lane) THEN idx[lane] ELSE index
          /\ UNCHANGED best
  /\ lane' = lane + 1
  /\ UNCHANGED <<pc, proto, src, n, pos, cur, val, idx, target>>

Equals(b) == {idx[l] : l \in {m \in Lanes(proto) : Eq(val[m], b)}}

(* NEONV8 and RVV reduce in registers: the maximum of the lanes, which is  *)
(* NaN if a lane is, and the smallest index among the lanes equal to it.   *)
ReduceAtOnce ==
  /\ VectorsOver /\ proto.reduce = "vector"
  /\ pc' = "reduce" /\ lane' = proto.width
  /\ \E l \in Lanes(proto) :
       /\ best' = val[l]
       /\ val[l] = NaN \/ \A m \in Lanes(proto) : val[m] # NaN /\ val[m] <= val[l]
       /\ \/ Equals(val[l]) = {} /\ index' = AllOnes
          \/ \E i \in Equals(val[l]) : index' = i /\ \A j \in Equals(val[l]) : i <= j
  /\ UNCHANGED <<proto, src, n, pos, cur, val, idx, target>>

LanesOver == pc = "reduce" /\ lane = proto.width

(* Mutant of TailPoint: the index counts from the end of the vectors.      *)
TailPointFromZero ==
  /\ LanesOver /\ pos < n
  /\ IF Gt(At(pos), best)
     THEN best' = At(pos) /\ index' = ScalarIndex(pos % (IF proto.width = 0 THEN n ELSE proto.width))
     ELSE UNCHANGED <<best, index>>
  /\ pos' = pos + 1
  /\ UNCHANGED <<pc, proto, src, n, cur, val, idx, lane, target>>

(* One point behind the last vector.                                       *)
TailPoint ==
  /\ LanesOver /\ pos < n
  /\ IF Gt(At(pos), best) THEN best' = At(pos) /\ index' = ScalarIndex(pos)
     ELSE UNCHANGED <<best, index>>
  /\ pos' = pos + 1
  /\ UNCHANGED <<pc, proto, src, n, cur, val, idx, lane, target>>

(* The index is stored, in 16 bits by the 16u kernels.                     *)
Store ==
  /\ LanesOver /\ pos = n
  /\ pc' = "done"
  /\ target' = IF proto.capped THEN index % (Cap + 1) ELSE index
  /\ UNCHANGED <<proto, src, n, pos, cur, val, idx, lane, best, index>>

Return ==
  /\ pc = "done"
  /\ pc' = "idle"
  /\ proto' = [width |-> 0] /\ src' = <<>> /\ n' = 0 /\ pos' = 0
  /\ cur' = <<>> /\ val' = <<>> /\ idx' = <<>>
  /\ lane' = 0 /\ best' = Floor /\ index' = 0 /\ target' = NoTarget

Next ==
  \/ Begin
  \/ Block \/ Pair \/ Single
  \/ StoreLanes \/ ReduceLane \/ ReduceAtOnce
  \/ TailPoint \/ Store \/ Return

Spec == Init /\ [][Next]_vars

-----------------------------------------------------------------------------
(* The variables have their types, and the indices of the lanes are those  *)
(* of points.                                                              *)
TypeOK ==
  /\ pc \in {"idle", "vector", "reduce", "done"}
  /\ n \in 0 .. Len(src) /\ pos \in 0 .. n /\ lane \in 0 .. proto.width
  /\ DOMAIN val = Lanes(proto) /\ DOMAIN idx = Lanes(proto) /\ DOMAIN cur = Lanes(proto)
  /\ \A l \in Lanes(proto) : val[l] \in Nat \cup {NaN} /\ idx[l] \in Nat /\ cur[l] \in Nat
  /\ best \in Nat \cup {NaN} /\ index \in Nat \cup {AllOnes} /\ target \in Int

(* The points a call looks at, and the best of them.                       *)
Looked == 0 .. (IF proto.capped /\ Len(src) > Cap THEN Cap ELSE Len(src)) - 1
IsBest(p) == p \in Looked /\ \A q \in Looked : At(q) <= At(p)
IsFirstBest(p) == IsBest(p) /\ \A q \in Looked : At(q) = At(p) => p <= q

(* No index has to be rounded; equal values are told apart by the index.   *)
Counts == (proto.laneFloat \/ proto.tailFloat) => n <= Exact
TieSafe == proto.takes # "greaterEqual" /\ (proto.ties \/ proto.reduce = "vector" \/ proto.width = 0)

(* Whatever the width and the order of the lanes, however equal values are *)
(* spread over lanes, vectors and tail, the first of them is returned      *)
(* (every index kernel but avx2 and sse3 of the complex ones).             *)
FirstBest ==
  pc = "done" /\ Comparable(src) /\ Counts /\ TieSafe => IsFirstBest(target)

(* avx2 and sse3 may return a later one, but never the index of anything   *)
(* worse.                                                                  *)
BestFound ==
  pc = "done" /\ Comparable(src) /\ Counts => IsBest(target)

(* A NaN does not displace a number where comparisons are ordered and the  *)
(* lanes blended (vector_32fc_index_max_variant0 and 1, x86 and generic).  *)
NumberFound ==
  LET numbers == {p \in Looked : At(p) # NaN}
  IN  /\ pc = "done" /\ Counts
      /\ ~proto.maxNaN /\ proto.takes = "greater" /\ (proto.first => src[1] # NaN)
      /\ \E p \in numbers : At(p) > Floor
      => target \in numbers /\ \A q \in numbers : At(q) <= At(target)

(* Also with NaNs among the values the index is one of a point, except     *)
(* where lanes that may hold a NaN are reduced in registers (neonv8).      *)
InRange ==
  /\ pc = "done" /\ Counts
  /\ proto.reduce = "vector" /\ proto.maxNaN => Comparable(src)
  => target \in Looked

(* NaNs do no more harm than this (the index kernels' comparisons).        *)
NaNsHarmless == NumberFound /\ InRange

(* The promise of volk_32f_index_max_32u.h:28, "the index of the first     *)
(* maximum value in the input buffer", for every length.                   *)
FirstMaximum ==
  pc = "done" /\ Comparable(src) /\ TieSafe => IsFirstBest(target)
=============================================================================
