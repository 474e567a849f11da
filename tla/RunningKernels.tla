---------------------------- MODULE RunningKernels ----------------------------
(***************************************************************************)
(* The two kernels in which what becomes of a point depends on the points  *)
(* before it: volk_32f_s32f_32f_fm_detect_32f, differences of neighbours,  *)
(* of which the first has its neighbour in the call before; and            *)
(* volk_32f_stddev_and_mean_32f_x2, in whose lanes sums run together with  *)
(* sums of squares around a mean that is not known yet, to be joined at    *)
(* the end, partition by partition (Youngs and Cramer).                    *)
(*                                                                         *)
(* Arithmetic is exact.  The last steps, a division by num_points and a    *)
(* square root, are the same in all functions and left out.                *)
(***************************************************************************)
EXTENDS Integers, FiniteSetsExt, SequencesExt

CONSTANTS
  Detectors,  (* the functions that detect: [kind, width]                   *)
  Signal,     (* the phases that come in, in (-Bound, Bound], and before    *)
              (* them the one that *saveValue is at first                   *)
  Bound,
  Chunks,     (* the numbers of points of calls                             *)
  Deviators,  (* the functions that find deviations: [kind, width]          *)
  Inputs(_)   (* the points each of them is called with                     *)

(* A power of two: no odd number but 1 divides it.                         *)
IsPowerOfTwo(n) == n \in Nat \ {0} /\ \A d \in 2 .. n : n % d = 0 => d % 2 = 0

ASSUME RunningAssumption ==
  /\ Bound \in Nat \ {0} /\ Signal \in Seq(1 - Bound .. Bound) /\ Signal # <<>>
  /\ Chunks \subseteq Nat
  /\ \A d \in Detectors : d.width \in Nat \ {0}
  /\ \A d \in Deviators : IsPowerOfTwo(d.width) /\ Inputs(d) \subseteq Seq(Int)

VARIABLES
  saved,      (* *saveValue                                                 *)
  taken,      (* how many phases have come in, the first as *saveValue      *)
  heard,      (* the outputs of all calls, one after the other              *)
  devPc,          (* "idle", "lanes", "accrue" or "tail"                    *)
  deviator,       (* the function that finds a deviation                    *)
  inputBuffer,
  partitions,     (* the sums, and sums of squares, of the lanes            *)
  partition_len,  (* how many values each partition holds                   *)
  offset,         (* where the next stage finds a partition's neighbour     *)
  points_done

detectVars == <<saved, taken, heard>>
deviationVars ==
  <<devPc, deviator, inputBuffer, partitions, partition_len, offset, points_done>>

-----------------------------------------------------------------------------
(* A difference comes back into the bounds: by comparisons, one after the  *)
(* other; in vectors, by what the masks of both comparisons leave.         *)
Wrapped(d) ==
  LET once == IF d > Bound THEN d - 2 * Bound ELSE d
  IN  IF once < -Bound THEN once + 2 * Bound ELSE once
WrappedByMasks(d) ==
  d + (IF d > Bound THEN -2 * Bound ELSE 0) + (IF d < -Bound THEN 2 * Bound ELSE 0)

DifferenceAt(x, last, q) == x[q] - (IF q = 1 THEN last ELSE x[q - 1])

(* Mutant of LeftOver: the tail begins behind a vector there was not.      *)
LeftOverNext(m, b) == Max({0, m - Max({b, b * ((m - 1) \div b + 1)})})

(* How many points the loops of vectors and the tail take: of the (m - 1)  *)
(* \div b vectors, the first has been done by hand.                        *)
VectorRounds(m, b) == Max({0, (m - 1) \div b - 1})
LeftOver(m, b) == Max({0, m - Max({b, b * ((m - 1) \div b)})})

(* All loops go on with the same pointers.                                 *)
Detected(d, x, last) ==
  LET m == Len(x)
      first == IF d.kind = "point" THEN 1 ELSE Min({d.width, m})
      vectors == IF d.kind = "point" THEN 0 ELSE d.width * VectorRounds(m, d.width)
      rest == IF d.kind = "point" THEN m - 1 ELSE LeftOver(m, d.width)
      Of(q) == DifferenceAt(x, last, q)
  IN  [j \in 1 .. first |-> Wrapped(Of(j))]
        \o [j \in 1 .. vectors |-> WrappedByMasks(Of(first + j))]
        \o [j \in 1 .. rest |-> Wrapped(Of(first + vectors + j))]

(* A call on the next m phases of the signal.                              *)
Detect(d, m) ==
  /\ taken + m <= Len(Signal)
  /\ taken' = taken + m
  /\ IF m = 0 THEN UNCHANGED <<saved, heard>>
     ELSE LET x == SubSeq(Signal, taken + 1, taken + m)
          IN  heard' = heard \o Detected(d, x, saved) /\ saved' = x[m]

DetectInit == saved = Signal[1] /\ taken = 1 /\ heard = <<>>
DetectNext == \E d \in Detectors, m \in Chunks : Detect(d, m)
DetectSpec == DetectInit /\ [][DetectNext]_detectVars

-----------------------------------------------------------------------------
(* Quotients, in lowest terms.                                             *)
Quot(a, b) ==
  LET gcd[d \in 0 .. b] == [c \in Nat |-> IF d = 0 THEN c ELSE gcd[c % d][d]]
      g == gcd[b][a]
  IN  [num |-> a \div g, den |-> b \div g]
Added(f, g) == Quot(f.num * g.den + g.num * f.den, f.den * g.den)

(* A partition: some of the points, by their sum and the sum of the        *)
(* squares of their distances from their mean.  One value is added to a    *)
(* partition of k values; two partitions of k values each are joined.      *)
Partition(sum, squares) == [sum |-> sum, squares |-> squares]
Single(v) == Partition(v, Quot(0, 1))
Updated(p, k, v) ==
  LET sum == p.sum + v
      apart == (k + 1) * v - sum
  IN  Partition(sum, Added(p.squares, Quot(apart * apart, k * (k + 1))))
United(p, q, k) ==
  LET apart == p.sum - q.sum
  IN  Partition(p.sum + q.sum,
                Added(Added(p.squares, q.squares), Quot(apart * apart, 2 * k)))

(* A call on the points x.  One with fewer of them than lanes is handed on *)
(* to generic, which has two lanes, or one if there is one point; without  *)
(* points it returns.  The first points make the lanes.                    *)
TwoLanes == [kind |-> "halves", width |-> 2]
NoDeviator == [kind |-> "none", width |-> 0]
Deviate(d, x) ==
  /\ devPc = "idle" /\ x # <<>>
  /\ devPc' = "lanes" /\ inputBuffer' = x
  /\ deviator' = IF Len(x) < d.width THEN TwoLanes ELSE d
  /\ points_done' = Min({deviator'.width, Len(x)})
  /\ partitions' = [l \in 1 .. points_done' |-> Single(x[l])]
  /\ partition_len' = 1 /\ offset' = 1

(* A round of the loop over vectors.                                       *)
LaneRound ==
  /\ devPc = "lanes" /\ partition_len < Len(inputBuffer) \div Len(partitions)
  /\ partitions' = [l \in DOMAIN partitions |->
       Updated(partitions[l], partition_len, inputBuffer[points_done + l])]
  /\ partition_len' = partition_len + 1
  /\ points_done' = points_done + Len(partitions)
  /\ UNCHANGED <<devPc, deviator, inputBuffer, offset>>

LanesEnd ==
  /\ devPc = "lanes" /\ partition_len >= Len(inputBuffer) \div Len(partitions)
  /\ devPc' = "accrue"
  /\ UNCHANGED <<deviator, inputBuffer, partitions, partition_len, offset, points_done>>

(* Mutant of NeighboursJoined: partitions are taken to be as long as they  *)
(* were.                                                                   *)
NeighboursJoinedShort ==
  /\ partitions' = [i \in DOMAIN partitions |->
       IF (i - 1) % (2 * offset) = 0
       THEN United(partitions[i], partitions[i + offset], partition_len) ELSE partitions[i]]
  /\ offset' = 2 * offset /\ partition_len' = partition_len

(* Neighbours are joined, where the first of them is; their distance and   *)
(* the length of the partitions double.                                    *)
NeighboursJoined ==
  /\ partitions' = [i \in DOMAIN partitions |->
       IF (i - 1) % (2 * offset) = 0
       THEN United(partitions[i], partitions[i + offset], partition_len) ELSE partitions[i]]
  /\ offset' = 2 * offset /\ partition_len' = 2 * partition_len

(* The halves of register groups, then of one register, or the two lanes   *)
(* of generic, are joined.                                                 *)
HalvesJoined ==
  LET half == Len(partitions) \div 2
  IN  /\ partitions' = [l \in 1 .. half |->
           United(partitions[l], partitions[l + half], partition_len)]
      /\ partition_len' = 2 * partition_len /\ UNCHANGED offset

(* A stage: there is more than one partition left.                         *)
MoreStages == 2 * offset <= Len(partitions)
Accrue ==
  /\ devPc = "accrue" /\ MoreStages
  /\ IF deviator.kind = "array" THEN NeighboursJoined ELSE HalvesJoined
  /\ UNCHANGED <<devPc, deviator, inputBuffer, points_done>>

AccrueEnd ==
  /\ devPc = "accrue" /\ ~MoreStages
  /\ devPc' = "tail"
  /\ UNCHANGED <<deviator, inputBuffer, partitions, partition_len, offset, points_done>>

(* The points that are left, one by one, to the first partition.           *)
TailValue ==
  /\ devPc = "tail" /\ points_done < Len(inputBuffer)
  /\ partitions' = [partitions EXCEPT ![1] = Updated(@, points_done, inputBuffer[points_done + 1])]
  /\ points_done' = points_done + 1
  /\ UNCHANGED <<devPc, deviator, inputBuffer, partition_len, offset>>

NoDeviation ==
  /\ devPc = "idle" /\ deviator = NoDeviator /\ inputBuffer = <<>> /\ partitions = <<>>
  /\ partition_len = 0 /\ offset = 0 /\ points_done = 0
DeviationReturn ==
  /\ devPc = "tail" /\ points_done = Len(inputBuffer)
  /\ devPc' = "idle" /\ deviator' = NoDeviator /\ inputBuffer' = <<>> /\ partitions' = <<>>
  /\ partition_len' = 0 /\ offset' = 0 /\ points_done' = 0

DeviationNext ==
  \/ \E d \in Deviators : \E x \in Inputs(d) : Deviate(d, x)
  \/ LaneRound \/ LanesEnd \/ Accrue \/ AccrueEnd \/ TailValue
  \/ DeviationReturn

DeviationSpec == NoDeviation /\ [][DeviationNext]_deviationVars

-----------------------------------------------------------------------------
(* However the signal is cut into calls, whichever functions take turns:   *)
(* every point has one output, the difference from the point before it,    *)
(* perhaps in an earlier call, as it is within the bounds.                 *)
DetectRight ==
  /\ Len(heard) = taken - 1
  /\ \A q \in DOMAIN heard :
       /\ heard[q] \in -Bound .. Bound
       /\ (heard[q] - (Signal[q + 1] - Signal[q])) % (2 * Bound) = 0

(* Whatever lanes the points are in, and in however many stages they are   *)
(* put together: the sum is that of all m points, and the sum of squares   *)
(* times m is m times the sum of the squares less the square of the sum    *)
(* (volk_32f_stddev_and_mean_32f_x2).                                      *)
SumUpTo(f, m) ==
  LET upTo[n \in 0 .. m] == IF n = 0 THEN 0 ELSE upTo[n - 1] + f[n] IN upTo[m]
DeviationRight ==
  devPc = "tail" /\ points_done = Len(inputBuffer) =>
    LET m == Len(inputBuffer)
        sum == SumUpTo(inputBuffer, m)
        sum_of_squares == SumUpTo([q \in 1 .. m |-> inputBuffer[q] * inputBuffer[q]], m)
        squares == partitions[1].squares
    IN  /\ partitions[1].sum = sum
        /\ squares.den > 0
        /\ m * squares.num = squares.den * (m * sum_of_squares - sum * sum)

-----------------------------------------------------------------------------
(* The functions, named like those in C, and the lanes of RVV.             *)
Kinds(kind, w) == [kind |-> kind, width |-> w]
VLMAX == 16
volk_32f_s32f_32f_fm_detect_32f_generic == Kinds("point", 1)
volk_32f_s32f_32f_fm_detect_32f_rvv == Kinds("point", 1)
volk_32f_s32f_32f_fm_detect_32f_a_sse == Kinds("vector", 4)
volk_32f_s32f_32f_fm_detect_32f_neon == Kinds("vector", 4)
volk_32f_s32f_32f_fm_detect_32f_a_avx == Kinds("vector", 8)
volk_32f_s32f_32f_fm_detect_32f_u_avx == Kinds("vector", 8)
volk_32f_s32f_32f_fm_detect_32f_neonv8 == Kinds("vector", 8)
volk_32f_stddev_and_mean_32f_x2_generic == TwoLanes
volk_32f_stddev_and_mean_32f_x2_neon == Kinds("array", 8)
volk_32f_stddev_and_mean_32f_x2_u_sse == Kinds("array", 8)
volk_32f_stddev_and_mean_32f_x2_a_sse == Kinds("array", 8)
volk_32f_stddev_and_mean_32f_x2_u_avx == Kinds("array", 16)
volk_32f_stddev_and_mean_32f_x2_a_avx == Kinds("array", 16)
volk_32f_stddev_and_mean_32f_x2_rvv == Kinds("halves", VLMAX)

(* Each puppet calls the function of its own name, with a bound of 2.      *)
volk_32f_x2_fm_detectpuppet_32f_a_avx == volk_32f_s32f_32f_fm_detect_32f_a_avx
volk_32f_x2_fm_detectpuppet_32f_a_sse == volk_32f_s32f_32f_fm_detect_32f_a_sse
volk_32f_x2_fm_detectpuppet_32f_generic == volk_32f_s32f_32f_fm_detect_32f_generic
volk_32f_x2_fm_detectpuppet_32f_neon == volk_32f_s32f_32f_fm_detect_32f_neon
volk_32f_x2_fm_detectpuppet_32f_neonv8 == volk_32f_s32f_32f_fm_detect_32f_neonv8
volk_32f_x2_fm_detectpuppet_32f_u_avx == volk_32f_s32f_32f_fm_detect_32f_u_avx
volk_32f_x2_fm_detectpuppet_32f_rvv == volk_32f_s32f_32f_fm_detect_32f_rvv
===============================================================================
