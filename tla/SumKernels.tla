------------------------------ MODULE SumKernels ------------------------------
(***************************************************************************)
(* The stream kernels that add up what they compute of their points (dot   *)
(* products, accumulators, the sums a standard deviation is made of):      *)
(* every round of a loop adds to accumulators, which are the lanes of      *)
(* registers; between two loops, and behind the last, the lanes are added  *)
(* up to fewer; and the result is a number or two, stored at the end.  The *)
(* loops, their rounds and pointers are those of StreamKernels.            *)
(*                                                                         *)
(* An accumulator is kept as its summands, one for each round, so that the *)
(* elements in them can be numbered from the round's first point.          *)
(***************************************************************************)
EXTENDS StreamKernels, SymbolicLanes

VARIABLES
  acc,     (* for each round, by its first point: how many points it took,  *)
           (* and the part of the accumulators that comes from it           *)
  sum      (* the same of the results, once they are stored                 *)

sumVars == <<vars, acc, sum>>

(* Sums of lanes: each form says how often it takes each of the lanes; and *)
(* the part of a round when its lanes are summed like that.                *)
Multiple(k, t) == {<<r[1], k * r[2]>> : r \in t}
Combined(form, lanes) ==
  FoldSet(LAMBDA r, t : Multiple(r[2], lanes[r[1]]) ++ t, Zero, form)
Sums(forms, lanes) == [l \in DOMAIN forms |-> Combined(forms[l], lanes)]
Reduced(forms, part) == [points |-> part.points, lanes |-> Sums(forms, part.lanes)]

(* Mutant of Accumulated: the vector is moved to the accumulator instead   *)
(* of being added to it.                                                   *)
AccumulatedAnew(k) == [f \in {pos} |-> [points |-> k, lanes |-> Loops[loop].adds[k]]]

(* The accumulators after a round of k points.                             *)
Accumulated(k) ==
  [f \in DOMAIN acc \cup {pos} |->
     IF f = pos THEN [points |-> k, lanes |-> Loops[loop].adds[k]] ELSE acc[f]]

SumInit == Init /\ acc = <<>> /\ sum = <<>>

SumBegin == Begin /\ UNCHANGED <<acc, sum>>
SumRound == Round /\ acc' = Accumulated(pos' - pos) /\ UNCHANGED sum
SumNextLoop ==
  /\ NextLoop
  /\ acc' = [f \in DOMAIN acc |-> Reduced(Loops[loop'].carry, acc[f])]
  /\ UNCHANGED sum
SumFinish ==
  /\ Finish
  /\ sum' = [f \in DOMAIN acc |-> Reduced(proto.sums, acc[f])]
  /\ UNCHANGED acc
SumReturn == Return /\ acc' = <<>> /\ sum' = <<>>

SumNext == SumBegin \/ SumRound \/ SumNextLoop \/ SumFinish \/ SumReturn

SumSpec == SumInit /\ [][SumNext]_sumVars

-----------------------------------------------------------------------------
(* However many accumulators there are, whatever they hold in which lane,  *)
(* and in however many steps they are added up: every point is counted by  *)
(* exactly one round, and what is left of this round in the results is     *)
(* what `generic` adds for its points.  A lane that is left out or taken   *)
(* twice, or an accumulator that the next loop starts anew, is a wrong     *)
(* result for some num_points only.                                        *)
GenericTotal(k, o) == Total([p \in 1 .. k |-> proto.total[p][o]])
Covers(parts, f, q) == q \in f .. f + parts[f].points - 1
CountedOnce ==
  \A q \in 0 .. n - 1 : Cardinality({f \in DOMAIN sum : Covers(sum, f, q)}) = 1
SummedAsGeneric ==
  \A f \in DOMAIN sum :
    sum[f].lanes = [o \in DOMAIN proto.sums |-> GenericTotal(sum[f].points, o)]
SumAsGeneric == pc = "done" => CountedOnce /\ SummedAsGeneric
==============================================================================
