-------------------------------- MODULE Rotator --------------------------------
(***************************************************************************)
(* The rotator (kernels/volk/volk_32fc_s32fc_x2_rotator2_32fc.h): point by *)
(* point the input is multiplied by a phase that advances by an increment, *)
(* and the phase is left for the next call, perhaps of another of the      *)
(* implementations.                                                        *)
(*                                                                         *)
(* A phase is a number of increments: what is multiplied is added, and     *)
(* dividing by the absolute value changes nothing.  (The rounding that the *)
(* implementations fight is left out, and both the phase and the increment *)
(* have to have the absolute value 1.)                                     *)
(***************************************************************************)
EXTENDS Integers

CONSTANTS
  Rotators,   (* the implementations: [kind, width]                         *)
  Reload,     (* ROTATOR_RELOAD                                             *)
  Lengths,    (* the numbers of points of calls                             *)
  MaxPhase    (* a bound of the phase with which calls begin                *)

(* The kinds: "point" by point; vectors of phases that are set again from  *)
(* an "angle"; and "vector"s of varying length (RVV).                      *)
ASSUME RotatorAssumption ==
  /\ \A r \in Rotators : r.width \in Nat \ {0} /\ Reload % r.width = 0
  /\ Reload \in Nat \ {0} /\ Lengths \subseteq Nat /\ MaxPhase \in Nat

VARIABLES
  stage,   (* "idle", the loop that runs: "blocks", "rest" or "tail"; "done" *)
  rotator, (* the implementation that runs                                  *)
  num_points,
  reloads, (* how many blocks of Reload points are complete                 *)
  round,   (* the counter of the loop that runs, in the block               *)
  at,      (* how many points have been rotated                             *)
  phases,  (* the vector of phases: those of its lanes that are defined     *)
  vl,      (* how many of them the last round of RVV took                   *)
  angle,   (* angle_sum                                                     *)
  phase,   (* *phase                                                        *)
  turned,  (* by how much each point was rotated                            *)
  began    (* *phase when the function was called; not in the code          *)

rotVars ==
  <<stage, rotator, num_points, reloads, round, at, phases, vl, angle, phase, turned, began>>

W == rotator.width
Kind(k) == rotator.kind = k
LaneNumbers == 0 .. W - 1

NoRotator == [kind |-> "point", width |-> 1]

RotInit ==
  /\ stage = "idle" /\ rotator = NoRotator /\ num_points = 0
  /\ reloads = 0 /\ round = 0 /\ at = 0 /\ phases = <<>> /\ vl = 0
  /\ angle = 0 /\ phase = 0 /\ turned = <<>> /\ began = 0

(* The phases of the lanes are set from the first of them.                 *)
LanesFrom(a) == [k \in 0 .. rotator'.width - 1 |-> a + k]

(* The function is called, with the phase as the last call has left it or  *)
(* with another one; the angle is that of *phase.                          *)
Call(r, m) ==
  /\ stage = "idle"
  /\ phase' \in {phase, 0} \cap -MaxPhase .. MaxPhase
  /\ stage' = "blocks" /\ rotator' = r /\ num_points' = m
  /\ phases' = LanesFrom(phase') /\ angle' = phase' /\ began' = phase'
  /\ UNCHANGED <<reloads, round, at, vl, turned>>

(* The next k points are rotated by the phases p[0], p[1], ...             *)
Turn(k, p) ==
  /\ turned' = [q \in 0 .. at + k - 1 |-> IF q < at THEN turned[q] ELSE p[q - at]]
  /\ at' = at + k
  /\ round' = round + 1

-----------------------------------------------------------------------------
(* By points: the phase is normalized behind each block of ROTATOR_RELOAD  *)
(* points and behind the rest.                                             *)
PointTurned == Turn(1, [k \in {0} |-> phase]) /\ phase' = phase + 1

Point ==
  /\ Kind("point")
  /\ \/ stage = "blocks" /\ reloads < num_points \div Reload /\ round < Reload
     \/ stage = "rest" /\ round < num_points % Reload
  /\ PointTurned
  /\ UNCHANGED <<stage, rotator, num_points, reloads, phases, vl, angle, began>>

PointBlock ==
  /\ Kind("point") /\ stage = "blocks" /\ reloads < num_points \div Reload /\ round = Reload
  /\ reloads' = reloads + 1 /\ round' = 0
  /\ UNCHANGED <<stage, rotator, num_points, at, phases, vl, angle, phase, turned, began>>

PointEnd ==
  /\ Kind("point") /\ stage = "rest" /\ round = num_points % Reload
  /\ stage' = "done"
  /\ UNCHANGED <<rotator, num_points, reloads, round, at, phases, vl, angle, phase>>
  /\ UNCHANGED <<turned, began>>

-----------------------------------------------------------------------------
(* Vectors of W points; incr is the W-th power of the increment.           *)
VectorTurned ==
  /\ Turn(W, phases)
  /\ phases' = [k \in LaneNumbers |-> phases[k] + W]

InBlock ==
  /\ Kind("angle") /\ stage = "blocks"
  /\ reloads < num_points \div Reload /\ round < Reload \div W
  /\ VectorTurned
  /\ UNCHANGED <<stage, rotator, num_points, reloads, vl, angle, phase, began>>

(* Mutant of Resync: the angle is that of the block before.                *)
ResyncLate ==
  /\ Kind("angle") /\ stage = "blocks"
  /\ reloads < num_points \div Reload /\ round = Reload \div W
  /\ reloads' = reloads + 1 /\ round' = 0
  /\ angle' = angle + Reload /\ rotator' = rotator
  /\ phases' = LanesFrom(angle)
  /\ UNCHANGED <<stage, num_points, at, vl, phase, turned, began>>

(* Behind a block the angle is advanced and the phases are set from it.    *)
Resync ==
  /\ Kind("angle") /\ stage = "blocks"
  /\ reloads < num_points \div Reload /\ round = Reload \div W
  /\ reloads' = reloads + 1 /\ round' = 0
  /\ angle' = angle + Reload /\ rotator' = rotator
  /\ phases' = LanesFrom(angle')
  /\ UNCHANGED <<stage, num_points, at, vl, phase, turned, began>>

BlocksEnd ==
  /\ ~Kind("vector") /\ stage = "blocks" /\ reloads = num_points \div Reload
  /\ stage' = "rest" /\ round' = 0
  /\ UNCHANGED <<rotator, num_points, reloads, at, phases, vl, angle, phase, turned, began>>

InRest ==
  /\ Kind("angle") /\ stage = "rest" /\ round < (num_points % Reload) \div W
  /\ VectorTurned /\ angle' = angle + W
  /\ UNCHANGED <<stage, rotator, num_points, reloads, vl, phase, began>>

(* The phase for the scalar remainder, which is that for the next call if  *)
(* there is none.                                                          *)
RestEnd ==
  /\ Kind("angle") /\ stage = "rest" /\ round = (num_points % Reload) \div W
  /\ stage' = "tail" /\ round' = 0 /\ phase' = angle
  /\ UNCHANGED <<rotator, num_points, reloads, at, phases, vl, angle, turned, began>>

TailTurned ==
  /\ Kind("angle") /\ stage = "tail" /\ round < num_points % W
  /\ PointTurned /\ angle' = angle + 1
  /\ UNCHANGED <<stage, rotator, num_points, reloads, phases, vl, began>>

TailEnd ==
  /\ Kind("angle") /\ stage = "tail" /\ round = num_points % W
  /\ stage' = "done"
  /\ UNCHANGED <<rotator, num_points, reloads, round, at, phases, vl, angle, phase>>
  /\ UNCHANGED <<turned, began>>

-----------------------------------------------------------------------------
(* RVV: the points of this block that are left, or all lanes of a vector.  *)
(* The lanes behind vl are not defined any more (tail agnostic).           *)
AtMost(k, most) == IF k < most THEN k ELSE most
BlockStop == AtMost(num_points, (reloads + 1) * Reload)

Taken == AtMost(BlockStop - at, W)

InVectors ==
  /\ Kind("vector") /\ stage = "blocks" /\ at < BlockStop
  /\ vl' = Taken
  /\ Turn(vl', phases)
  /\ phases' = [k \in 0 .. vl' - 1 |-> phases[k] + W]
  /\ UNCHANGED <<stage, rotator, num_points, reloads, angle, phase, began>>

(* Between two blocks the vl phases are normalized.                        *)
VectorBlock ==
  /\ Kind("vector") /\ stage = "blocks" /\ at = BlockStop /\ at < num_points
  /\ reloads' = reloads + 1 /\ round' = 0
  /\ phases' = [k \in 0 .. vl - 1 |-> phases[k]]
  /\ UNCHANGED <<stage, rotator, num_points, at, vl, angle, phase, turned, began>>

(* The last round has moved its lanes on by all of a vector: so many steps *)
(* back.  Before the first round vl is 0.                                  *)
VectorsEnd ==
  /\ Kind("vector") /\ stage = "blocks" /\ at = num_points
  /\ stage' = "done" /\ phase' = phases[0] - (W - vl)
  /\ UNCHANGED <<rotator, num_points, reloads, round, at, phases, vl, angle, turned, began>>

Leave ==
  /\ stage = "done"
  /\ stage' = "idle" /\ rotator' = NoRotator /\ num_points' = 0
  /\ reloads' = 0 /\ round' = 0 /\ at' = 0 /\ phases' = <<>> /\ vl' = 0
  /\ angle' = 0 /\ turned' = <<>> /\ began' = 0
  /\ UNCHANGED phase

PointStep == Point \/ PointBlock \/ PointEnd
AngleStep == InBlock \/ Resync \/ InRest \/ RestEnd \/ TailTurned \/ TailEnd
VectorStep == InVectors \/ VectorBlock \/ VectorsEnd

RotNext ==
  \/ \E r \in Rotators, m \in Lengths : Call(r, m)
  \/ PointStep \/ AngleStep \/ VectorStep \/ BlocksEnd \/ Leave

RotSpec == RotInit /\ [][RotNext]_rotVars

-----------------------------------------------------------------------------
(* Whatever the lengths of the blocks, the vectors and the call: every     *)
(* point is rotated once, by as many increments as there are points before *)
(* it, although vectors, angle and scalar phase are advanced separately.   *)
TurnedInStep ==
  /\ \A q \in 0 .. at - 1 : turned[q] = began + q
  /\ stage = "done" => at = num_points

(* A call leaves the phase that the point behind its last one has to have: *)
(* two calls are one call of both lengths, whichever implementations run.  *)
(* The exception are calls of RVV's functions with no points, which step   *)
(* back although no round has moved the lanes on.                          *)
PhaseGoesOn ==
  stage = "done" =>
    phase = began + (IF Kind("vector") /\ num_points = 0 THEN -W ELSE num_points)

(* No round of RVV takes a lane that a shorter one before it has left      *)
(* undefined ("vl<vlmax can only happen on the last iteration of the       *)
(* loops", line 875), and lane 0 is there at the end.                      *)
NoLaneLost ==
  Kind("vector") /\ stage = "blocks" =>
    /\ 0 \in DOMAIN phases
    /\ at < BlockStop => 0 .. Taken - 1 \subseteq DOMAIN phases

(* All calls together, whichever of the implementations takes which of     *)
(* them, turn the points of a long signal one increment after the other:   *)
(* within a call, from call to call, and in all lanes.                     *)
RotatorRight == TurnedInStep /\ PhaseGoesOn /\ NoLaneLost

-----------------------------------------------------------------------------
(* The implementations, named like the C functions, and those of the       *)
(* puppet, which the test runner and volk_profile run in their place.      *)
ByPoints == [kind |-> "point", width |-> 1]
Angles(w) == [kind |-> "angle", width |-> w]
Vectors(vlmax) == [kind |-> "vector", width |-> vlmax]
VLMax == 4      (* of the hardware; a power of two                         *)

volk_32fc_s32fc_x2_rotator2_32fc_generic == ByPoints
volk_32fc_s32fc_x2_rotator2_32fc_neon == Angles(4)
volk_32fc_s32fc_x2_rotator2_32fc_a_avx == Angles(4)
volk_32fc_s32fc_x2_rotator2_32fc_u_avx == Angles(4)
volk_32fc_s32fc_x2_rotator2_32fc_a_avx512f == Angles(8)
volk_32fc_s32fc_x2_rotator2_32fc_u_avx512f == Angles(8)
volk_32fc_s32fc_x2_rotator2_32fc_rvv == Vectors(VLMax)
volk_32fc_s32fc_x2_rotator2_32fc_rvvseg == Vectors(VLMax)

(* Each calls the rotator's function of its own name, but for the last.    *)
volk_32fc_s32fc_rotator2puppet_32fc_generic == volk_32fc_s32fc_x2_rotator2_32fc_generic
volk_32fc_s32fc_rotator2puppet_32fc_neon == volk_32fc_s32fc_x2_rotator2_32fc_neon
volk_32fc_s32fc_rotator2puppet_32fc_a_avx == volk_32fc_s32fc_x2_rotator2_32fc_a_avx
volk_32fc_s32fc_rotator2puppet_32fc_u_avx == volk_32fc_s32fc_x2_rotator2_32fc_u_avx
volk_32fc_s32fc_rotator2puppet_32fc_a_avx512f == volk_32fc_s32fc_x2_rotator2_32fc_a_avx512f
volk_32fc_s32fc_rotator2puppet_32fc_u_avx512f == volk_32fc_s32fc_x2_rotator2_32fc_u_avx512f
volk_32fc_s32fc_rotator2puppet_32fc_rvv == volk_32fc_s32fc_x2_rotator2_32fc_rvv
volk_32fc_s32fc_rotator2puppet_32fc_rvvseg == volk_32fc_s32fc_x2_rotator2_32fc_rvv
=============================================================================
