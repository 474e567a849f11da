------------------------------- MODULE MCAngles -------------------------------
(* Angles in which both the vectors of x86 and those of RVV go wrong: below *)
(* -5/4 pi, where the octant 5 is also rounded up.                          *)
EXTENDS Angles

ManyTurns == {-71, -69, -67}
===============================================================================
