------------------------------ MODULE Comparisons ------------------------------
(***************************************************************************)
(* fcompare, ccompare and icompare (lib/qa_utils.cc), by which             *)
(* run_volk_tests decides whether an implementation's output is that of    *)
(* generic.  One step looks at one point, of any values.                   *)
(*                                                                         *)
(* The values of a float are the whole numbers up to Largest, two          *)
(* infinities and one NaN; what is larger overflows, so that the square of *)
(* some has no place.  What is below 1e-30, or for complex values has a    *)
(* square that underflows, is 0.  Tolerances are so small that their       *)
(* squares have a place; those of relative errors are at most 1, as in     *)
(* kernel_tests.h, which volk_profile --tol can change.                    *)
(***************************************************************************)
EXTENDS Integers, FiniteSets

CONSTANTS
  Largest,     (* the largest float                                         *)
  Finite,      (* the finite values that are compared                       *)
  Tolerances,  (* tol as <<numerator, denominator>>                         *)
  Points       (* vlen                                                      *)

ASSUME ComparisonAssumption ==
  /\ Largest \in Nat /\ Finite \subseteq -Largest .. Largest
  /\ \A tol \in Tolerances :
       /\ tol[1] \in Nat /\ tol[2] \in Nat \ {0}
       /\ tol[1] * tol[1] <= Largest * (tol[2] * tol[2])
  /\ Points \in Nat

Infinity == Largest + 1
NaN == Largest + 2
Floats == Finite \cup {Infinity, -Infinity, NaN}
AsFloat(x) == IF x > Largest THEN Infinity ELSE IF x < -Largest THEN -Infinity ELSE x
Magnitude(x) == IF x < 0 THEN -x ELSE x
Squared(x) == AsFloat(x * x)

VARIABLES
  comparison,  (* [kind, absolute, tol] of the call, or NoComparison        *)
  point,       (* i                                                         *)
  failing,     (* fail                                                      *)
  apart        (* whether a point's values were apart, see Apart; not in    *)
               (* the code                                                  *)

comparisonVars == <<comparison, point, failing, apart>>
NoComparison == [kind |-> "none", absolute |-> FALSE, tol |-> <<0, 1>>]

CompareInit == comparison = NoComparison /\ point = 1 /\ failing = FALSE /\ apart = FALSE

-----------------------------------------------------------------------------
(* The points of one kind.  A real or whole number is a complex one on the *)
(* real line here.                                                         *)
Values(kind) ==
  CASE kind = "float"   -> Floats \X {0}
    [] kind = "complex" -> Floats \X Floats
    [] kind = "integer" -> Finite \X {0}

HasSpecial(z) == {Infinity, -Infinity, NaN} \cap {z[1], z[2]} # {}

(* Two NaNs match, and so do the same infinities, here as in the code,     *)
(* where only the NaNs need a case of their own.                           *)
Matches(expected, actual) == expected = actual

(* cmp_err > tol, for an error and a tolerance without and with the norm.  *)
Exceeds(err, tol) == err * tol[2] > tol[1]
ExceedsPart(err, norm, tol) == err * tol[2] > tol[1] * norm

FloatFails(expected, actual, absolute, tol) ==
  LET err == Magnitude(AsFloat(expected - actual))
  IN  IF absolute \/ expected = 0 THEN Exceeds(err, tol)
      ELSE ExceedsPart(err, Magnitude(expected), tol)

Squares(tol) == <<tol[1] * tol[1], tol[2] * tol[2]>>

(* Errors and norms are compared by their squares.  An infinite norm makes *)
(* err / norm 0 or a NaN, and neither is larger than tol.                  *)
ComplexFails(expected, actual, absolute, tol) ==
  LET diff == <<AsFloat(expected[1] - actual[1]), AsFloat(expected[2] - actual[2])>>
      err == AsFloat(Squared(diff[1]) + Squared(diff[2]))
      norm == AsFloat(Squared(expected[1]) + Squared(expected[2]))
  IN  IF absolute \/ norm = 0 THEN Exceeds(err, Squares(tol))
      ELSE norm # Infinity /\ ExceedsPart(err, norm, Squares(tol))

(* tol_i is tol without its fraction; absolute_mode is not asked for.      *)
IntegerFails(expected, actual, tol) == Magnitude(expected - actual) > tol[1] \div tol[2]

(* What is compared at one point.                                          *)
Fails(expected, actual) ==
  IF HasSpecial(expected) \/ HasSpecial(actual) THEN ~Matches(expected, actual)
  ELSE CASE comparison.kind = "float" ->
              FloatFails(expected[1], actual[1], comparison.absolute, comparison.tol)
         [] comparison.kind = "complex" ->
              ComplexFails(expected, actual, comparison.absolute, comparison.tol)
         [] OTHER -> IntegerFails(expected[1], actual[1], comparison.tol)

-----------------------------------------------------------------------------
(* What is asked: whether the values are apart by more than tol, or by     *)
(* more than tol of the expected one unless that is 0.  Where the squares  *)
(* of a complex value overflow, ccompare asks for nothing.                 *)
Norm(z) == z[1] * z[1] + z[2] * z[2]
Relative(kind, absolute) == ~absolute /\ kind # "integer"
Blind(expected) ==
  comparison.kind = "complex" /\ ~comparison.absolute /\ Norm(expected) > Largest

Apart(expected, actual) ==
  IF HasSpecial(expected) \/ HasSpecial(actual) THEN expected # actual
  ELSE /\ ~Blind(expected)
       /\ LET err == Norm(<<expected[1] - actual[1], expected[2] - actual[2]>>)
              squares == Squares(comparison.tol)
              part == Relative(comparison.kind, comparison.absolute) /\ Norm(expected) # 0
          IN  ExceedsPart(err, IF part THEN Norm(expected) ELSE 1, squares)

CompareCall(kind, absolute, tol) ==
  /\ comparison = NoComparison
  /\ comparison' = [kind |-> kind, absolute |-> absolute, tol |-> tol]
  /\ UNCHANGED <<point, failing, apart>>

(* Mutant of ComparePoint: the last point decides.                         *)
ComparePointLast(expected, actual) ==
  /\ comparison # NoComparison /\ point <= Points
  /\ failing' = Fails(expected, actual)
  /\ apart' = (apart \/ Apart(expected, actual))
  /\ point' = point + 1
  /\ UNCHANGED comparison

ComparePoint(expected, actual) ==
  /\ comparison # NoComparison /\ point <= Points
  /\ failing' = (failing \/ Fails(expected, actual))
  /\ apart' = (apart \/ Apart(expected, actual))
  /\ point' = point + 1
  /\ UNCHANGED comparison

CompareReturn ==
  /\ comparison # NoComparison /\ point > Points
  /\ comparison' = NoComparison /\ point' = 1 /\ failing' = FALSE /\ apart' = FALSE

CompareNext ==
  \/ \E kind \in {"float", "complex", "integer"}, absolute \in BOOLEAN, tol \in Tolerances :
       /\ Relative(kind, absolute) => tol[1] <= tol[2]
       /\ CompareCall(kind, absolute, tol)
  \/ /\ comparison # NoComparison
     /\ \E expected, actual \in Values(comparison.kind) : ComparePoint(expected, actual)
  \/ CompareReturn

CompareSpec == CompareInit /\ [][CompareNext]_comparisonVars

-----------------------------------------------------------------------------
(* A comparison fails exactly if two values are apart, also where they, or *)
(* their differences or squares, are infinite or no numbers, and however   *)
(* many points behind them agree (fcompare, ccompare, icompare).           *)
FailsIfApart == failing <=> apart
=============================================================================
