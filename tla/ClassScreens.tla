----------------------------- MODULE ClassScreens -----------------------------
(***************************************************************************)
(* The screens of classes.py: whether a generator is admissible, whether   *)
(* the values of a function lie in the image of the disk, whether one      *)
(* image contains another.  An image is the polygon through sampled points *)
(* of its boundary; a point is inside when the polygon winds once around   *)
(* it.                                                                     *)
(*                                                                         *)
(* Points are pairs of integers, so that the crossings are computed        *)
(* exactly; NaN is a value of the function that is not finite.             *)
(***************************************************************************)
EXTENDS AnalysisRecord, Integers, Sequences, FiniteSetsExt

CONSTANTS
  NaN,      \* a complex number that is not finite
  Curves,   \* sampled boundaries: closed polygons, sequences of points
  Samples   \* sequences of the values that are tested

ASSUME ScreenAssumption ==
  /\ Curves \subseteq Seq(Int \X Int)
  /\ Samples \subseteq Seq((Int \X Int) \cup {NaN})
  /\ NaN \notin Int \X Int /\ None \notin (Int \X Int) \cup {NaN}

VARIABLES
  screen,     \* the screen asked for
  curve,      \* the boundary of the image; class_admissibility has none
  values,     \* the values to test
  kpc,        \* the next step of the screen
  tested,     \* how many values it has taken
  inside,     \* how many of them were inside
  total,      \* how many of them were finite
  outsider    \* the first one that was not inside, or None

sampleVars == <<screen, curve, values>>
screenVars == <<sampleVars, kpc, tested, inside, total, outsider>>

X(p) == p[1]
Y(p) == p[2]
From(c, i) == c[i]
To(c, i) == c[(i % Len(c)) + 1]

\* A mistake: every edge that the ray meets counts the same.
CrossingUnsigned(p, a, b) ==
  LET side == (Y(p) - Y(a)) * (X(b) - X(a)) - (X(p) - X(a)) * (Y(b) - Y(a))
  IN IF (Y(a) <= Y(p) /\ Y(p) < Y(b) /\ side > 0) \/ (Y(b) <= Y(p) /\ Y(p) < Y(a) /\ side < 0)
     THEN 1 ELSE 0

\* The ray from p to the right meets the edge from a to b: upwards or downwards.
Crossing(p, a, b) ==
  LET side == (Y(p) - Y(a)) * (X(b) - X(a)) - (X(p) - X(a)) * (Y(b) - Y(a))
  IN IF Y(a) <= Y(p) /\ Y(p) < Y(b) /\ side > 0 THEN 1
     ELSE IF Y(b) <= Y(p) /\ Y(p) < Y(a) /\ side < 0 THEN -1
     ELSE 0

\* _winding_number
Winding(p, c) == MapThenSumSet(LAMBDA i : Crossing(p, From(c, i), To(c, i)), DOMAIN c)

\* No comparison with NaN is true.
Inside(p, c) == p # NaN /\ Winding(p, c) = 1

-----------------------------------------------------------------------------
ScreenInit ==
  /\ \/ screen = "admissibility" /\ curve = None /\ values = <<>>
     \/ /\ screen \in {"membership", "containment"}
        /\ curve \in Curves /\ values \in Samples
  /\ kpc = "test" /\ tested = 0 /\ inside = 0 /\ total = 0 /\ outsider = None

TestValue ==
  LET w == values[tested + 1]
  IN /\ kpc = "test" /\ screen # "admissibility" /\ tested < Len(values)
     /\ tested' = tested + 1
     /\ IF screen = "membership" /\ w = NaN
        THEN UNCHANGED <<inside, total, outsider>>
        ELSE /\ total' = total + 1
             /\ inside' = IF Inside(w, curve) THEN inside + 1 ELSE inside
             /\ outsider' = IF outsider = None /\ ~Inside(w, curve) THEN w ELSE outsider
     /\ UNCHANGED <<sampleVars, kpc, recordVars>>

Contained == inside = total

Screened(type, checks, finite, says) ==
  Returned(type, "numerical_screen", "screen", checks, finite, says)

Outcome(holds) == MakeCheck(IF holds THEN "pass" ELSE "fail", TRUE)

\* The least distance to the boundary stays infinite if no value is inside.
MembershipResult ==
  Screened("class_membership",
    [input_finite |-> MakeCheck("pass", TRUE),
     subordination_winding_screen |-> Outcome(Contained)],
    inside > 0, [holds |-> Contained, witness |-> IF Contained THEN None ELSE outsider])

ContainmentResult ==
  Screened("class_containment", [inner_curve_inside_outer |-> Outcome(Contained)],
    outsider # NaN, [holds |-> Contained, witness |-> outsider])

EndSampling ==
  /\ kpc = "test" /\ screen # "admissibility" /\ tested = Len(values)
  /\ IF screen = "membership" /\ total = 0
     THEN kpc' = "error" /\ UNCHANGED result
     ELSE /\ kpc' = "done"
          /\ result' = IF screen = "membership" THEN MembershipResult ELSE ContainmentResult
  /\ UNCHANGED <<sampleVars, tested, inside, total, outsider, record, accepted>>

\* class_admissibility: two exact checks, three screens whose margins may
\* not exist.
Admissibility ==
  /\ kpc = "test" /\ screen = "admissibility"
  /\ \E phi0, derivative \in BOOLEAN, re, symmetry, star \in {"holds", "fails", "undefined"} :
       result' = Screened("class_admissibility",
         [phi0_equals_1 |-> Outcome(phi0), phi_prime0_positive |-> Outcome(derivative),
          re_phi_positive |-> Outcome(re = "holds"),
          real_coefficients_symmetry |-> Outcome(symmetry = "holds"),
          starlike_wrt_1 |-> Outcome(star = "holds")],
         "undefined" \notin {re, symmetry, star},
         [holds |-> phi0 /\ derivative /\ {re, symmetry, star} = {"holds"},
          witness |-> None])
  /\ kpc' = "done"
  /\ UNCHANGED <<sampleVars, tested, inside, total, outsider, record, accepted>>

ScreenStep == TestValue \/ EndSampling \/ Admissibility

-----------------------------------------------------------------------------
(* Properties *)

\* The winding number again, by the edges above the point.
CrossingAbove(p, a, b) ==
  LET side == (X(p) - X(a)) * (Y(b) - Y(a)) - (Y(p) - Y(a)) * (X(b) - X(a))
  IN IF X(b) <= X(p) /\ X(p) < X(a) /\ side < 0 THEN 1
     ELSE IF X(a) <= X(p) /\ X(p) < X(b) /\ side > 0 THEN -1
     ELSE 0
WindingAbove(p, c) == MapThenSumSet(LAMBDA i : CrossingAbove(p, From(c, i), To(c, i)), DOMAIN c)

OnEdge(p, a, b) ==
  /\ (X(p) - X(a)) * (Y(b) - Y(a)) = (Y(p) - Y(a)) * (X(b) - X(a))
  /\ X(p) \in (IF X(a) <= X(b) THEN X(a)..X(b) ELSE X(b)..X(a))
  /\ Y(p) \in (IF Y(a) <= Y(b) THEN Y(a)..Y(b) ELSE Y(b)..Y(a))
Clear(p, c) == \A i \in DOMAIN c : ~OnEdge(p, From(c, i), To(c, i))

\* A screen passes exactly when the boundary winds once, counter-clockwise,
\* around every value tested, however often it crosses itself, and names a value
\* it does not wind around once otherwise (classes.py 78-91, 393-413, 525-539).
ScreenVerdictTrue ==
  kpc = "done" /\ screen # "admissibility" =>
    LET finite == {i \in DOMAIN values : values[i] # NaN}
        within(p) == WindingAbove(p, curve) = 1
        w == result.says.witness
    IN (\A i \in finite : Clear(values[i], curve)) =>
         IF result.says.holds
         THEN w = None /\ \A i \in finite : within(values[i])
         ELSE w = NaN \/ (\E i \in finite : values[i] = w /\ ~within(w))
=============================================================================
