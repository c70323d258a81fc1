----------------------------- MODULE WitnessSearch -----------------------------
(***************************************************************************)
(* find_counterexample and verify_counterexample (counterexamples.py) for  *)
(* polynomials z + a2 z^2 + a3 z^3 and witnesses on the real axis: a grid  *)
(* proposes a point, interval arithmetic decides whether a criterion is    *)
(* violated there.                                                         *)
(*                                                                         *)
(* Coefficients and points are multiples of 1/Q.  Floating-point numbers   *)
(* are a small binary format: n stands for n/Unit, and significands have   *)
(* Digits bits.  Interval operations (mpmath) round outwards to it, as     *)
(* they do to 53 bits; with imaginary parts that are exactly 0, the        *)
(* complex ones are those of their real parts.                             *)
(***************************************************************************)
EXTENDS AnalysisRecord, Integers, Sequences, FiniteSetsExt

CONSTANTS
  Q,              \* coefficients and points are multiples of 1/Q
  Digits,         \* bits of a significand
  Polynomials,    \* the pairs <<a2, a3>> asked about
  Grid            \* the real points of the grid

Unit == Q * Q
Float(n) == n * Q       \* the float n/Q

\* The distance of consecutive floats around n, and the largest and smallest
\* float on either side of an integer.
Spacing(n) ==
  IF n < 2^Digits THEN 1
  ELSE 2^(CHOOSE k \in 1..n : 2^Digits * 2^(k - 1) <= n /\ n < 2^Digits * 2^k)
FloorDiv(a, b) == IF b > 0 THEN a \div b ELSE (-a) \div (-b)
CeilDiv(a, b) == -FloorDiv(-a, b)
Abs(n) == IF n < 0 THEN -n ELSE n
Down(n) == FloorDiv(n, Spacing(Abs(n))) * Spacing(Abs(n))
Up(n) == -Down(-n)

ASSUME WitnessAssumption ==
  /\ Q \in Nat \ {0} /\ Q % 2 = 0 /\ Digits \in Nat \ {0}     \* 3/2 is a multiple of 1/Unit
  /\ Polynomials \subseteq Int \X Int
  /\ \A z \in Grid : z \in -(Q - 1)..(Q - 1)
  /\ None \notin [point : Int, enclosure : [resolved : BOOLEAN, lower : Int, upper : Int,
                                            threshold : Int, certified : BOOLEAN]]

VARIABLES
  criterion,      \* the property asked
  coefficients,   \* <<a2, a3>>
  hint,           \* witness_hint, or None
  spc,            \* the next step of find_counterexample
  candidates,     \* the points still to try
  best            \* the best candidate so far, or None

questionVars == <<criterion, coefficients, hint>>
searchVars == <<questionVars, spc, candidates, best>>

-----------------------------------------------------------------------------
(* Interval arithmetic *)

Thin(n) == [lo |-> n, hi |-> n]
Between(lows, highs) == [lo |-> Down(Min(lows)), hi |-> Up(Max(highs))]
ContainsZero(x) == x.lo <= 0 /\ 0 <= x.hi

Plus(x, y) == [lo |-> Down(x.lo + y.lo), hi |-> Up(x.hi + y.hi)]
Minus(x, y) == [lo |-> Down(x.lo - y.hi), hi |-> Up(x.hi - y.lo)]
Ends(x) == {x.lo, x.hi}

Times(x, y) ==
  LET products == {a * b : a \in Ends(x), b \in Ends(y)}
  IN Between({FloorDiv(p, Unit) : p \in products}, {CeilDiv(p, Unit) : p \in products})

\* y does not contain 0.
Over(x, y) ==
  Between({FloorDiv(a * Unit, b) : a \in Ends(x), b \in Ends(y)},
          {CeilDiv(a * Unit, b) : a \in Ends(x), b \in Ends(y)})

Magnitude(x) ==
  IF ContainsZero(x) THEN [lo |-> 0, hi |-> Max({-x.lo, x.hi})]
  ELSE IF x.lo > 0 THEN x ELSE [lo |-> -x.hi, hi |-> -x.lo]

\* A mistake: the product is rounded to a float first.
Nearest(n) == IF n - Down(n) <= Up(n) - n THEN Down(n) ELSE Up(n)
ScaledFirst(factor, a) == Thin(Nearest(factor * a))

\* interval_coefficient: the integer factor of a derivative is applied in
\* interval arithmetic.
Scaled(factor, a) == Times(Thin(factor * Unit), Thin(a))

\* _poly_interval: Horner's rule, coefficients from the constant term up.
PolyInterval(cs, factors, z) ==
  LET n == Len(cs)
      horner[k \in 1..n] ==
        IF k = 1 THEN Scaled(factors[n], cs[n])
        ELSE Plus(Times(horner[k - 1], z), Scaled(factors[n - k + 1], cs[n - k + 1]))
  IN horner[n]

-----------------------------------------------------------------------------
(* _evaluate_counterexample_interval *)

Unresolved == [resolved |-> FALSE]
Enclosed(q, threshold, certified) ==
  [resolved |-> TRUE, lower |-> q.lo, upper |-> q.hi,
   threshold |-> threshold, certified |-> certified]

AtMost(q, threshold) == q.hi <= threshold
\* A mistake: one end of the enclosure is enough, the wrong one.
ExceedsSomewhere(q, threshold) == q.hi > threshold

Exceeds(q, threshold) == q.lo > threshold

Evaluate(coeffs, point, p) ==
  LET z == Thin(Float(point))
      as == [i \in DOMAIN coeffs |-> Float(coeffs[i])]
      f == PolyInterval(<<0, Unit>> \o as, <<1, 1, 1, 1>>, z)
      fp == PolyInterval(<<Unit>> \o as, <<1, 2, 3>>, z)
      fpp == PolyInterval(as, <<2, 6>>, z)
      fppp == PolyInterval(Tail(as), <<6>>, z)
      weight == Minus(Thin(Unit), Times(z, z))
      ratio == Over(fpp, fp)
      schwarzian ==
        Minus(Over(fppp, fp), Times(Times(Thin((3 * Unit) \div 2), ratio), ratio))
  IN CASE p = "starlike" /\ point = 0 -> Enclosed(Thin(Unit), 0, FALSE)
       [] p = "starlike" /\ point # 0 ->
            IF ContainsZero(f) THEN Unresolved
            ELSE LET q == Over(Times(z, fp), f) IN Enclosed(q, 0, AtMost(q, 0))
       [] p = "becker_univalent" ->
            IF ContainsZero(fp) THEN Unresolved
            ELSE LET q == Times(weight, Magnitude(ratio))
                 IN Enclosed(q, Unit, Exceeds(q, Unit))
       [] p = "nehari_univalent" ->
            IF ContainsZero(fp) THEN Unresolved
            ELSE LET q == Times(Times(weight, weight), Magnitude(schwarzian))
                 IN Enclosed(q, 2 * Unit, Exceeds(q, 2 * Unit))

-----------------------------------------------------------------------------
(* find_counterexample *)

SearchInit ==
  /\ criterion \in {"starlike", "becker_univalent", "nehari_univalent"}
  /\ coefficients \in Polynomials
  /\ hint \in Grid \cup {0, None}
  /\ spc = "grid" /\ candidates = <<>> /\ best = None

\* _worst_grid_point: some point of the grid, chosen in floating point.
FindCandidate ==
  /\ spc = "grid"
  /\ \E z \in Grid : candidates' = (IF hint = None THEN <<>> ELSE <<hint>>) \o <<z>>
  /\ spc' = "try"
  /\ UNCHANGED <<questionVars, best, recordVars>>

\* No point of the grid has a finite value.
NoCandidate ==
  /\ spc = "grid" /\ spc' = "unresolved"
  /\ UNCHANGED <<questionVars, candidates, best, recordVars>>

Better(e) == e.certified \/ best = None

TryCandidate ==
  LET point == Head(candidates)
      e == Evaluate(coefficients, point, criterion)
  IN /\ spc = "try" /\ candidates # <<>>
     /\ best' = IF e.resolved /\ Better(e) THEN [point |-> point, enclosure |-> e] ELSE best
     /\ candidates' = IF e.resolved /\ e.certified THEN <<>> ELSE Tail(candidates)
     /\ UNCHANGED <<questionVars, spc, recordVars>>

\* WitnessSearchResult: both checks pass, certified or not.
SearchResult(b) ==
  Returned("witness_search",
    IF b.enclosure.certified THEN "certified_enclosure" ELSE "numerical_screen",
    "rigorous",
    [grid_search_screened |-> MakeCheck("pass", TRUE),
     interval_certified |-> MakeCheck("pass", TRUE)],
    TRUE, [point |-> b.point, certified |-> b.enclosure.certified])

EndSearch ==
  /\ spc = "try" /\ candidates = <<>>
  /\ spc' = IF best = None THEN "unresolved" ELSE "done"
  /\ result' = IF best = None THEN None ELSE SearchResult(best)
  /\ UNCHANGED <<questionVars, candidates, best, record, accepted>>

SearchStep == FindCandidate \/ NoCandidate \/ TryCandidate \/ EndSearch

-----------------------------------------------------------------------------
(* Properties *)

\* The quantities of the criteria in units of 1/Unit, exactly: fractions.
Fraction(num, den) == IF den > 0 THEN [num |-> num, den |-> den]
                      ELSE [num |-> -num, den |-> -den]
F0(as, z) == Q * Unit + as[1] * z * Q + as[2] * z * z            \* Q^3 f(z)/z
F1(as, z) == Q * Unit + 2 * as[1] * z * Q + 3 * as[2] * z * z    \* Q^3 f'(z)
F2(as, z) == 2 * as[1] * Q + 6 * as[2] * z                  \* Q^2 f''(z)
Quantity(as, z, p) ==
  LET w == Unit - z * z
      f1 == F1(as, z)
      f2 == F2(as, z)
  IN CASE p = "starlike" -> Fraction(f1 * Unit, F0(as, z))
       [] p = "becker_univalent" -> Fraction(w * Abs(f2) * Q, Abs(f1))
       [] p = "nehari_univalent" ->
            Fraction(w * w * Abs(12 * as[2] * f1 - 3 * f2 * f2), 2 * f1 * f1)

\* Whatever the coefficients and the point, the enclosure contains the exact
\* value of the criterion (counterexamples.py 135-155, 193-271).
BestEncloses ==
  best # None =>
    LET q == Quantity(coefficients, best.point, criterion)
    IN /\ best.enclosure.lower <= FloorDiv(q.num, q.den)
       /\ CeilDiv(q.num, q.den) <= best.enclosure.upper

\* A certified witness is a violation in exact arithmetic, and a search that ends
\* without one reports its hint, which certifies nothing, whenever the hint can be
\* evaluated (counterexamples.py 520-545).
SearchVerdictTrue ==
  spc = "done" =>
    LET q == Quantity(coefficients, result.says.point, criterion)
        threshold == IF criterion = "becker_univalent" THEN Unit ELSE 2 * Unit
    IN IF result.says.certified
       THEN IF criterion = "starlike" THEN q.num <= 0 ELSE q.num > threshold * q.den
       ELSE hint # None => LET e == Evaluate(coefficients, hint, criterion)
                           IN e.resolved => ~e.certified /\ result.says.point = hint
=============================================================================
