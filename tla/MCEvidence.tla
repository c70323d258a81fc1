------------------------------ MODULE MCEvidence ------------------------------
(* Small instances of Evidence. *)
EXTENDS Evidence

\* Every lawful function whose binary64 polynomial satisfies what it satisfies
\* itself or nothing.
MCFunctions == {f \in FunctionFacts : Lawful(f) /\ f.floatHolds \in {f.holds, {}}}

\* Multiples of 1/8 on both sides of every criterion, with significands of
\* three bits.
MCPolynomials == {-8, -5, -2, 0, 3, 7} \X {-3, 0, 1, 3}
MCGrid == {-7, -3, 2, 5}

\* A triangle, a kite run clockwise, a polygon that is not convex, a curve that
\* crosses itself and one that winds twice.
MCCurves ==
  { << <<0, 0>>, <<6, 0>>, <<0, 6>> >>,
    << <<0, 3>>, <<3, 6>>, <<6, 3>>, <<3, 0>> >>,
    << <<0, 0>>, <<6, 0>>, <<6, 6>>, <<3, 2>>, <<0, 6>> >>,
    << <<0, 0>>, <<6, 6>>, <<6, 0>>, <<0, 6>> >>,
    << <<0, 0>>, <<6, 0>>, <<6, 6>>, <<1, 1>>, <<4, 1>>, <<4, 3>>, <<2, 5>>, <<0, 6>> >>,
    << <<0, 0>>, <<6, 0>>, <<3, 6>>, <<1, 1>>, <<5, 1>>, <<3, 5>> >> }
MCPoints == {<<1, 2>>, <<2, 2>>, <<3, 1>>, <<3, 3>>, <<3, 4>>, <<4, 2>>, <<5, 3>>, <<7, 3>>, NaN}
MCSamples == {s \in UNION {[1..n -> MCPoints] : n \in 1..3} : Len(s) = 3 => NaN \in {s[1], s[2], s[3]}}

\* Paths that meet every byte, that repeat bytes, and that end early.
MCStreams ==
  { <<3, 1, 3, 7, 0, 2, 5, 5, 4, 6, 6, 1>>, <<7, 6, 5, 4, 3, 2, 1, 0, 7>>,
    <<5, 5, 0, 5, 2>>, <<1>>, <<>> }

\* Lattices whose images are distinct, that tie in one part, and that coincide.
MCLattices ==
  { [i \in 0..7 |-> <<(3 * i) % 8, i>>], [i \in 0..7 |-> <<i % 2, -i>>],
    [i \in 0..7 |-> <<0, i % 3>>] }

\* The identity, a constant, boxes of few values and an affine permutation.
MCBoxes ==
  { [x \in 0..7 |-> x], [x \in 0..7 |-> 5], [x \in 0..7 |-> x % 3],
    [x \in 0..7 |-> (x * x) % 8], [x \in 0..7 |-> (3 * x + 2) % 8],
    [x \in 0..7 |-> <<0, 0, 0, 1, 0, 1, 1, 1>>[x + 1]] }

\* Narrow, flat, odd and even images of levels 0..2.
MCImages ==
  { << <<2>> >>, << <<0, 1, 2>> >>, << <<2, 0>>, <<1, 2>> >>, << <<1, 1>>, <<1, 1>>, <<1, 1>> >>,
    << <<2, 2, 2, 2>>, <<2, 2, 2, 2>>, <<2, 2, 2, 2>> >>, << <<0, 2, 1>>, <<1, 1, 0>>, <<2, 0, 2>> >>,
    << <<0, 1, 2>>, <<2, 1, 0>>, <<1, 0, 2>> >>, << <<0, 1>>, <<2, 0>>, <<1, 1>>, <<2, 2>>, <<0, 2>> >> }
MCSides == { <<1, 1, 1>>, <<2, 0, 1>>, <<0, 3, 0, 1, 2>> }
=============================================================================
