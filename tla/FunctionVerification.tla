------------------------- MODULE FunctionVerification -------------------------
(***************************************************************************)
(* verify_function (verify.py): a normalized function is screened on a     *)
(* grid, judged by exact coefficient sums, or both with a certified        *)
(* interval at the worst point of the grid.  A caller asks about one       *)
(* function, and after a symbolic answer may ask again at the rigorous     *)
(* tier.                                                                   *)
(*                                                                         *)
(* A function is what is true of it: whether coefficients beyond the given *)
(* ones exist, whether binary64 holds the given ones exactly, how its two  *)
(* sums compare with 1 and whether SymPy can tell, and which criteria hold *)
(* in the whole disk, for it and for the binary64 polynomial.              *)
(***************************************************************************)
EXTENDS AnalysisRecord

CONSTANT Functions

PointwiseProperty == {"starlike", "convex", "becker_univalent", "nehari_univalent"}
Property == PointwiseProperty \cup {"univalent"}

FunctionFacts ==
  [tail : BOOLEAN, rounded : BOOLEAN,
   c01 : BOOLEAN, c01Decided : BOOLEAN,              \* sum n |a_n| <= 1
   alexander : BOOLEAN, alexanderDecided : BOOLEAN,  \* sum n^2 |a_n| <= 1
   holds : SUBSET Property, floatHolds : SUBSET Property]

\* Convex functions are starlike, and starlike functions, and those within
\* Becker's or Nehari's bound, are univalent.
Inclusions(holds) ==
  /\ "convex" \in holds => "starlike" \in holds
  /\ holds # {} => "univalent" \in holds

\* The theorems the code relies on.
Lawful(f) ==
  /\ Inclusions(f.holds) /\ Inclusions(f.floatHolds)
  /\ f.alexander => f.c01
  /\ ~f.tail /\ f.c01 => "starlike" \in f.holds
  /\ ~f.tail /\ f.alexander => "convex" \in f.holds
  /\ ~f.tail /\ ~f.rounded => f.floatHolds = f.holds

ASSUME FunctionAssumption ==
  Functions \subseteq FunctionFacts /\ \A f \in Functions : Lawful(f)

VARIABLES
  function,   \* the function asked about
  property,   \* the property asked
  tier,       \* max_cost
  vpc,        \* the next step of verify_function
  margin,     \* the worst margin of the grid scan, below, at or above 0
  enclosure,  \* what the certified interval showed
  earlier     \* the result of an earlier call on the same function, or None

callVars == <<function, property, tier>>
verifyVars == <<callVars, vpc, margin, enclosure, earlier>>

\* _decide_le_one: TRUE, FALSE or None
Decided(holds, decided) == IF decided THEN (IF holds THEN "le" ELSE "gt") ELSE "unknown"
C01(f) == Decided(f.c01, f.c01Decided)
Alexander(f) == Decided(f.alexander, f.alexanderDecided)
Governing(f, p) == IF p = "convex" THEN Alexander(f) ELSE C01(f)
StatusOf(decided) ==
  CASE decided = "le" -> "pass" [] decided = "gt" -> "fail" [] decided = "unknown" -> "skip"

Finite == MakeCheck("pass", TRUE)
Verified(t, outcome, evidence, checks) ==
  Returned("function_verification", evidence, t, checks, TRUE,
           [outcome |-> outcome, certified |-> outcome = "certified_violation"])

-----------------------------------------------------------------------------
(* The three verdicts *)

Violation(p, m) ==
  m = IF p \in {"becker_univalent", "nehari_univalent"} THEN "above" ELSE "below"

ScreenVerdict(p, m) ==
  Verified("screen", IF Violation(p, m) THEN "fails_screen" ELSE "passes_screen",
           "numerical_screen",
           [input_finite |-> Finite, criterion_grid_screen |-> MakeCheck("pass", TRUE)])

\* A mistake: the sum of a truncation passes for that of the function.
SymbolicOutcomeIgnoresTail(f, p) ==
  CASE Governing(f, p) = "unknown" -> "undecidable"
    [] Governing(f, p) = "le" -> "proven"
    [] Governing(f, p) = "gt" -> "fails_sufficient_condition"

SymbolicOutcome(f, p) ==
  CASE Governing(f, p) = "unknown" -> "undecidable"
    [] Governing(f, p) = "le" /\ ~f.tail -> "proven"
    [] Governing(f, p) = "le" /\ f.tail -> "inconclusive_truncation"
    [] Governing(f, p) = "gt" -> "fails_sufficient_condition"

SymbolicC01Check(f, p) ==
  MakeCheck(IF Governing(f, p) = "gt" THEN (IF C01(f) = "le" THEN "pass" ELSE "fail")
            ELSE StatusOf(Governing(f, p)),
            p # "convex")

\* An undecided comparison is skipped with a reason.
SymbolicConvexCheck(f, p) ==
  [status |-> StatusOf(Alexander(f)), required |-> p = "convex",
   reason |-> Alexander(f) # "le"]

SymbolicScopeCheck(outcome) ==
  MakeCheck(IF outcome = "proven" THEN "pass" ELSE "skip",
            outcome = "inconclusive_truncation")

SymbolicVerdict(f, p) ==
  LET outcome == SymbolicOutcome(f, p)
  IN Verified("symbolic", outcome,
              IF outcome = "proven" THEN "exact_proof" ELSE "inconclusive",
              [input_finite |-> Finite, c01_exact_sum |-> SymbolicC01Check(f, p),
               alexander_convexity_sum |-> SymbolicConvexCheck(f, p),
               full_function_proof_scope |-> SymbolicScopeCheck(outcome)])

\* A mistake: a convexity claim is proved by the starlikeness sum.
RigorousOutcomeByC01(f, p, e) ==
  CASE e = "separated" -> "certified_violation"
    [] e # "separated" /\ ~f.tail /\ C01(f) = "le" -> "proven"
    [] OTHER -> "no_certified_violation_on_grid"

RigorousOutcome(f, p, e) ==
  CASE e = "separated" -> "certified_violation"
    [] e # "separated" /\ ~f.tail /\ Governing(f, p) = "le" -> "proven"
    [] OTHER -> "no_certified_violation_on_grid"

RigorousVerdict(f, p, e) ==
  LET outcome == RigorousOutcome(f, p, e)
      evidence == CASE outcome = "certified_violation" -> "certified_enclosure"
                    [] outcome = "proven" -> "exact_proof"
                    [] OTHER -> "numerical_screen"
  IN Verified("rigorous", outcome, evidence,
       [input_finite |-> Finite, criterion_grid_screen |-> MakeCheck("pass", TRUE),
        c01_exact_sum |->
          MakeCheck(StatusOf(C01(f)), outcome = "proven" /\ p # "convex"),
        alexander_convexity_sum |->
          MakeCheck(StatusOf(Alexander(f)), outcome = "proven" /\ p = "convex"),
        interval_certification |->
          MakeCheck(IF e \in {"open", "separated"} THEN "pass" ELSE "skip", e = "separated"),
        full_function_proof_scope |->
          MakeCheck(IF outcome \in {"proven", "certified_violation"} THEN "pass" ELSE "skip",
                    outcome = "no_certified_violation_on_grid")])

-----------------------------------------------------------------------------
(* verify_function *)

VerifyTier == {"screen", "symbolic", "rigorous"}

VerifyInit ==
  /\ function \in Functions /\ property \in Property /\ tier \in VerifyTier
  /\ vpc = "call" /\ margin = None /\ enclosure = None /\ earlier = None

\* Univalence has no pointwise screen.
Call ==
  /\ vpc = "call"
  /\ vpc' = IF property = "univalent" /\ tier # "symbolic" THEN "error"
            ELSE IF tier = "symbolic" THEN "verdict" ELSE "scan"
  /\ UNCHANGED <<callVars, margin, enclosure, earlier, recordVars>>

\* _grid_scan, in floating point on some points: it says nothing certain.
GridScan ==
  /\ vpc = "scan"
  /\ margin' \in {"below", "at", "above"}
  /\ vpc' = IF tier = "screen" THEN "verdict" ELSE "certify"
  /\ UNCHANGED <<callVars, enclosure, earlier, recordVars>>

\* No point of the grid has a finite value.
GridSingular ==
  /\ vpc = "scan" /\ vpc' = "error"
  /\ UNCHANGED <<callVars, margin, enclosure, earlier, recordVars>>

\* A mistake: the binary64 polynomial stands for any polynomial.
TransfersRounded(f) == ~f.tail

\* interval_transfer
Transfers(f) == ~f.tail /\ ~f.rounded

\* What interval arithmetic on the binary64 polynomial may show at a point.
Enclosures(f, p) ==
  {"open", "unresolved"} \cup (IF p \in f.floatHolds THEN {} ELSE {"separated"})

Certify ==
  /\ vpc = "certify"
  /\ IF Transfers(function)
     THEN enclosure' \in Enclosures(function, property)
     ELSE enclosure' = "unavailable"
  /\ vpc' = "verdict"
  /\ UNCHANGED <<callVars, margin, earlier, recordVars>>

Verdict ==
  /\ vpc = "verdict"
  /\ vpc' = "done"
  /\ result' = CASE tier = "screen" -> ScreenVerdict(property, margin)
                 [] tier = "symbolic" -> SymbolicVerdict(function, property)
                 [] tier = "rigorous" -> RigorousVerdict(function, property, enclosure)
  /\ UNCHANGED <<callVars, margin, enclosure, earlier, record, accepted>>

\* The caller asks again, now for the rigorous tier.
AskRigorous ==
  /\ vpc = "done" /\ tier = "symbolic" /\ property # "univalent"
  /\ tier' = "rigorous" /\ vpc' = "call" /\ earlier' = result
  /\ result' = None /\ record' = None /\ accepted' = None
  /\ UNCHANGED <<function, property, margin, enclosure>>

VerifyStep ==
  Call \/ GridScan \/ GridSingular \/ Certify \/ Verdict \/ AskRigorous

\* verify_function by itself, with the records of its answers.
VerifySpec ==
  /\ RecordInit /\ VerifyInit
  /\ [][VerifyStep \/ (RecordNext /\ UNCHANGED verifyVars)]_<<recordVars, verifyVars>>

-----------------------------------------------------------------------------
(* Properties *)

\* The variables of verify_function and the verdict on its record.
VerifyTypeOK ==
  /\ function \in Functions /\ property \in Property /\ tier \in VerifyTier
  /\ vpc \in {"call", "scan", "certify", "verdict", "done", "error"}
  /\ margin \in {None, "below", "at", "above"}
  /\ enclosure \in {None, "unavailable", "unresolved", "open", "separated"}
  /\ accepted \in {None, TRUE, FALSE}

\* What "proven" claims of each property: the Becker and Nehari answers are
\* univalence by way of starlikeness, not the criteria (details.proven_via).
Claim(p) == IF p \in {"becker_univalent", "nehari_univalent"} THEN "univalent" ELSE p

\* A proof is a proof for the whole function: whatever the grid, the interval,
\* the tail and the rounding were, "proven" is true (verify.py 594-606, 802).
ProofsAreTrue ==
  vpc = "done" /\ result.evidence = "exact_proof" => Claim(property) \in function.holds

\* A certified violation is a violation by the function supplied, not by a
\* binary64 neighbour or a truncation of it (verify.py 493-498, 744, 799).
ViolationsAreTrue ==
  vpc = "done" /\ result.says.certified => property \notin function.holds

\* Of the symbolic and the rigorous tier, a report is a success only if the
\* question is settled: a skipped or partial check never counts as a pass
\* (verify.py 665-674, 809-820; contracts.py 228-245).
SuccessMeansSettled ==
  vpc = "done" /\ tier # "screen" /\ Success(result.checks)
    => result.says.outcome \in {"proven", "certified_violation"}

\* A starlikeness or convexity proof of the symbolic tier is repeated by the
\* rigorous tier, and only such a proof is: the interval at the worst point can
\* neither refute it nor add one (verify.py 594, 799-807).
TiersAgree ==
  vpc = "done" /\ earlier # None /\ property \in {"starlike", "convex"}
    => (earlier.says.outcome = "proven" <=> result.says.outcome = "proven")
=============================================================================
