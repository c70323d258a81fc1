---------------------------- MODULE EvidenceProofs ----------------------------
(***************************************************************************)
(* Proofs about Evidence: what verify_function claims is true, for every   *)
(* set of functions that obeys the theorems of function theory the code    *)
(* relies on (FunctionAssumption); the S-box construction returns          *)
(* permutations, for every power of two, path and lattice, and the metrics *)
(* of every S-box are those the criteria define; what the search for a     *)
(* counterexample claims is true of the polynomial it was given; window    *)
(* means and transforms of images are exact; and the receiver of a record  *)
(* refuses only the records of undecided symbolic answers.                 *)
(***************************************************************************)
EXTENDS Evidence, IntervalLemmas

-----------------------------------------------------------------------------
(* verify_function.  The inductive invariant says what each tier knows when *)
(* it answers: that a separated enclosure was computed for the function     *)
(* itself, that an answer is the verdict on the function, property and tier *)
(* asked, and that the earlier answer was the symbolic verdict on the same  *)
(* question.                                                                *)

\* Between Certify and the answer, the enclosure is one of the polynomial the
\* caller supplied.
SeparationKnown ==
  vpc \in {"verdict", "done"} /\ tier = "rigorous" /\ enclosure = "separated"
    => Transfers(function) /\ property \notin function.floatHolds

Answered ==
  vpc = "done" =>
    \/ tier = "screen" /\ result = ScreenVerdict(property, margin)
    \/ tier = "symbolic" /\ result = SymbolicVerdict(function, property)
    \/ tier = "rigorous" /\ result = RigorousVerdict(function, property, enclosure)

AskedBefore ==
  earlier # None => tier = "rigorous" /\ earlier = SymbolicVerdict(function, property)

\* The inductive invariant.
IInv == VerifyTypeOK /\ SeparationKnown /\ Answered /\ AskedBefore

-----------------------------------------------------------------------------
(* The invariant is inductive. *)

\* A call begins with nothing known, claimed or remembered.
LEMMA InitInv == RecordInit /\ VerifyInit => IInv
BY DEF RecordInit, VerifyInit, IInv, VerifyTypeOK, SeparationKnown, Answered, AskedBefore, VerifyTier

\* Every step of verify_function and of its records keeps the invariant.
LEMMA StepInv ==
  IInv /\ [VerifyStep \/ (RecordNext /\ UNCHANGED verifyVars)]_<<recordVars, verifyVars>>
    => IInv'
<1> SUFFICES ASSUME IInv,
                    [VerifyStep \/ (RecordNext /\ UNCHANGED verifyVars)]_<<recordVars, verifyVars>>
             PROVE  IInv'
  OBVIOUS
<1> USE DEF IInv, VerifyTypeOK, SeparationKnown, Answered, AskedBefore, verifyVars, callVars, recordVars
<1>1. CASE Call
  BY <1>1 DEF Call
<1>2. CASE GridScan
  BY <1>2 DEF GridScan
<1>3. CASE GridSingular
  BY <1>3 DEF GridSingular
<1>4. CASE Certify
  <2>1. CASE Transfers(function)
    BY <1>4, <2>1 DEF Certify, Enclosures
  <2>2. CASE ~Transfers(function)
    BY <1>4, <2>2 DEF Certify
  <2> QED BY <2>1, <2>2
<1>5. CASE Verdict
  <2>1. Answered'
    BY <1>5 DEF Verdict, VerifyTier
  <2> QED BY <1>5, <2>1 DEF Verdict
<1>6. CASE AskRigorous
  BY <1>6 DEF AskRigorous, VerifyTier
<1>7. CASE RecordNext /\ UNCHANGED verifyVars
  <2>1. result' = result
    BY <1>7 DEF RecordNext, BuildRecord, ValidateRecord
  <2>2. accepted' \in {None, TRUE, FALSE}
    <3>1. CASE BuildRecord
      BY <3>1 DEF BuildRecord
    <3>2. CASE ValidateRecord
      BY <3>2 DEF ValidateRecord, RecordAccepted
    <3> QED BY <1>7, <3>1, <3>2 DEF RecordNext
  <2>3. UNCHANGED <<function, property, tier, vpc, margin, enclosure, earlier>>
    BY <1>7
  <2> QED BY <2>1, <2>2, <2>3
<1>8. CASE UNCHANGED <<recordVars, verifyVars>>
  BY <1>8
<1> QED
  BY <1>1, <1>2, <1>3, <1>4, <1>5, <1>6, <1>7, <1>8 DEF VerifyStep

\* Whatever is asked of verify_function, its invariant holds.
THEOREM VerifyInvariant == VerifySpec => []IInv
BY InitInv, StepInv, PTL DEF VerifySpec

-----------------------------------------------------------------------------
(* What the verdicts mean. *)

\* A function obeys the theorems the code relies on.
LEMMA FunctionLaws ==
  ASSUME NEW f \in Functions
  PROVE  f \in FunctionFacts /\ Lawful(f)
BY FunctionAssumption

\* A governing sum decided to be at most 1 proves what is claimed of a
\* function without a tail.
LEMMA SumProves ==
  ASSUME NEW f \in Functions, NEW p \in Property, ~f.tail, Governing(f, p) = "le"
  PROVE  Claim(p) \in f.holds
<1>1. f \in FunctionFacts /\ Lawful(f)
  BY FunctionLaws
<1>2. CASE p = "convex"
  <2>1. f.alexander
    BY <1>2 DEF Governing, Alexander, Decided
  <2> QED BY <1>1, <1>2, <2>1 DEF Lawful, Claim
<1>3. CASE p # "convex"
  <2>1. f.c01
    BY <1>3 DEF Governing, C01, Decided
  <2>2. "starlike" \in f.holds /\ "univalent" \in f.holds
    BY <1>1, <2>1 DEF Lawful, Inclusions
  <2>3. Claim(p) \in {"starlike", "univalent"}
    BY <1>3 DEF Claim, Property, PointwiseProperty
  <2> QED BY <2>2, <2>3
<1> QED BY <1>2, <1>3

\* The symbolic tier says proven only on the governing sum of a whole polynomial.
LEMMA SymbolicProven ==
  ASSUME NEW f \in Functions, NEW p \in Property, SymbolicOutcome(f, p) = "proven"
  PROVE  ~f.tail /\ Governing(f, p) = "le"
<1>1. f \in FunctionFacts
  BY FunctionLaws
<1>2. Governing(f, p) \in {"le", "gt", "unknown"}
  BY DEF Governing, C01, Alexander, Decided
<1> QED BY <1>1, <1>2 DEF SymbolicOutcome, FunctionFacts

\* So does the rigorous tier.
LEMMA RigorousProven ==
  ASSUME NEW f \in Functions, NEW p \in Property, NEW e, RigorousOutcome(f, p, e) = "proven"
  PROVE  ~f.tail /\ Governing(f, p) = "le"
BY DEF RigorousOutcome

-----------------------------------------------------------------------------
(* The invariant implies the properties. *)

\* The invariant makes every proof true.
LEMMA InvProofs == IInv => ProofsAreTrue
<1> SUFFICES ASSUME IInv, vpc = "done", result.evidence = "exact_proof"
             PROVE  Claim(property) \in function.holds
  BY DEF ProofsAreTrue
<1> USE DEF IInv, VerifyTypeOK
<1>1. CASE tier = "screen" /\ result = ScreenVerdict(property, margin)
  BY <1>1 DEF ScreenVerdict, Verified, Returned
<1>2. CASE tier = "symbolic" /\ result = SymbolicVerdict(function, property)
  <2>1. SymbolicOutcome(function, property) = "proven"
    BY <1>2 DEF SymbolicVerdict, Verified, Returned
  <2> QED BY <2>1, SymbolicProven, SumProves
<1>3. CASE tier = "rigorous" /\ result = RigorousVerdict(function, property, enclosure)
  <2>1. RigorousOutcome(function, property, enclosure) = "proven"
    BY <1>3 DEF RigorousVerdict, Verified, Returned
  <2> QED BY <2>1, RigorousProven, SumProves
<1> QED BY <1>1, <1>2, <1>3 DEF Answered

\* The invariant makes every certified violation true.
LEMMA InvViolations == IInv => ViolationsAreTrue
<1> SUFFICES ASSUME IInv, vpc = "done", result.says.certified
             PROVE  property \notin function.holds
  BY DEF ViolationsAreTrue
<1> USE DEF IInv, VerifyTypeOK
<1>1. CASE tier = "screen" /\ result = ScreenVerdict(property, margin)
  <2>1. result.says.certified
          = ((IF Violation(property, margin) THEN "fails_screen" ELSE "passes_screen")
               = "certified_violation")
    BY <1>1 DEF ScreenVerdict, Verified, Returned
  <2> QED BY <2>1
<1>2. CASE tier = "symbolic" /\ result = SymbolicVerdict(function, property)
  <2>1. SymbolicOutcome(function, property) # "certified_violation"
    BY FunctionLaws DEF SymbolicOutcome, Governing, C01, Alexander, Decided, FunctionFacts
  <2> QED BY <1>2, <2>1 DEF SymbolicVerdict, Verified, Returned
<1>3. CASE tier = "rigorous" /\ result = RigorousVerdict(function, property, enclosure)
  <2>1. RigorousOutcome(function, property, enclosure) = "certified_violation"
    BY <1>3 DEF RigorousVerdict, Verified, Returned
  <2>2. enclosure = "separated"
    BY <2>1 DEF RigorousOutcome
  <2>3. Transfers(function) /\ property \notin function.floatHolds
    BY <1>3, <2>2 DEF SeparationKnown
  <2>4. function.floatHolds = function.holds
    BY <2>3, FunctionLaws DEF Lawful, Transfers
  <2> QED BY <2>3, <2>4
<1> QED BY <1>1, <1>2, <1>3 DEF Answered

\* A report that is a success has passed its required checks.
LEMMA SuccessPasses ==
  ASSUME NEW checks, Success(checks), NEW n \in DOMAIN checks, checks[n].required
  PROVE  checks[n].status = "pass"
BY DEF Success, Required

\* A symbolic report succeeds only with a proof.
LEMMA SymbolicSettled ==
  ASSUME NEW f \in Functions, NEW p \in Property, Success(SymbolicVerdict(f, p).checks)
  PROVE  SymbolicOutcome(f, p) = "proven"
<1> DEFINE outcome == SymbolicOutcome(f, p)
           checks == SymbolicVerdict(f, p).checks
<1>1. checks = [input_finite |-> Finite, c01_exact_sum |-> SymbolicC01Check(f, p),
                alexander_convexity_sum |-> SymbolicConvexCheck(f, p),
                full_function_proof_scope |-> SymbolicScopeCheck(outcome)]
  BY DEF SymbolicVerdict, Verified, Returned
<1>2. SymbolicC01Check(f, p).required => SymbolicC01Check(f, p).status = "pass"
  BY <1>1, SuccessPasses
<1>3. SymbolicConvexCheck(f, p).required => SymbolicConvexCheck(f, p).status = "pass"
  BY <1>1, SuccessPasses
<1>4. SymbolicScopeCheck(outcome).required => SymbolicScopeCheck(outcome).status = "pass"
  BY <1>1, SuccessPasses
<1>5. Governing(f, p) = "le"
  <2>1. CASE p = "convex"
    <3>1. Alexander(f) \in {"le", "gt", "unknown"}
      BY DEF Alexander, Decided
    <3>2. StatusOf(Alexander(f)) = "pass"
      BY <1>3, <2>1 DEF SymbolicConvexCheck
    <3> QED BY <2>1, <3>1, <3>2 DEF StatusOf, Governing
  <2>2. CASE p # "convex"
    <3>1. C01(f) \in {"le", "gt", "unknown"} /\ Governing(f, p) = C01(f)
      BY <2>2 DEF C01, Decided, Governing
    <3>2. SymbolicC01Check(f, p).status = "pass"
      BY <1>2, <2>2 DEF SymbolicC01Check, MakeCheck
    <3> QED BY <3>1, <3>2 DEF SymbolicC01Check, MakeCheck, StatusOf
  <2> QED BY <2>1, <2>2
<1>6. outcome # "inconclusive_truncation"
  BY <1>4 DEF SymbolicScopeCheck, MakeCheck
<1>7. f.tail \in BOOLEAN
  BY FunctionLaws DEF FunctionFacts
<1> QED BY <1>5, <1>6, <1>7 DEF SymbolicOutcome

\* A rigorous report succeeds only with a proof or a certified violation.
LEMMA RigorousSettled ==
  ASSUME NEW f, NEW p, NEW e, Success(RigorousVerdict(f, p, e).checks)
  PROVE  RigorousOutcome(f, p, e) \in {"proven", "certified_violation"}
<1> DEFINE scope == RigorousVerdict(f, p, e).checks.full_function_proof_scope
<1>1. scope.required => scope.status = "pass"
  BY SuccessPasses DEF RigorousVerdict, Verified, Returned
<1> QED BY <1>1 DEF RigorousVerdict, Verified, Returned, MakeCheck, RigorousOutcome

\* The invariant makes every success of the exact tiers a settled question.
LEMMA InvSettled == IInv => SuccessMeansSettled
<1> SUFFICES ASSUME IInv, vpc = "done", tier # "screen", Success(result.checks)
             PROVE  result.says.outcome \in {"proven", "certified_violation"}
  BY DEF SuccessMeansSettled
<1> USE DEF IInv, VerifyTypeOK
<1>1. CASE result = SymbolicVerdict(function, property)
  BY <1>1, SymbolicSettled DEF SymbolicVerdict, Verified, Returned
<1>2. CASE result = RigorousVerdict(function, property, enclosure)
  BY <1>2, RigorousSettled DEF RigorousVerdict, Verified, Returned
<1> QED BY <1>1, <1>2 DEF Answered

\* The invariant makes the tiers agree.
LEMMA InvTiers == IInv => TiersAgree
<1> SUFFICES ASSUME IInv, vpc = "done", earlier # None, property \in {"starlike", "convex"}
             PROVE  earlier.says.outcome = "proven" <=> result.says.outcome = "proven"
  BY DEF TiersAgree
<1> USE DEF IInv, VerifyTypeOK
<1> DEFINE symbolic == SymbolicOutcome(function, property)
           rigorous == RigorousOutcome(function, property, enclosure)
           proves == ~function.tail /\ Governing(function, property) = "le"
<1>1. earlier.says.outcome = symbolic
  BY DEF AskedBefore, SymbolicVerdict, Verified, Returned
<1>2. symbolic = "proven" <=> proves
  BY SymbolicProven DEF SymbolicOutcome
<1>3. proves => enclosure # "separated"
  <2> SUFFICES ASSUME proves, enclosure = "separated" PROVE FALSE
    OBVIOUS
  <2>1. property \in function.holds
    BY SumProves DEF Claim
  <2>2. Transfers(function) /\ property \notin function.floatHolds
    BY DEF SeparationKnown, AskedBefore
  <2> QED BY <2>1, <2>2, FunctionLaws DEF Lawful, Transfers
<1>4. tier = "rigorous" /\ result = RigorousVerdict(function, property, enclosure)
  BY DEF AskedBefore, Answered
<1>5. result.says.outcome = rigorous
  BY <1>4 DEF RigorousVerdict, Verified, Returned
<1>6. rigorous = "proven" <=> proves
  BY <1>3, <1>4, RigorousProven DEF RigorousOutcome
<1> QED BY <1>1, <1>2, <1>5, <1>6

-----------------------------------------------------------------------------
\* The variables of verify_function have their types.
THEOREM VerifyTypeCorrect == VerifySpec => []VerifyTypeOK
BY VerifyInvariant, PTL DEF IInv

\* A proof of either tier is a proof: what it claims is true of the whole
\* function (verify.py 594, 802).
THEOREM ProofsTrue == VerifySpec => []ProofsAreTrue
BY VerifyInvariant, InvProofs, PTL

\* A certified violation is one by the function supplied, though it is computed
\* for its binary64 polynomial (verify.py 493-498, 744, 799).
THEOREM ViolationsTrue == VerifySpec => []ViolationsAreTrue
BY VerifyInvariant, InvViolations, PTL

\* A report of the symbolic or the rigorous tier that is a success settles the
\* question (verify.py 665-674, 809-820; contracts.py 228-236).
THEOREM SuccessSettles == VerifySpec => []SuccessMeansSettled
BY VerifyInvariant, InvSettled, PTL

\* The rigorous tier proves what the symbolic tier proved of starlikeness and
\* convexity, no less and no more (verify.py 594, 799-807).
THEOREM TiersConsistent == VerifySpec => []TiersAgree
BY VerifyInvariant, InvTiers, PTL

-----------------------------------------------------------------------------
(* The S-box construction. *)

IsPermutation(b) ==
  /\ \A i, j \in Byte : b[i] = b[j] => i = j
  /\ {b[i] : i \in Byte} = Byte

Distinct(s) == \A i, j \in DOMAIN s : s[i] = s[j] => i = j
Kept(s) == {s[i] : i \in DOMAIN s}

\* What the keyed construction has kept: no byte twice, and while it fills in,
\* every byte below the next one.
ConstructInv ==
  /\ lpc = "called" => t = 0 /\ sequence = <<>>
  /\ lpc \in {"called", "keyed", "fill"} =>
       sequence \in Seq(Byte) /\ Distinct(sequence) /\ t \in Nat
  /\ lpc = "keyed" => stream \in Seq(Byte)
  /\ lpc = "fill" => t \in 0..N /\ \A b \in 0..(t - 1) : b \in Kept(sequence)
  /\ lpc = "built" => IsPermutation(box)

\* The bytes are finitely many.
LEMMA ByteFinite == IsFiniteSet(Byte) /\ Cardinality(Byte) = N /\ N \in Nat \ {0}
<1>1. N \in Nat \ {0} /\ N - 1 \in Int /\ 0 \in Int
  BY SizeAssumption
<1> QED BY <1>1, FS_Interval DEF Byte

\* Keeping a byte keeps the kept ones distinct, loses none and adds it.
LEMMA KeepsDistinct ==
  ASSUME NEW s \in Seq(Byte), Distinct(s), NEW b \in Byte,
         NEW r, r = IF b \in Kept(s) THEN s ELSE Append(s, b)
  PROVE  /\ r \in Seq(Byte) /\ Distinct(r)
         /\ b \in Kept(r) /\ Kept(s) \subseteq Kept(r)
<1>1. CASE b \in Kept(s)
  BY <1>1
<1>2. CASE b \notin Kept(s)
  <2>1. /\ r \in Seq(Byte) /\ Len(r) = Len(s) + 1 /\ Len(s) \in Nat
        /\ DOMAIN r = 1..(Len(s) + 1) /\ DOMAIN s = 1..Len(s)
        /\ \A i \in DOMAIN s : r[i] = s[i]
        /\ r[Len(s) + 1] = b
    BY <1>2
  <2>2. \A i \in DOMAIN r : i \in DOMAIN s \/ i = Len(s) + 1
    BY <2>1
  <2>3. \A i \in DOMAIN s : i \in DOMAIN r /\ s[i] # b
    BY <1>2, <2>1 DEF Kept
  <2>4. Distinct(r)
    BY <2>1, <2>2, <2>3 DEF Distinct
  <2>5. Len(s) + 1 \in DOMAIN r
    BY <2>1
  <2>6. b \in Kept(r) /\ Kept(s) \subseteq Kept(r)
    BY <2>1, <2>3, <2>5 DEF Kept
  <2> QED BY <2>1, <2>4, <2>6
<1> QED BY <1>1, <1>2

\* Distinct bytes that are all of them, read off in order, are a permutation.
LEMMA SequencePermutes ==
  ASSUME NEW s \in Seq(Byte), Distinct(s), Byte \subseteq Kept(s)
  PROVE  IsPermutation([i \in Byte |-> s[i + 1]])
<1> DEFINE L == Len(s)
<1>1. L \in Nat /\ DOMAIN s = 1..L /\ s \in [1..L -> Byte]
  OBVIOUS
<1>2. s \in Injection(1..L, Byte) /\ s \in Surjection(1..L, Byte)
  <2>1. \A b \in Byte : \E i \in 1..L : s[i] = b
    BY <1>1 DEF Kept
  <2> QED BY <1>1, <2>1 DEF Injection, IsInjective, Surjection, Distinct
<1>3. IsFiniteSet(1..L) /\ Cardinality(1..L) = L
  BY <1>1, FS_Interval
<1>4. L = N
  <2>1. Cardinality(1..L) <= Cardinality(Byte)
    BY <1>2, <1>3, ByteFinite, FS_Injection
  <2>2. Cardinality(Byte) <= Cardinality(1..L)
    BY <1>2, <1>3, FS_Surjection
  <2>3. L \in Nat /\ L <= N /\ N <= L
    <3> HIDE DEF L
    <3> QED BY <1>1, <1>3, <2>1, <2>2, ByteFinite
  <2> QED BY <2>3, ByteFinite
<1>5. \A i \in Byte : i + 1 \in 1..L /\ i \in Int
  BY <1>4, ByteFinite DEF Byte
<1>6. \A k \in 1..L : k - 1 \in Byte /\ (k - 1) + 1 = k
  BY <1>4, ByteFinite DEF Byte
<1>7. \A i, j \in Byte : s[i + 1] = s[j + 1] => i = j
  BY <1>1, <1>5 DEF Distinct
<1>8. {s[i + 1] : i \in Byte} = Byte
  <2>1. {s[i + 1] : i \in Byte} \subseteq Byte
    BY <1>1, <1>5
  <2>2. ASSUME NEW b \in Byte PROVE b \in {s[i + 1] : i \in Byte}
    <3>1. PICK k \in 1..L : s[k] = b
      BY <1>1 DEF Kept
    <3>2. k - 1 \in Byte /\ s[(k - 1) + 1] = b
      BY <1>6, <3>1
    <3> QED BY <3>2
  <2> QED BY <2>1, <2>2
<1> QED BY <1>7, <1>8 DEF IsPermutation

\* The ranks of the images of a lattice are a permutation, however many coincide.
LEMMA RanksPermute ==
  ASSUME NEW points \in [Byte -> Int \X Int]
  PROVE  IsPermutation([i \in Byte |-> Rank(points, i)])
<1> DEFINE R == {ss \in Byte \X Byte : Before(points, ss[1], ss[2])}
           rank == [i \in Byte |-> Rank(points, i)]
<1>1. \A i, j \in Byte : <<i, j>> \in R <=> Before(points, i, j)
  OBVIOUS
<1>2. \A i \in Byte : i \in Int /\ points[i][1] \in Int /\ points[i][2] \in Int
  BY ByteFinite DEF Byte
<1>3. StrictOrder(R, Byte)
  <2>1. \A i \in Byte : ~Before(points, i, i)
    BY <1>2 DEF Before
  <2>2. \A i, j, k \in Byte :
          Before(points, i, j) /\ Before(points, j, k) => Before(points, i, k)
    BY <1>2 DEF Before
  <2>3. \A i, j \in Byte : i # j => Before(points, i, j) \/ Before(points, j, i)
    BY <1>2 DEF Before
  <2> QED BY <1>1, <2>1, <2>2, <2>3 DEF StrictOrder
<1>4. rank = [i \in Byte |-> Cardinality(Below(R, Byte, i))]
  <2> SUFFICES ASSUME NEW i \in Byte
               PROVE  {j \in Byte : Before(points, j, i)} = Below(R, Byte, i)
    BY DEF Rank
  <2> QED BY <1>1 DEF Below
<1> HIDE DEF R, rank
<1>5. /\ rank \in [Byte -> 0..(N - 1)]
      /\ \A i, j \in Byte : rank[i] = rank[j] => i = j
      /\ \A k \in 0..(N - 1) : \E i \in Byte : rank[i] = k
  BY <1>3, <1>4, ByteFinite, RankBijection
<1>6. {rank[i] : i \in Byte} = Byte
  <2>1. {rank[i] : i \in Byte} \subseteq Byte
    BY <1>5 DEF Byte
  <2>2. ASSUME NEW k \in Byte PROVE k \in {rank[i] : i \in Byte}
    <3>1. PICK i \in Byte : rank[i] = k
      BY <1>5 DEF Byte
    <3> QED BY <3>1
  <2> QED BY <2>1, <2>2
<1> QED BY <1>5, <1>6 DEF IsPermutation, rank

\* A construction begins with nothing kept.
LEMMA InitConstruct == Init => ConstructInv
<1> SUFFICES ASSUME Init PROVE ConstructInv
  OBVIOUS
<1>1. lpc \in {"idle", "called"} /\ t = 0 /\ sequence = <<>>
  BY DEF Init, LabInit, LabIdle, ConstructInit
<1>2. sequence \in Seq(Byte) /\ Distinct(sequence)
  BY <1>1 DEF Distinct
<1> QED BY <1>1, <1>2 DEF ConstructInv

\* Every step of the laboratory keeps what the construction knows.
LEMMA StepConstruct == ConstructInv /\ LabStep => ConstructInv'
<1> SUFFICES ASSUME ConstructInv, LabStep PROVE ConstructInv'
  OBVIOUS
<1>1. CASE StartKeyed
  BY <1>1, PathAssumption DEF StartKeyed, ConstructInv
<1>2. CASE KeepFirst
  <2>1. /\ sequence \in Seq(Byte) /\ Distinct(sequence) /\ t \in Nat /\ stream \in Seq(Byte)
        /\ lpc = "keyed" /\ t < Len(stream)
    BY <1>2 DEF KeepFirst, ConstructInv
  <2>2. stream[t + 1] \in Byte
    BY <2>1
  <2>3. sequence' \in Seq(Byte) /\ Distinct(sequence')
    BY <1>2, <2>1, <2>2, KeepsDistinct DEF KeepFirst, KeepUnseen, Seen, Kept
  <2> QED BY <1>2, <2>1, <2>3 DEF KeepFirst, ConstructInv
<1>3. CASE EndPath
  BY <1>3, ByteFinite DEF EndPath, ConstructInv
<1>4. CASE FillIn
  <2>1. /\ sequence \in Seq(Byte) /\ Distinct(sequence) /\ t \in 0..(N - 1) /\ lpc = "fill"
        /\ \A b \in 0..(t - 1) : b \in Kept(sequence)
    BY <1>4, ByteFinite DEF FillIn, ConstructInv
  <2>2. /\ sequence' \in Seq(Byte) /\ Distinct(sequence')
        /\ t \in Kept(sequence') /\ Kept(sequence) \subseteq Kept(sequence')
    <3>1. t \in Byte /\ sequence' = IF t \in Kept(sequence) THEN sequence ELSE Append(sequence, t)
      BY <1>4, <2>1 DEF FillIn, KeepUnseen, Seen, Kept, Byte
    <3> QED BY <2>1, <3>1, KeepsDistinct
  <2>3. \A b \in 0..((t + 1) - 1) : b \in 0..(t - 1) \/ b = t
    BY <2>1
  <2>4. \A b \in 0..((t + 1) - 1) : b \in Kept(sequence')
    BY <2>1, <2>2, <2>3
  <2>5. t + 1 \in 0..N
    BY <2>1, ByteFinite
  <2> QED BY <1>4, <2>1, <2>2, <2>4, <2>5 DEF FillIn, ConstructInv
<1>5. CASE EndFill
  <2>1. sequence \in Seq(Byte) /\ Distinct(sequence) /\ Byte \subseteq Kept(sequence)
    BY <1>5 DEF EndFill, ConstructInv, Byte
  <2>2. IsPermutation(box')
    BY <1>5, <2>1, SequencePermutes DEF EndFill
  <2> QED BY <1>5, <2>2 DEF EndFill, ConstructInv
<1>6. CASE ConstructDirect
  <2>1. IsPermutation(box')
    BY <1>6, ImageAssumption, RanksPermute DEF ConstructDirect
  <2> QED BY <1>6, <2>1 DEF ConstructDirect, ConstructInv
<1>7. CASE SupplyBox
  BY <1>7 DEF SupplyBox, ConstructInv
<1>8. CASE BeginSpectra
  BY <1>8 DEF BeginSpectra, ConstructInv
<1>9. CASE WalshRound
  BY <1>9 DEF WalshRound, ConstructInv
<1>10. CASE ComputeMetrics
  BY <1>10 DEF ComputeMetrics, ConstructInv
<1>11. CASE ReturnMetrics
  BY <1>11 DEF ReturnMetrics, ConstructInv
<1> QED BY <1>1, <1>2, <1>3, <1>4, <1>5, <1>6, <1>7, <1>8, <1>9, <1>10, <1>11
        DEF LabStep, ConstructStep

\* Whatever the path yields, however early it ends and however many images of a
\* lattice coincide, construct_sbox returns a permutation of the bytes, for every
\* number of bits: the keyed fill-in and the ranking of a direct lattice miss none.
THEOREM ConstructionPermutes == Spec => []ConstructedPermutation
<1>1. ConstructInv /\ [Next]_evidenceVars => ConstructInv'
  <2> SUFFICES ASSUME ConstructInv, [Next]_evidenceVars PROVE ConstructInv'
    OBVIOUS
  <2>1. CASE LabStep
    BY <2>1, StepConstruct
  <2>2. CASE UNCHANGED constructVars
    BY <2>2 DEF constructVars, ConstructInv
  <2> QED BY <2>1, <2>2 DEF Next, evidenceVars, operationVars, labVars
<1>2. ConstructInv => ConstructedPermutation
  BY DEF ConstructInv, ConstructedPermutation, IsPermutation
<1> QED BY <1>1, <1>2, InitConstruct, PTL DEF Spec

-----------------------------------------------------------------------------
(* Records: what the validator accepts. *)

\* A check has a reason exactly when it fails.
Reasoned(checks) ==
  DOMAIN checks # {} /\ \A n \in DOMAIN checks : checks[n].reason <=> checks[n].status = "fail"

\* The record of a result with reasoned checks is accepted if it is a success or of
\* a kind that may end without one.
LEMMA ReasonedAccepted ==
  ASSUME NEW r, r.finite, Reasoned(r.checks),
         r.type \in RecordType, r.evidence \in EvidenceKind, r.tier \in Tier,
         \/ Success(r.checks)
         \/ r.evidence = "numerical_screen"
         \/ r.type = "function_verification" /\ r.evidence = "inconclusive"
  PROVE  RecordAccepted(Record(r))
<1> DEFINE rec == [type |-> r.type, evidence |-> r.evidence, tier |-> r.tier, says |-> r.says,
                   failure |-> None, verification |-> Report(r.checks)]
<1>1. Record(r) = rec
  BY DEF Record
<1>2. ReportAccepted(Report(r.checks))
  BY DEF ReportAccepted, Report, Reasoned
<1>3. Report(r.checks).success = Success(r.checks)
  BY DEF Report
<1> QED BY <1>1, <1>2, <1>3 DEF RecordAccepted, NegativeFindingAllowed

\* Checks that are all required and pass are a success.
LEMMA PassingSucceeds ==
  ASSUME NEW checks, DOMAIN checks # {}, \A n \in DOMAIN checks : checks[n] = MakeCheck("pass", TRUE)
  PROVE  Reasoned(checks) /\ Success(checks)
<1>1. \A n \in DOMAIN checks : ~checks[n].reason /\ checks[n].status = "pass" /\ checks[n].required
  <2>1. LET c == MakeCheck("pass", TRUE) IN ~c.reason /\ c.status = "pass" /\ c.required
    BY DEF MakeCheck
  <2> QED BY <2>1
<1>2. Required(checks) = DOMAIN checks
  BY <1>1 DEF Required
<1>3. Success(checks)
  BY <1>1, <1>2 DEF Success
<1> QED BY <1>1, <1>3 DEF Reasoned

\* Whatever the screen tier answers is accepted.
LEMMA ScreenAccepted ==
  ASSUME NEW p, NEW m
  PROVE  RecordAccepted(Record(ScreenVerdict(p, m)))
<1> DEFINE checks == [input_finite |-> Finite, criterion_grid_screen |-> MakeCheck("pass", TRUE)]
<1>1. Reasoned(checks)
  <2>1. DOMAIN checks = {"input_finite", "criterion_grid_screen"}
    OBVIOUS
  <2>2. /\ checks["input_finite"] = MakeCheck("pass", TRUE)
        /\ checks["criterion_grid_screen"] = MakeCheck("pass", TRUE)
    BY DEF Finite
  <2>3. LET c == MakeCheck("pass", TRUE) IN c.reason <=> c.status = "fail"
    BY DEF MakeCheck
  <2> HIDE DEF checks
  <2> QED BY <2>1, <2>2, <2>3 DEF Reasoned
<1> DEFINE r == ScreenVerdict(p, m)
<1>2. /\ r.type = "function_verification" /\ r.evidence = "numerical_screen"
      /\ r.tier = "screen" /\ r.checks = checks /\ r.finite = TRUE
  BY DEF ScreenVerdict, Verified, Returned
<1> HIDE DEF checks, r
<1>3. r.type \in RecordType /\ r.evidence \in EvidenceKind /\ r.tier \in Tier
  BY <1>2 DEF RecordType, EvidenceKind, Tier
<1>4. RecordAccepted(Record(r))
  BY <1>1, <1>2, <1>3, ReasonedAccepted
<1> QED BY <1>4 DEF r

\* A function obeys its type, and a decided sum is "le" or "gt".
LEMMA SumsDecided ==
  ASSUME NEW f \in Functions
  PROVE  /\ C01(f) \in {"le", "gt", "unknown"} /\ Alexander(f) \in {"le", "gt", "unknown"}
         /\ f.alexanderDecided => Alexander(f) # "unknown"
BY FunctionLaws DEF C01, Alexander, Decided

\* So is what the symbolic tier answers once the convexity sum is decided.
LEMMA SymbolicAccepted ==
  ASSUME NEW f \in Functions, NEW p \in Property, f.alexanderDecided
  PROVE  RecordAccepted(Record(SymbolicVerdict(f, p)))
<1> DEFINE outcome == SymbolicOutcome(f, p)
           evidence == IF outcome = "proven" THEN "exact_proof" ELSE "inconclusive"
           checks == [input_finite |-> Finite, c01_exact_sum |-> SymbolicC01Check(f, p),
                      alexander_convexity_sum |-> SymbolicConvexCheck(f, p),
                      full_function_proof_scope |-> SymbolicScopeCheck(outcome)]
           names == {"input_finite", "c01_exact_sum", "alexander_convexity_sum",
                     "full_function_proof_scope"}
<1>0. DOMAIN checks = names
  OBVIOUS
<1>1. /\ checks["input_finite"] = MakeCheck("pass", TRUE)
      /\ checks["c01_exact_sum"] = SymbolicC01Check(f, p)
      /\ checks["alexander_convexity_sum"] = SymbolicConvexCheck(f, p)
      /\ checks["full_function_proof_scope"] = SymbolicScopeCheck(outcome)
  BY DEF Finite
<1>2. Alexander(f) \in {"le", "gt"} /\ C01(f) \in {"le", "gt", "unknown"}
  BY SumsDecided
<1> HIDE DEF checks
<1>3. Reasoned(checks)
  <2>1. LET c == SymbolicConvexCheck(f, p) IN c.reason <=> c.status = "fail"
    BY <1>2 DEF SymbolicConvexCheck, StatusOf
  <2>2. LET c == SymbolicC01Check(f, p) IN c.reason <=> c.status = "fail"
    BY DEF SymbolicC01Check, MakeCheck
  <2>3. LET c == SymbolicScopeCheck(outcome) IN c.reason <=> c.status = "fail"
    BY DEF SymbolicScopeCheck, MakeCheck
  <2>4. LET c == MakeCheck("pass", TRUE) IN c.reason <=> c.status = "fail"
    BY DEF MakeCheck
  <2> QED BY <1>0, <1>1, <2>1, <2>2, <2>3, <2>4 DEF Reasoned
<1>4. ASSUME outcome = "proven" PROVE Success(checks)
  <2>1. Governing(f, p) = "le"
    BY <1>2, <1>4 DEF SymbolicOutcome, Governing
  <2>2. p # "convex" => checks["c01_exact_sum"].status = "pass"
    BY <1>1, <2>1 DEF SymbolicC01Check, MakeCheck, StatusOf, Governing
  <2>3. p = "convex" => checks["alexander_convexity_sum"].status = "pass"
    BY <1>1, <2>1 DEF SymbolicConvexCheck, StatusOf, Governing
  <2>4. /\ checks["c01_exact_sum"].required <=> p # "convex"
        /\ checks["alexander_convexity_sum"].required <=> p = "convex"
    <3>1. /\ SymbolicC01Check(f, p).required <=> p # "convex"
          /\ SymbolicConvexCheck(f, p).required <=> p = "convex"
      BY DEF SymbolicC01Check, SymbolicConvexCheck, MakeCheck
    <3> QED BY <1>1, <3>1
  <2>5. ~checks["full_function_proof_scope"].required
    <3>1. outcome # "inconclusive_truncation"
      BY <1>4
    <3>2. ~SymbolicScopeCheck(outcome).required
      BY <3>1 DEF SymbolicScopeCheck, MakeCheck
    <3> QED BY <1>1, <3>2
  <2>6. checks["input_finite"].required /\ checks["input_finite"].status = "pass"
    BY <1>1 DEF MakeCheck
  <2> QED BY <1>0, <2>2, <2>3, <2>4, <2>5, <2>6 DEF Success, Required
<1> DEFINE r == SymbolicVerdict(f, p)
<1>5. /\ r.type = "function_verification" /\ r.evidence = evidence
      /\ r.tier = "symbolic" /\ r.checks = checks /\ r.finite = TRUE
  BY DEF SymbolicVerdict, Verified, Returned, checks
<1> HIDE DEF r
<1>6. r.type \in RecordType /\ r.evidence \in EvidenceKind /\ r.tier \in Tier
  BY <1>5 DEF RecordType, EvidenceKind, Tier
<1>7. Success(r.checks) \/ r.evidence = "inconclusive"
  BY <1>4, <1>5
<1>8. RecordAccepted(Record(r))
  BY <1>3, <1>5, <1>6, <1>7, ReasonedAccepted
<1> QED BY <1>8 DEF r

\* And everything the rigorous tier answers.
LEMMA RigorousAccepted ==
  ASSUME NEW f \in Functions, NEW p \in Property, NEW e
  PROVE  RecordAccepted(Record(RigorousVerdict(f, p, e)))
<1> DEFINE outcome == RigorousOutcome(f, p, e)
           evidence == CASE outcome = "certified_violation" -> "certified_enclosure"
                         [] outcome = "proven" -> "exact_proof"
                         [] OTHER -> "numerical_screen"
           c01 == MakeCheck(StatusOf(C01(f)), outcome = "proven" /\ p # "convex")
           convex == MakeCheck(StatusOf(Alexander(f)), outcome = "proven" /\ p = "convex")
           interval == MakeCheck(IF e \in {"open", "separated"} THEN "pass" ELSE "skip", e = "separated")
           scope == MakeCheck(IF outcome \in {"proven", "certified_violation"} THEN "pass" ELSE "skip",
                              outcome = "no_certified_violation_on_grid")
           checks == [input_finite |-> Finite, criterion_grid_screen |-> MakeCheck("pass", TRUE),
                      c01_exact_sum |-> c01, alexander_convexity_sum |-> convex,
                      interval_certification |-> interval, full_function_proof_scope |-> scope]
           names == {"input_finite", "criterion_grid_screen", "c01_exact_sum",
                     "alexander_convexity_sum", "interval_certification",
                     "full_function_proof_scope"}
<1>0. DOMAIN checks = names
  OBVIOUS
<1>1. /\ checks["input_finite"] = MakeCheck("pass", TRUE)
      /\ checks["criterion_grid_screen"] = MakeCheck("pass", TRUE)
      /\ checks["c01_exact_sum"] = c01
      /\ checks["alexander_convexity_sum"] = convex
      /\ checks["interval_certification"] = interval
      /\ checks["full_function_proof_scope"] = scope
  BY DEF Finite
<1> HIDE DEF checks
<1>2. Reasoned(checks)
  <2>1. /\ LET c == MakeCheck("pass", TRUE) IN c.reason <=> c.status = "fail"
        /\ c01.reason <=> c01.status = "fail"
        /\ convex.reason <=> convex.status = "fail"
        /\ interval.reason <=> interval.status = "fail"
        /\ scope.reason <=> scope.status = "fail"
    BY DEF MakeCheck
  <2> HIDE DEF c01, convex, interval, scope
  <2> QED BY <1>0, <1>1, <2>1 DEF Reasoned
<1>3. outcome \in {"certified_violation", "proven", "no_certified_violation_on_grid"}
  BY DEF RigorousOutcome
<1>4. /\ checks["input_finite"].required /\ checks["input_finite"].status = "pass"
      /\ checks["criterion_grid_screen"].required /\ checks["criterion_grid_screen"].status = "pass"
  BY <1>1 DEF MakeCheck
<1>5. /\ checks["c01_exact_sum"].required <=> outcome = "proven" /\ p # "convex"
      /\ checks["alexander_convexity_sum"].required <=> outcome = "proven" /\ p = "convex"
      /\ checks["interval_certification"].required <=> e = "separated"
      /\ checks["full_function_proof_scope"].required <=> outcome = "no_certified_violation_on_grid"
  <2>1. /\ c01.required <=> outcome = "proven" /\ p # "convex"
        /\ convex.required <=> outcome = "proven" /\ p = "convex"
        /\ interval.required <=> e = "separated"
        /\ scope.required <=> outcome = "no_certified_violation_on_grid"
    BY DEF MakeCheck
  <2> HIDE DEF c01, convex, interval, scope
  <2> QED BY <1>1, <2>1
<1>6. /\ checks["c01_exact_sum"].status = StatusOf(C01(f))
      /\ checks["alexander_convexity_sum"].status = StatusOf(Alexander(f))
      /\ e = "separated" => checks["interval_certification"].status = "pass"
  BY <1>1 DEF MakeCheck
<1>7. ASSUME outcome = "proven" PROVE Success(checks)
  <2>1. e # "separated" /\ Governing(f, p) = "le"
    BY <1>7 DEF RigorousOutcome
  <2>2. IF p = "convex" THEN StatusOf(Alexander(f)) = "pass" ELSE StatusOf(C01(f)) = "pass"
    BY <2>1 DEF Governing, StatusOf
  <2> QED BY <1>0, <1>4, <1>5, <1>6, <1>7, <2>1, <2>2 DEF Success, Required
<1>8. ASSUME outcome = "certified_violation" PROVE Success(checks)
  BY <1>0, <1>4, <1>5, <1>6, <1>8 DEF Success, Required
<1> DEFINE r == RigorousVerdict(f, p, e)
<1>9. /\ r.type = "function_verification" /\ r.evidence = evidence
      /\ r.tier = "rigorous" /\ r.checks = checks /\ r.finite = TRUE
  BY DEF RigorousVerdict, Verified, Returned, checks
<1> HIDE DEF r
<1>10. r.type \in RecordType /\ r.evidence \in EvidenceKind /\ r.tier \in Tier
  BY <1>3, <1>9 DEF RecordType, EvidenceKind, Tier
<1>11. Success(r.checks) \/ r.evidence = "numerical_screen"
  BY <1>3, <1>7, <1>8, <1>9
<1>12. RecordAccepted(Record(r))
  BY <1>2, <1>9, <1>10, <1>11, ReasonedAccepted
<1> QED BY <1>12 DEF r

\* The answers of the search are accepted, certified or not.
LEMMA SearchAccepted ==
  ASSUME NEW b PROVE RecordAccepted(Record(SearchResult(b)))
<1> DEFINE r == SearchResult(b)
           checks == [grid_search_screened |-> MakeCheck("pass", TRUE),
                      interval_certified |-> MakeCheck("pass", TRUE)]
<1>1. /\ r.type = "witness_search" /\ r.tier = "rigorous" /\ r.finite = TRUE
      /\ r.evidence \in {"certified_enclosure", "numerical_screen"}
      /\ r.checks = checks
  BY DEF SearchResult, Returned
<1>2. /\ DOMAIN checks = {"grid_search_screened", "interval_certified"}
      /\ checks["grid_search_screened"] = MakeCheck("pass", TRUE)
      /\ checks["interval_certified"] = MakeCheck("pass", TRUE)
  OBVIOUS
<1>3. Reasoned(checks) /\ Success(checks)
  <2> HIDE DEF checks
  <2> QED BY <1>2, PassingSucceeds
<1> HIDE DEF r, checks
<1>4. r.type \in RecordType /\ r.evidence \in EvidenceKind /\ r.tier \in Tier
  BY <1>1 DEF RecordType, EvidenceKind, Tier
<1>5. RecordAccepted(Record(r))
  BY <1>1, <1>2, <1>3, <1>4, ReasonedAccepted
<1> QED BY <1>5 DEF r

\* So are the records of the two laboratories.
LEMMA LaboratoryAccepted ==
  ASSUME NEW says, NEW evidence \in {"benchmark_metric", "empirical_metric"},
         NEW names, names # {}
  PROVE  RecordAccepted(Record(
           Returned("lab_metrics", evidence, "lab", [n \in names |-> MakeCheck("pass", TRUE)], TRUE, says)))
<1> DEFINE checks == [n \in names |-> MakeCheck("pass", TRUE)]
           r == Returned("lab_metrics", evidence, "lab", checks, TRUE, says)
<1>1. /\ r.type = "lab_metrics" /\ r.tier = "lab" /\ r.finite = TRUE
      /\ r.evidence = evidence /\ r.checks = checks
  BY DEF Returned
<1>2. Reasoned(checks) /\ Success(checks)
  <2>1. DOMAIN checks = names /\ \A n \in names : checks[n] = MakeCheck("pass", TRUE)
    OBVIOUS
  <2> HIDE DEF checks
  <2> QED BY <2>1, PassingSucceeds
<1> HIDE DEF r, checks
<1>3. r.type \in RecordType /\ r.evidence \in EvidenceKind /\ r.tier \in Tier
  BY <1>1 DEF RecordType, EvidenceKind, Tier
<1>4. RecordAccepted(Record(r))
  BY <1>1, <1>2, <1>3, ReasonedAccepted
<1> QED BY <1>4 DEF r, checks

\* And those of the screens of classes.py, unless a number is not finite.
LEMMA ScreenedAccepted ==
  ASSUME NEW type \in {"class_admissibility", "class_membership", "class_containment"},
         NEW checks, Reasoned(checks), NEW finite, NEW says
  PROVE  LET r == Screened(type, checks, finite, says) IN r.finite => RecordAccepted(Record(r))
<1> DEFINE r == Screened(type, checks, finite, says)
<1>1. /\ r.type = type /\ r.tier = "screen"
      /\ r.evidence = "numerical_screen" /\ r.checks = checks
  BY DEF Screened, Returned
<1> HIDE DEF r
<1>2. r.type \in RecordType /\ r.evidence \in EvidenceKind /\ r.tier \in Tier
  BY <1>1 DEF RecordType, EvidenceKind, Tier
<1>3. r.finite => RecordAccepted(Record(r))
  BY <1>1, <1>2, ReasonedAccepted
<1> QED BY <1>3 DEF r

\* Outcomes of single checks.
LEMMA OutcomeReasoned ==
  ASSUME NEW holds
  PROVE  LET c == Outcome(holds) IN c.reason <=> c.status = "fail"
BY DEF Outcome, MakeCheck

\* What the samplings and the admissibility check return.
LEMMA SamplingAccepted ==
  /\ MembershipResult.finite => RecordAccepted(Record(MembershipResult))
  /\ ContainmentResult.finite => RecordAccepted(Record(ContainmentResult))
<1> DEFINE two == [input_finite |-> MakeCheck("pass", TRUE),
                   subordination_winding_screen |-> Outcome(Contained)]
           one == [inner_curve_inside_outer |-> Outcome(Contained)]
<1>1. LET c == MakeCheck("pass", TRUE) IN c.reason <=> c.status = "fail"
  BY DEF MakeCheck
<1>2. LET c == Outcome(Contained) IN c.reason <=> c.status = "fail"
  BY OutcomeReasoned
<1>3. /\ DOMAIN two = {"input_finite", "subordination_winding_screen"}
      /\ two["input_finite"] = MakeCheck("pass", TRUE)
      /\ two["subordination_winding_screen"] = Outcome(Contained)
      /\ DOMAIN one = {"inner_curve_inside_outer"}
      /\ one["inner_curve_inside_outer"] = Outcome(Contained)
  OBVIOUS
<1> HIDE DEF two, one
<1>4. Reasoned(two) /\ Reasoned(one)
  BY <1>1, <1>2, <1>3 DEF Reasoned
<1>5. MembershipResult.finite => RecordAccepted(Record(MembershipResult))
  BY <1>4, ScreenedAccepted DEF MembershipResult, two
<1>6. ContainmentResult.finite => RecordAccepted(Record(ContainmentResult))
  BY <1>4, ScreenedAccepted DEF ContainmentResult, one
<1> QED BY <1>5, <1>6

\* And what the admissibility check returns, whichever of its parts hold.
LEMMA AdmissibilityAccepted ==
  ASSUME NEW a, NEW b, NEW c, NEW d, NEW e, NEW finite, NEW says
  PROVE  LET r == Screened("class_admissibility",
                    [phi0_equals_1 |-> Outcome(a), phi_prime0_positive |-> Outcome(b),
                     re_phi_positive |-> Outcome(c), real_coefficients_symmetry |-> Outcome(d),
                     starlike_wrt_1 |-> Outcome(e)], finite, says)
         IN r.finite => RecordAccepted(Record(r))
<1> DEFINE checks == [phi0_equals_1 |-> Outcome(a), phi_prime0_positive |-> Outcome(b),
                      re_phi_positive |-> Outcome(c), real_coefficients_symmetry |-> Outcome(d),
                      starlike_wrt_1 |-> Outcome(e)]
<1>1. /\ DOMAIN checks = {"phi0_equals_1", "phi_prime0_positive", "re_phi_positive",
                          "real_coefficients_symmetry", "starlike_wrt_1"}
      /\ checks["phi0_equals_1"] = Outcome(a) /\ checks["phi_prime0_positive"] = Outcome(b)
      /\ checks["re_phi_positive"] = Outcome(c)
      /\ checks["real_coefficients_symmetry"] = Outcome(d)
      /\ checks["starlike_wrt_1"] = Outcome(e)
  OBVIOUS
<1>2. Reasoned(checks)
  <2> HIDE DEF checks
  <2> QED BY <1>1, OutcomeReasoned DEF Reasoned
<1> QED BY <1>2, ScreenedAccepted

-----------------------------------------------------------------------------
(* The way of a record. *)

\* One operation is called at a time.
OneCalled ==
  /\ vpc # "idle" => spc = "idle" /\ kpc = "idle" /\ lpc = "idle" /\ ipc = "idle"
  /\ spc # "idle" => kpc = "idle" /\ lpc = "idle" /\ ipc = "idle"
  /\ kpc # "idle" => lpc = "idle" /\ ipc = "idle"
  /\ lpc # "idle" => ipc = "idle"

\* verify_function was asked about a function it knows.
VerifyKnown ==
  vpc # "idle" => function \in Functions /\ property \in Property /\ tier \in VerifyTier

\* An operation that has not ended has no result.
Working ==
  \/ vpc \in {"call", "scan", "certify", "verdict"}
  \/ spc \in {"grid", "try"}
  \/ kpc = "test"
  \/ lpc \in {"called", "keyed", "fill", "built", "supplied", "walsh", "metrics"}
  \/ ipc \in {"called", "columns", "rows", "filtered"}
Pending == Working => result = None

\* A record is the one of the result, and only a record that could be written
\* is judged.
Chain ==
  /\ result = None => record = None
  /\ record = None => accepted = None
  /\ record # None => record = Record(result)
  /\ accepted # None => result.finite
  /\ accepted = FALSE => ~RecordAccepted(Record(result))

\* What can be written is accepted, except the undecided symbolic answer.
Acceptable ==
  result # None /\ result.finite =>
    \/ RecordAccepted(Record(result))
    \/ vpc = "done" /\ tier = "symbolic" /\ ~function.alexanderDecided

RecordInv == OneCalled /\ VerifyKnown /\ Pending /\ Chain /\ Acceptable

-----------------------------------------------------------------------------
(* The way of a record is inductive. *)

\* Each operation is called alone.
LEMMA CalledAlone ==
  OneCalled =>
    /\ vpc # "idle" => spc = "idle" /\ kpc = "idle" /\ lpc = "idle" /\ ipc = "idle"
    /\ spc # "idle" => vpc = "idle" /\ kpc = "idle" /\ lpc = "idle" /\ ipc = "idle"
    /\ kpc # "idle" => vpc = "idle" /\ spc = "idle" /\ lpc = "idle" /\ ipc = "idle"
    /\ lpc # "idle" => vpc = "idle" /\ spc = "idle" /\ kpc = "idle" /\ ipc = "idle"
    /\ ipc # "idle" => vpc = "idle" /\ spc = "idle" /\ kpc = "idle" /\ lpc = "idle"
BY DEF OneCalled

\* A step that answers nothing leaves no result, no record and no verdict.
LEMMA QuietStep ==
  ASSUME result' = None, record' = None, accepted' = None, OneCalled', VerifyKnown'
  PROVE  RecordInv'
<1>1. Chain'
  BY NoneAssumption DEF Chain
<1>2. Pending' /\ Acceptable'
  BY DEF Pending, Acceptable
<1> QED BY <1>1, <1>2 DEF RecordInv

\* A step that answers leaves a result that has no record yet.
LEMMA AnswerStep ==
  ASSUME RecordInv, result = None, UNCHANGED <<record, accepted>>,
         OneCalled', VerifyKnown', ~Working', Acceptable'
  PROVE  RecordInv'
<1>1. record' = None /\ accepted' = None
  BY DEF RecordInv, Chain
<1>2. Chain'
  BY <1>1, NoneAssumption DEF Chain
<1> QED BY <1>2 DEF RecordInv, Pending

\* Nothing has been answered when an operation is called.
LEMMA InitRecord == Init => RecordInv
<1> SUFFICES ASSUME Init PROVE RecordInv
  OBVIOUS
<1>1. result = None /\ record = None /\ accepted = None
  BY DEF Init, RecordInit
<1>2. OneCalled
  BY DEF Init, OneCalled, VerifyIdle, SearchIdle, ScreenIdle, LabIdle, ImageIdle
<1>3. VerifyKnown
  BY DEF Init, VerifyKnown, VerifyIdle, VerifyInit
<1>4. Pending /\ Chain /\ Acceptable
  BY <1>1, NoneAssumption DEF Pending, Chain, Acceptable
<1> QED BY <1>2, <1>3, <1>4 DEF RecordInv

\* The steps of verify_function.
LEMMA VerifyRecord ==
  ASSUME RecordInv, VerifyStep, UNCHANGED <<searchVars, screenVars, labVars, imageVars>>
  PROVE  RecordInv'
<1>0. /\ spc = "idle" /\ kpc = "idle" /\ lpc = "idle" /\ ipc = "idle"
      /\ function \in Functions /\ property \in Property /\ tier \in VerifyTier
      /\ UNCHANGED <<spc, kpc, lpc, ipc>>
  <2>1. vpc # "idle"
    BY DEF VerifyStep, Call, GridScan, GridSingular, Certify, Verdict, AskRigorous
  <2> QED BY <2>1, CalledAlone
          DEF RecordInv, VerifyKnown, searchVars, screenVars, labVars, constructVars, imageVars
<1>1. OneCalled'
  BY <1>0 DEF OneCalled
<1>2. VerifyKnown'
  BY <1>0 DEF VerifyKnown, VerifyStep, Call, GridScan, GridSingular, Certify, Verdict,
              AskRigorous, callVars, VerifyTier
<1>3. CASE Call \/ GridScan \/ GridSingular \/ Certify
  <2>1. result = None
    BY <1>3 DEF RecordInv, Pending, Working, Call, GridScan, GridSingular, Certify
  <2>2. result' = None /\ record' = None /\ accepted' = None
    BY <1>3, <2>1 DEF RecordInv, Chain, recordVars, Call, GridScan, GridSingular, Certify
  <2> QED BY <1>1, <1>2, <2>2, QuietStep
<1>4. CASE Verdict
  <2>1. result = None /\ UNCHANGED <<record, accepted>>
    BY <1>4 DEF RecordInv, Pending, Working, Verdict
  <2>2. ~Working'
    BY <1>0, <1>4 DEF Working, Verdict
  <2>3. /\ vpc' = "done" /\ tier' = tier /\ function' = function
        /\ \/ tier = "screen" /\ result' = ScreenVerdict(property, margin)
           \/ tier = "symbolic" /\ result' = SymbolicVerdict(function, property)
           \/ tier = "rigorous" /\ result' = RigorousVerdict(function, property, enclosure)
    BY <1>0, <1>4 DEF Verdict, callVars, VerifyTier
  <2>4. Acceptable'
    <3>1. CASE result' = ScreenVerdict(property, margin)
      <4>1. RecordAccepted(Record(result'))
        BY <3>1, ScreenAccepted
      <4> QED BY <4>1 DEF Acceptable
    <3>2. CASE tier = "symbolic" /\ result' = SymbolicVerdict(function, property)
      <4>1. function.alexanderDecided => RecordAccepted(Record(result'))
        BY <1>0, <3>2, SymbolicAccepted
      <4> QED BY <2>3, <3>2, <4>1 DEF Acceptable
    <3>3. CASE result' = RigorousVerdict(function, property, enclosure)
      <4>1. RecordAccepted(Record(result'))
        BY <1>0, <3>3, RigorousAccepted
      <4> QED BY <4>1 DEF Acceptable
    <3> QED BY <2>3, <3>1, <3>2, <3>3
  <2> QED BY <1>1, <1>2, <2>1, <2>2, <2>4, AnswerStep
<1>5. CASE AskRigorous
  BY <1>1, <1>2, <1>5, QuietStep DEF AskRigorous
<1> QED BY <1>3, <1>4, <1>5 DEF VerifyStep

\* The steps of find_counterexample.
LEMMA SearchRecord ==
  ASSUME RecordInv, SearchStep, UNCHANGED <<verifyVars, screenVars, labVars, imageVars>>
  PROVE  RecordInv'
<1>0. /\ vpc = "idle" /\ kpc = "idle" /\ lpc = "idle" /\ ipc = "idle"
      /\ UNCHANGED <<vpc, kpc, lpc, ipc>>
      /\ result = None /\ record = None /\ accepted = None
  <2>1. spc \in {"grid", "try"}
    BY DEF SearchStep, FindCandidate, NoCandidate, TryCandidate, EndSearch
  <2> QED BY <2>1, CalledAlone
          DEF RecordInv, Pending, Working, Chain, verifyVars, screenVars, labVars,
              constructVars, imageVars
<1>1. OneCalled' /\ VerifyKnown'
  BY <1>0 DEF OneCalled, VerifyKnown
<1>2. CASE result' = None /\ record' = record /\ accepted' = accepted
  <2>1. record' = None /\ accepted' = None
    BY <1>0, <1>2
  <2> QED BY <1>1, <1>2, <2>1, QuietStep
<1>3. CASE EndSearch /\ best # None
  <2>1. result' = SearchResult(best) /\ UNCHANGED <<record, accepted>> /\ spc' = "done"
    BY <1>3 DEF EndSearch
  <2>2. ~Working'
    BY <1>0, <2>1 DEF Working
  <2>3. RecordAccepted(Record(result'))
    BY <2>1, SearchAccepted
  <2>4. Acceptable'
    BY <2>3 DEF Acceptable
  <2> QED BY <1>0, <1>1, <2>1, <2>2, <2>4, AnswerStep
<1>4. \/ result' = None /\ record' = record /\ accepted' = accepted
      \/ EndSearch /\ best # None
  BY <1>0 DEF SearchStep, FindCandidate, NoCandidate, TryCandidate, EndSearch, recordVars
<1> QED BY <1>2, <1>3, <1>4

\* The steps of the screens of classes.py.
LEMMA ScreenRecord ==
  ASSUME RecordInv, ScreenStep, UNCHANGED <<verifyVars, searchVars, labVars, imageVars>>
  PROVE  RecordInv'
<1>0. /\ vpc = "idle" /\ spc = "idle" /\ lpc = "idle" /\ ipc = "idle"
      /\ UNCHANGED <<vpc, spc, lpc, ipc>>
      /\ result = None /\ record = None /\ accepted = None
      /\ UNCHANGED <<record, accepted>>
  <2>1. kpc = "test" /\ UNCHANGED <<record, accepted>>
    BY DEF ScreenStep, TestValue, EndSampling, Admissibility, recordVars
  <2> QED BY <2>1, CalledAlone
          DEF RecordInv, Pending, Working, Chain, verifyVars, searchVars, labVars,
              constructVars, imageVars
<1>1. OneCalled' /\ VerifyKnown'
  BY <1>0 DEF OneCalled, VerifyKnown
<1>2. CASE result' = None
  <2>1. record' = None /\ accepted' = None
    BY <1>0
  <2> QED BY <1>1, <1>2, <2>1, QuietStep
<1>3. CASE kpc' = "done" /\ (result'.finite => RecordAccepted(Record(result')))
  <2>1. ~Working'
    BY <1>0, <1>3 DEF Working
  <2>2. Acceptable'
    BY <1>3 DEF Acceptable
  <2> QED BY <1>0, <1>1, <2>1, <2>2, AnswerStep
<1>4. CASE TestValue
  BY <1>0, <1>2, <1>4 DEF TestValue, recordVars
<1>5. CASE EndSampling
  <2>1. \/ result' = result
        \/ kpc' = "done" /\ result' = MembershipResult
        \/ kpc' = "done" /\ result' = ContainmentResult
    BY <1>5 DEF EndSampling
  <2> QED BY <1>0, <1>2, <1>3, <2>1, SamplingAccepted
<1>6. CASE Admissibility
  <2>1. kpc' = "done"
    BY <1>6 DEF Admissibility
  <2>2. result'.finite => RecordAccepted(Record(result'))
    BY <1>6, AdmissibilityAccepted DEF Admissibility
  <2> QED BY <1>3, <2>1, <2>2
<1> QED BY <1>4, <1>5, <1>6 DEF ScreenStep

\* The steps of the S-box laboratory.
LEMMA LabRecord ==
  ASSUME RecordInv, LabStep, UNCHANGED <<verifyVars, searchVars, screenVars, imageVars>>
  PROVE  RecordInv'
<1> DEFINE active == {"called", "keyed", "fill", "built", "supplied", "walsh", "metrics"}
<1>0. lpc \in active
  BY DEF LabStep, ConstructStep, StartKeyed, KeepFirst, EndPath, FillIn, EndFill,
         ConstructDirect, SupplyBox, BeginSpectra, WalshRound, ComputeMetrics, ReturnMetrics
<1>1. /\ vpc = "idle" /\ spc = "idle" /\ kpc = "idle" /\ ipc = "idle"
      /\ UNCHANGED <<vpc, spc, kpc, ipc>>
      /\ result = None /\ record = None /\ accepted = None
  BY <1>0, CalledAlone
     DEF RecordInv, Pending, Working, Chain, verifyVars, searchVars, screenVars, imageVars
<1>2. OneCalled' /\ VerifyKnown'
  BY <1>1 DEF OneCalled, VerifyKnown
<1>3. CASE UNCHANGED recordVars
  <2>1. result' = None /\ record' = None /\ accepted' = None
    BY <1>1, <1>3 DEF recordVars
  <2> QED BY <1>2, <2>1, QuietStep
<1>4. CASE ReturnMetrics /\ UNCHANGED <<record, accepted>>
  <2>1. lpc' = "done" /\ result' = SboxRecord
    BY <1>4 DEF ReturnMetrics
  <2>2. ~Working'
    BY <1>1, <2>1 DEF Working
  <2>3. RecordAccepted(Record(SboxRecord))
    BY LaboratoryAccepted DEF SboxRecord
  <2>4. Acceptable'
    BY <2>1, <2>3 DEF Acceptable
  <2> QED BY <1>1, <1>2, <1>4, <2>2, <2>4, AnswerStep
<1> QED BY <1>3, <1>4 DEF LabStep

\* The steps of the image laboratory.
LEMMA ImageRecord ==
  ASSUME RecordInv, ImageStep, UNCHANGED <<verifyVars, searchVars, screenVars, labVars>>
  PROVE  RecordInv'
<1>0. ipc \in {"called", "columns", "rows", "filtered"}
  BY DEF ImageStep, StartFilter, AccumulateRows, Filter, Transform, RecordMetrics
<1>1. /\ vpc = "idle" /\ spc = "idle" /\ kpc = "idle" /\ lpc = "idle"
      /\ UNCHANGED <<vpc, spc, kpc, lpc>>
      /\ result = None /\ record = None /\ accepted = None
  BY <1>0, CalledAlone
     DEF RecordInv, Pending, Working, Chain, verifyVars, searchVars, screenVars, labVars,
         constructVars
<1>2. OneCalled' /\ VerifyKnown'
  BY <1>1 DEF OneCalled, VerifyKnown
<1>3. CASE UNCHANGED recordVars
  <2>1. result' = None /\ record' = None /\ accepted' = None
    BY <1>1, <1>3 DEF recordVars
  <2> QED BY <1>2, <2>1, QuietStep
<1>4. CASE /\ ipc' \in {"smooth", "edge", "sharpen", "done"}
           /\ result' \in {TransformRecord, MetricsRecord}
           /\ UNCHANGED <<record, accepted>>
  <2>1. ~Working'
    BY <1>1, <1>4 DEF Working
  <2>2. RecordAccepted(Record(TransformRecord))
    BY LaboratoryAccepted DEF TransformRecord
  <2>3. RecordAccepted(Record(MetricsRecord))
    BY LaboratoryAccepted DEF MetricsRecord
  <2>4. Acceptable'
    BY <1>4, <2>2, <2>3 DEF Acceptable
  <2> QED BY <1>1, <1>2, <1>4, <2>1, <2>4, AnswerStep
<1>5. \/ UNCHANGED recordVars
      \/ /\ ipc' \in {"smooth", "edge", "sharpen", "done"}
         /\ result' \in {TransformRecord, MetricsRecord}
         /\ UNCHANGED <<record, accepted>>
  BY DEF ImageStep, Transform, RecordMetrics
<1> QED BY <1>3, <1>4, <1>5

\* The steps of the record itself: building it and judging it.
LEMMA JudgedRecord ==
  ASSUME RecordInv, RecordNext, UNCHANGED operationVars
  PROVE  RecordInv'
<1>1. UNCHANGED <<function, property, tier, vpc, spc, kpc, lpc, ipc>>
  BY DEF operationVars, verifyVars, callVars, searchVars, screenVars, labVars, constructVars,
         imageVars
<1>2. result' = result
  BY DEF RecordNext, BuildRecord, ValidateRecord
<1>3. OneCalled' /\ VerifyKnown' /\ Pending' /\ Acceptable'
  BY <1>1, <1>2 DEF RecordInv, OneCalled, VerifyKnown, Pending, Working, Acceptable
<1>4. CASE BuildRecord
  <2>1. record = None /\ accepted = None /\ record' = Record(result) /\ accepted' = None
        /\ result # None
    BY <1>4 DEF RecordInv, Chain, BuildRecord
  <2> QED BY <1>2, <1>3, <2>1, NoneAssumption DEF RecordInv, Chain
<1>5. CASE ValidateRecord
  <2>1. /\ record # None /\ record = Record(result) /\ record' = record
        /\ "raised" \notin DOMAIN record /\ result # None
        /\ accepted' = RecordAccepted(Record(result))
    BY <1>5 DEF RecordInv, Chain, ValidateRecord
  <2>2. result.finite
    BY <2>1 DEF Record
  <2>3. accepted' = FALSE => ~RecordAccepted(Record(result))
    BY <2>1
  <2>4. Chain'
    BY <1>2, <2>1, <2>2, <2>3 DEF Chain
  <2> QED BY <1>3, <2>4 DEF RecordInv
<1> QED BY <1>4, <1>5 DEF RecordNext

\* Every step of the path of evidence keeps the way of the record.
LEMMA StepRecord == RecordInv /\ [Next]_evidenceVars => RecordInv'
<1> SUFFICES ASSUME RecordInv, [Next]_evidenceVars PROVE RecordInv'
  OBVIOUS
<1>1. CASE UNCHANGED evidenceVars
  BY <1>1 DEF RecordInv, OneCalled, VerifyKnown, Pending, Working, Chain, Acceptable,
              evidenceVars, recordVars, operationVars, verifyVars, callVars, searchVars,
              screenVars, labVars, constructVars, imageVars
<1> QED BY <1>1, VerifyRecord, SearchRecord, ScreenRecord, LabRecord, ImageRecord,
           JudgedRecord DEF Next

\* Every analysis record an operation leaves is accepted by its receiver, except
\* that of a symbolic answer whose convexity sum SymPy cannot compare with 1
\* (verify.py 643-649; contracts.py 1071-1074; records.py 239-250).
THEOREM RecordsAccepted == Spec => []RefusedOnlyUndecided
<1>1. RecordInv => RefusedOnlyUndecided
  BY NoneAssumption DEF RecordInv, Chain, Acceptable, RefusedOnlyUndecided
<1> QED BY <1>1, InitRecord, StepRecord, PTL DEF Spec

-----------------------------------------------------------------------------
(* What verify_function claims when it is called among the others. *)

\* verify_function is not called, or its invariant holds.
VerifyInv == vpc = "idle" \/ IInv

\* Alone or among the others, a call of verify_function begins in its initial
\* states, takes its own steps and those of its records, and no others.
LEMMA VerifyAmongOthers ==
  /\ Init => VerifyInv
  /\ RecordInv /\ VerifyInv /\ [Next]_evidenceVars => VerifyInv'
<1>1. Init => VerifyInv
  BY InitInv DEF Init, VerifyIdle, VerifyInv
<1>2. ASSUME RecordInv, VerifyInv, [Next]_evidenceVars PROVE VerifyInv'
  <2>1. CASE vpc = "idle"
    <3>1. ~VerifyStep
      BY <2>1 DEF VerifyStep, Call, GridScan, GridSingular, Certify, Verdict, AskRigorous
    <3>2. UNCHANGED verifyVars
      BY <1>2, <3>1 DEF Next, evidenceVars, operationVars
    <3> QED BY <2>1, <3>2 DEF verifyVars, VerifyInv
  <2>2. CASE vpc # "idle"
    <3>1. spc = "idle" /\ kpc = "idle" /\ lpc = "idle" /\ ipc = "idle"
      BY <1>2, <2>2, CalledAlone DEF RecordInv
    <3>2. ~SearchStep /\ ~ScreenStep
      BY <3>1 DEF SearchStep, FindCandidate, NoCandidate, TryCandidate, EndSearch,
                  ScreenStep, TestValue, EndSampling, Admissibility
    <3>3. ~LabStep /\ ~ImageStep
      BY <3>1 DEF LabStep, ConstructStep, StartKeyed, KeepFirst, EndPath, FillIn, EndFill,
                  ConstructDirect, SupplyBox, BeginSpectra, WalshRound, ComputeMetrics,
                  ReturnMetrics, ImageStep, StartFilter, AccumulateRows, Filter, Transform,
                  RecordMetrics
    <3>4. [VerifyStep \/ (RecordNext /\ UNCHANGED verifyVars)]_<<recordVars, verifyVars>>
      BY <1>2, <3>2, <3>3 DEF Next, evidenceVars, operationVars
    <3> QED BY <1>2, <2>2, <3>4, StepInv DEF VerifyInv
  <2> QED BY <2>1, <2>2
<1> QED BY <1>1, <1>2

\* The claims of verify_function hold on the whole path of evidence, as they do
\* of verify_function alone: proofs and certified violations are true, successes
\* are settled, the tiers agree (verify.py 594-606, 744, 799-820).
THEOREM EvidenceClaims ==
  Spec => []ProofsAreTrue /\ []ViolationsAreTrue /\ []SuccessMeansSettled /\ []TiersAgree
<1>1. vpc = "idle" => ProofsAreTrue /\ ViolationsAreTrue /\ SuccessMeansSettled /\ TiersAgree
  BY DEF ProofsAreTrue, ViolationsAreTrue, SuccessMeansSettled, TiersAgree
<1>2. VerifyInv => ProofsAreTrue /\ ViolationsAreTrue /\ SuccessMeansSettled /\ TiersAgree
  BY <1>1, InvProofs, InvViolations, InvSettled, InvTiers DEF VerifyInv
<1> QED BY <1>2, InitRecord, StepRecord, VerifyAmongOthers, PTL DEF Spec

-----------------------------------------------------------------------------
(* The screens of classes.py: winding numbers. *)

\* The upper right of a point: between the ray to the right and the ray upwards.
Beyond(p, v) == IF X(v) > X(p) /\ Y(v) > Y(p) THEN 1 ELSE 0

\* The signs of a product.
LEMMA Signs ==
  ASSUME NEW a \in Int, NEW b \in Int
  PROVE  /\ a * b \in Int
         /\ a > 0 /\ b > 0 => a * b > 0
         /\ a > 0 /\ b <= 0 => a * b <= 0
         /\ a <= 0 /\ b > 0 => a * b <= 0
         /\ a <= 0 /\ b <= 0 => a * b >= 0
OBVIOUS

\* An edge that does not touch the point enters its upper right through the ray
\* to the right or leaves it through the ray upwards.
LEMMA EdgeCrossings ==
  ASSUME NEW p \in Int \X Int, NEW a \in Int \X Int, NEW b \in Int \X Int, ~OnEdge(p, a, b)
  PROVE  /\ Crossing(p, a, b) \in Int /\ CrossingAbove(p, a, b) \in Int
         /\ Crossing(p, a, b) - CrossingAbove(p, a, b) = Beyond(p, b) - Beyond(p, a)
<1> DEFINE px == X(p)
           py == Y(p)
           ax == X(a)
           ay == Y(a)
           bx == X(b)
           by == Y(b)
           ux == ax - px
           uy == ay - py
           vx == bx - px
           vy == by - py
           over == ux * vy
           under == uy * vx
<1>1. px \in Int /\ py \in Int /\ ax \in Int /\ ay \in Int /\ bx \in Int /\ by \in Int
  BY DEF X, Y
<1> HIDE DEF px, py, ax, ay, bx, by
<1>2. /\ (py - ay) * (bx - ax) - (px - ax) * (by - ay) = over - under
      /\ (px - ax) * (by - ay) - (py - ay) * (bx - ax) = under - over
  BY <1>1
<1>3. (px - ax) * (by - ay) = (py - ay) * (bx - ax) <=> over = under
  <2>1. (px - ax) * (by - ay) \in Int /\ (py - ay) * (bx - ax) \in Int /\ over \in Int /\ under \in Int
    BY <1>1
  <2> DEFINE l == (px - ax) * (by - ay)
             r == (py - ay) * (bx - ax)
  <2> HIDE DEF over, under, l, r
  <2> QED BY <1>2, <2>1 DEF l, r
<1>4. ux \in Int /\ uy \in Int /\ vx \in Int /\ vy \in Int
  BY <1>1
<1>5. /\ ay <= py <=> uy <= 0
      /\ py < ay <=> uy > 0
      /\ by <= py <=> vy <= 0
      /\ py < by <=> vy > 0
      /\ ax <= px <=> ux <= 0
      /\ px < ax <=> ux > 0
      /\ bx <= px <=> vx <= 0
      /\ px < bx <=> vx > 0
  BY <1>1
<1>6. Crossing(p, a, b) = IF uy <= 0 /\ vy > 0 /\ over - under > 0 THEN 1
                          ELSE IF vy <= 0 /\ uy > 0 /\ over - under < 0 THEN -1 ELSE 0
  <2> HIDE DEF ux, uy, vx, vy, over, under
  <2> QED BY <1>2, <1>5 DEF Crossing, px, py, ax, ay, bx, by
<1>7. CrossingAbove(p, a, b) = IF vx <= 0 /\ ux > 0 /\ under - over < 0 THEN 1
                               ELSE IF ux <= 0 /\ vx > 0 /\ under - over > 0 THEN -1 ELSE 0
  <2> HIDE DEF ux, uy, vx, vy, over, under
  <2> QED BY <1>2, <1>5 DEF CrossingAbove, px, py, ax, ay, bx, by
<1>8. /\ Beyond(p, a) = IF ux > 0 /\ uy > 0 THEN 1 ELSE 0
      /\ Beyond(p, b) = IF vx > 0 /\ vy > 0 THEN 1 ELSE 0
  <2> HIDE DEF ux, uy, vx, vy
  <2>1. /\ Beyond(p, a) = IF ax > px /\ ay > py THEN 1 ELSE 0
        /\ Beyond(p, b) = IF bx > px /\ by > py THEN 1 ELSE 0
    BY DEF Beyond, px, py, ax, ay, bx, by
  <2>2. /\ ax > px <=> px < ax
        /\ ay > py <=> py < ay
        /\ bx > px <=> px < bx
        /\ by > py <=> py < by
    OBVIOUS
  <2> QED BY <1>5, <2>1, <2>2
<1>9. over = under => ~(ux <= 0 /\ uy <= 0 /\ vx > 0 /\ vy > 0) /\ ~(ux > 0 /\ uy > 0 /\ vx <= 0 /\ vy <= 0)
  <2>1. ASSUME over = under,
                (ux <= 0 /\ vx > 0) \/ (ux > 0 /\ vx <= 0),
                (uy <= 0 /\ vy > 0) \/ (uy > 0 /\ vy <= 0)
        PROVE  FALSE
    <3>1. px \in (IF ax <= bx THEN ax..bx ELSE bx..ax)
      BY <1>1, <2>1
    <3>2. py \in (IF ay <= by THEN ay..by ELSE by..ay)
      BY <1>1, <2>1
    <3>3. (px - ax) * (by - ay) = (py - ay) * (bx - ax)
      BY <1>3, <2>1
    <3> QED BY <3>1, <3>2, <3>3 DEF OnEdge, px, py, ax, ay, bx, by
  <2> HIDE DEF over, under, ux, uy, vx, vy
  <2> QED BY <2>1
<1>10. /\ over \in Int /\ under \in Int
       /\ ux > 0 /\ vy > 0 => over > 0
       /\ ux > 0 /\ vy <= 0 => over <= 0
       /\ ux <= 0 /\ vy > 0 => over <= 0
       /\ ux <= 0 /\ vy <= 0 => over >= 0
       /\ uy > 0 /\ vx > 0 => under > 0
       /\ uy > 0 /\ vx <= 0 => under <= 0
       /\ uy <= 0 /\ vx > 0 => under <= 0
       /\ uy <= 0 /\ vx <= 0 => under >= 0
  <2> HIDE DEF ux, uy, vx, vy
  <2> QED BY <1>4, Signs
<1> HIDE DEF ux, uy, vx, vy, over, under
<1> QED BY <1>4, <1>6, <1>7, <1>8, <1>9, <1>10

\* Successors on a closed polygon.
LEMMA Closing ==
  ASSUME NEW c \in Seq(Int \X Int), NEW i \in 1..Len(c)
  PROVE  /\ From(c, i) \in Int \X Int /\ To(c, i) \in Int \X Int
         /\ To(c, i) = IF i = Len(c) THEN c[1] ELSE c[i + 1]
<1>1. Len(c) \in Nat \ {0} /\ i \in Nat
  OBVIOUS
<1>2. i % Len(c) = IF i = Len(c) THEN 0 ELSE i
  BY <1>1, Remainders
<1> QED BY <1>1, <1>2 DEF From, To

\* A closed polygon crosses the two rays from a point it does not touch equally often.
LEMMA WindingsAgree ==
  ASSUME NEW c \in Seq(Int \X Int), NEW p \in Int \X Int, Clear(p, c)
  PROVE  Winding(p, c) = WindingAbove(p, c)
<1> DEFINE L == Len(c)
           D == 1..L
           f == [i \in D |-> Crossing(p, From(c, i), To(c, i))]
           g == [i \in D |-> CrossingAbove(p, From(c, i), To(c, i))]
           gain == [i \in 0..L |-> Beyond(p, IF i = 0 \/ i = L THEN c[1] ELSE c[i + 1])]
           SumsF(h) == h = [s \in SUBSET D |-> IF s = {} THEN 0 ELSE
                              Crossing(p, From(c, Some(s)), To(c, Some(s)))
                                + h[s \ {Some(s)}]]
           SumsG(h) == h = [s \in SUBSET D |-> IF s = {} THEN 0 ELSE
                              CrossingAbove(p, From(c, Some(s)), To(c, Some(s)))
                                + h[s \ {Some(s)}]]
<1>1. L \in Nat /\ DOMAIN c = D /\ IsFiniteSet(D)
  BY FS_Interval
<1>2. \A i \in D : /\ f[i] \in Int /\ g[i] \in Int
                   /\ f[i] - g[i] = Beyond(p, To(c, i)) - Beyond(p, From(c, i))
  <2> SUFFICES ASSUME NEW i \in D
               PROVE  /\ Crossing(p, From(c, i), To(c, i)) \in Int
                      /\ CrossingAbove(p, From(c, i), To(c, i)) \in Int
                      /\ Crossing(p, From(c, i), To(c, i)) - CrossingAbove(p, From(c, i), To(c, i))
                           = Beyond(p, To(c, i)) - Beyond(p, From(c, i))
    OBVIOUS
  <2>1. From(c, i) \in Int \X Int /\ To(c, i) \in Int \X Int
    BY Closing
  <2>2. ~OnEdge(p, From(c, i), To(c, i))
    BY <1>1 DEF Clear
  <2> QED BY <2>1, <2>2, EdgeCrossings
<1>3. \A i \in 0..L : gain[i] \in Int
  BY DEF Beyond
<1>4. \A i \in D : gain[i] = Beyond(p, To(c, i)) /\ gain[i - 1] = Beyond(p, From(c, i))
  <2> SUFFICES ASSUME NEW i \in D
               PROVE  gain[i] = Beyond(p, To(c, i)) /\ gain[i - 1] = Beyond(p, From(c, i))
    OBVIOUS
  <2>1. To(c, i) = IF i = L THEN c[1] ELSE c[i + 1]
    BY Closing
  <2>2. i \in 0..L /\ i # 0 /\ i - 1 \in 0..L /\ i - 1 # L /\ (i - 1) + 1 = i
    BY <1>1
  <2>3. gain[i] = Beyond(p, To(c, i))
    BY <2>1, <2>2
  <2>4. gain[i - 1] = Beyond(p, From(c, i))
    <3>1. i - 1 = 0 => i = 1
      BY <1>1
    <3> QED BY <2>2, <3>1 DEF From
  <2> QED BY <2>3, <2>4
<1>5. gain[L] = gain[0]
  BY <1>1
<1>6. \A s \in SUBSET D : s # {} => Some(s) \in D
  BY DEF Some
<1>7. PICK h : SumsF(h)
  <2> HIDE DEF f
  <2>0. IsFiniteSet(D) /\ \A i \in D : f[i] \in Int
    BY <1>1, <1>2
  <2>1. PICK h : IsSums(h, f, D)
    <3> HIDE DEF D
    <3> QED BY <2>0, SumsExist
  <2>2. \A s \in SUBSET D : s # {} =>
          f[Some(s)] = Crossing(p, From(c, Some(s)), To(c, Some(s)))
    BY <1>6 DEF f
  <2> DEFINE Nextf(s) == IF s = {} THEN 0 ELSE f[Some(s)] + h[s \ {Some(s)}]
             Edgef(s) == IF s = {} THEN 0 ELSE
                           Crossing(p, From(c, Some(s)), To(c, Some(s)))
                             + h[s \ {Some(s)}]
  <2>4. ASSUME NEW s \in SUBSET D PROVE Nextf(s) = Edgef(s)
    BY <2>2
  <2>5. h = [s \in SUBSET D |-> Nextf(s)]
    BY <2>1 DEF IsSums
  <2> HIDE DEF Nextf, Edgef, D
  <2>6. [s \in SUBSET D |-> Nextf(s)] = [s \in SUBSET D |-> Edgef(s)]
    BY <2>4
  <2>3. SumsF(h)
    BY <2>5, <2>6 DEF Edgef
  <2> QED BY <2>3
<1>8. PICK k : SumsG(k)
  <2> HIDE DEF g
  <2>0. IsFiniteSet(D) /\ \A i \in D : g[i] \in Int
    BY <1>1, <1>2
  <2>1. PICK k : IsSums(k, g, D)
    <3> HIDE DEF D
    <3> QED BY <2>0, SumsExist
  <2>2. \A s \in SUBSET D : s # {} =>
          g[Some(s)] = CrossingAbove(p, From(c, Some(s)), To(c, Some(s)))
    BY <1>6 DEF g
  <2> DEFINE Nextg(s) == IF s = {} THEN 0 ELSE g[Some(s)] + k[s \ {Some(s)}]
             Edgeg(s) == IF s = {} THEN 0 ELSE
                           CrossingAbove(p, From(c, Some(s)), To(c, Some(s)))
                             + k[s \ {Some(s)}]
  <2>4. ASSUME NEW s \in SUBSET D PROVE Nextg(s) = Edgeg(s)
    BY <2>2
  <2>5. k = [s \in SUBSET D |-> Nextg(s)]
    BY <2>1 DEF IsSums
  <2> HIDE DEF Nextg, Edgeg, D
  <2>6. [s \in SUBSET D |-> Nextg(s)] = [s \in SUBSET D |-> Edgeg(s)]
    BY <2>4
  <2>3. SumsG(k)
    BY <2>5, <2>6 DEF Edgeg
  <2> QED BY <2>3
<1> DEFINE hh == CHOOSE h0 : SumsF(h0)
           kk == CHOOSE h0 : SumsG(h0)
<1>9. SumsF(hh) /\ SumsG(kk)
  <2> HIDE DEF SumsF, SumsG
  <2> QED BY <1>7, <1>8
<1>10. Winding(p, c) = hh[D] /\ WindingAbove(p, c) = kk[D]
  BY <1>1 DEF Winding, WindingAbove, MapThenSumSet, MapThenFoldSet, Some
<1> HIDE DEF hh, kk
<1>11. Summing(hh, f, D) /\ Summing(kk, g, D)
  <2>1. ASSUME NEW s \in SUBSET D
        PROVE  /\ hh[s] = IF s = {} THEN 0 ELSE f[Some(s)] + hh[s \ {Some(s)}]
               /\ kk[s] = IF s = {} THEN 0 ELSE g[Some(s)] + kk[s \ {Some(s)}]
    BY <1>6, <1>9
  <2> QED BY <2>1 DEF Summing
<1>12. hh[1..L] - kk[1..L] = gain[L] - gain[0]
  <2>1. \A i \in 1..L : f[i] \in Int /\ g[i] \in Int
    BY <1>2
  <2>2. \A i \in 1..L : f[i] - g[i] = gain[i] - gain[i - 1]
    <3> HIDE DEF f, g, gain
    <3> QED BY <1>2, <1>4
  <2>3. L \in Nat
    BY <1>1
  <2>4. Summing(hh, f, 1..L) /\ Summing(kk, g, 1..L)
    BY <1>11
  <2>5. GainsBy(gain, f, g, L)
    <3> HIDE DEF f, g, gain, L
    <3> QED BY <1>3, <2>1, <2>2 DEF GainsBy
  <2> HIDE DEF f, g, gain, L, D, SumsF, SumsG, hh, kk
  <2> QED BY ONLY <2>3, <2>4, <2>5, SumsTelescope
<1>13. hh[D] \in Int /\ kk[D] \in Int
  <2> HIDE DEF f, g
  <2>1. hh[D] \in Int
    BY <1>1, <1>2, <1>11, SumsSplit
  <2>2. kk[D] \in Int
    BY <1>1, <1>2, <1>11, SumsSplit
  <2> QED BY <2>1, <2>2
<1>14. gain[L] \in Int
  <2>1. L \in 0..L
    BY <1>1
  <2> HIDE DEF gain, L
  <2> QED BY <1>3, <2>1
<1> HIDE DEF gain
<1> QED BY <1>5, <1>10, <1>12, <1>13, <1>14

-----------------------------------------------------------------------------
(* The screens of classes.py: the loop over the values. *)

Sampling == kpc # "idle" /\ screen # "admissibility"

\* The values that were counted.
Counted(i) == i \in 1..tested /\ ~(screen = "membership" /\ values[i] = NaN)

\* What the loop knows of the values it has counted, and what the answer says.
LoopKnows ==
  /\ curve \in Curves /\ values \in Samples
  /\ tested \in 0..Len(values) /\ inside \in Nat /\ total \in Nat /\ inside <= total
  /\ inside = total <=> \A i \in 1..tested : Counted(i) => Inside(values[i], curve)
  /\ outsider = None => \A i \in 1..tested : Counted(i) => Inside(values[i], curve)
  /\ outsider # None => \E i \in 1..tested :
       Counted(i) /\ values[i] = outsider /\ ~Inside(outsider, curve)
ScreenAnswered ==
  kpc = "done" =>
    /\ tested = Len(values)
    /\ result.says.holds <=> Contained
    /\ result.says.witness = IF screen = "membership" /\ Contained THEN None ELSE outsider
ScreenInv == Sampling => LoopKnows /\ ScreenAnswered

\* Nothing was tested at first.
LEMMA InitScreen == Init => ScreenInv
<1> SUFFICES ASSUME Init, Sampling PROVE LoopKnows /\ ScreenAnswered
  BY DEF ScreenInv
<1>1. ScreenInit
  BY DEF Init, Sampling, ScreenIdle
<1>2. /\ curve \in Curves /\ values \in Samples
      /\ kpc = "test" /\ tested = 0 /\ inside = 0 /\ total = 0 /\ outsider = None
  BY <1>1 DEF ScreenInit, Sampling
<1>3. Len(values) \in Nat
  BY <1>2, ScreenAssumption
<1>4. 1..tested = {}
  BY <1>2
<1> QED BY <1>2, <1>3, <1>4 DEF LoopKnows, ScreenAnswered

\* Testing a value.
LEMMA TestKnows ==
  ASSUME ScreenInv, TestValue
  PROVE  ScreenInv'
<1>1. /\ kpc = "test" /\ screen # "admissibility" /\ tested < Len(values) /\ tested' = tested + 1
      /\ UNCHANGED <<screen, curve, values, kpc>>
  BY DEF TestValue, sampleVars
<1>2. LoopKnows
  BY <1>1 DEF ScreenInv, Sampling
<1> PICK n, w : n = tested + 1 /\ w = values[n]
  OBVIOUS
<1>3. /\ Len(values) \in Nat /\ tested \in Nat /\ n \in 1..Len(values) /\ n \in 0..Len(values)
      /\ values \in Seq((Int \X Int) \cup {NaN})
  BY <1>1, <1>2, ScreenAssumption DEF LoopKnows
<1>4. w \in (Int \X Int) \cup {NaN} /\ w # None
  BY <1>3, ScreenAssumption
<1>6. 1..n = (1..tested) \cup {n} /\ n \notin 1..tested /\ n \in 1..n /\ tested' = n
  BY <1>1, <1>3
<1>7. \A i \in 1..tested : Counted(i)' <=> Counted(i)
  BY <1>1, <1>6 DEF Counted
<1>8. Counted(n)' <=> ~(screen = "membership" /\ w = NaN)
  BY <1>1, <1>6 DEF Counted
<1> DEFINE All == \A i \in 1..tested : Counted(i) => Inside(values[i], curve)
<1>9. (\A i \in 1..n : Counted(i)' => Inside(values[i], curve)) <=>
        All /\ (Counted(n)' => Inside(w, curve))
  <2>1. (\A i \in 1..n : Counted(i)' => Inside(values[i], curve)) <=>
          /\ \A i \in 1..tested : Counted(i)' => Inside(values[i], curve)
          /\ Counted(n)' => Inside(values[n], curve)
    BY <1>6
  <2> QED BY <1>7, <2>1
<1>10. Counted(n)' \in BOOLEAN /\ values[n] = w
  BY DEF Counted
<1>12. CASE screen = "membership" /\ w = NaN
  <2>1. UNCHANGED <<inside, total, outsider>>
    BY <1>12 DEF TestValue
  <2>2. outsider # None => \E i \in 1..n : Counted(i)' /\ values[i] = outsider /\ ~Inside(outsider, curve)
    BY <1>2, <1>6, <1>7 DEF LoopKnows
  <2>3. LoopKnows'
    BY <1>1, <1>2, <1>3, <1>6, <1>8, <1>9, <1>12, <2>1, <2>2 DEF LoopKnows
  <2> QED BY <1>1, <2>3 DEF ScreenInv, ScreenAnswered
<1>13. CASE ~(screen = "membership" /\ w = NaN)
  <2>1. /\ total' = total + 1
        /\ inside' = IF Inside(w, curve) THEN inside + 1 ELSE inside
        /\ outsider' = IF outsider = None /\ ~Inside(w, curve) THEN w ELSE outsider
    BY <1>13 DEF TestValue
  <2>2. /\ inside \in Nat /\ total \in Nat /\ inside <= total
        /\ inside = total <=> All
        /\ outsider = None => All
    BY <1>2 DEF LoopKnows
  <2>5. outsider' # None => \E i \in 1..n : Counted(i)' /\ values[i] = outsider' /\ ~Inside(outsider', curve)
    <3>1. CASE outsider = None /\ ~Inside(w, curve)
      <4>1. outsider' = w
        BY <2>1, <3>1
      <4>2. Counted(n)' /\ values[n] = outsider' /\ ~Inside(outsider', curve)
        BY <1>8, <1>10, <1>13, <3>1, <4>1
      <4> QED BY <1>6, <4>2
    <3>2. CASE ~(outsider = None /\ ~Inside(w, curve))
      BY <1>2, <1>6, <1>7, <2>1, <3>2 DEF LoopKnows
    <3> QED BY <3>1, <3>2
  <2>6. (\A i \in 1..n : Counted(i)' => Inside(values[i], curve)) <=> All /\ Inside(w, curve)
    BY <1>8, <1>9, <1>13
  <2> HIDE DEF All
  <2>3. /\ inside' \in Nat /\ total' \in Nat /\ inside' <= total'
        /\ inside' = total' <=> All /\ Inside(w, curve)
    BY <2>1, <2>2
  <2>4. outsider' = None => All /\ Inside(w, curve)
    BY <1>4, <2>1, <2>2
  <2>7. LoopKnows'
    BY <1>1, <1>2, <1>3, <1>6, <2>3, <2>4, <2>5, <2>6 DEF LoopKnows
  <2> QED BY <1>1, <2>7 DEF ScreenInv, ScreenAnswered
<1> QED BY <1>12, <1>13

\* Answering.
LEMMA EndKnows ==
  ASSUME ScreenInv, EndSampling
  PROVE  ScreenInv'
<1>1. /\ kpc = "test" /\ screen # "admissibility" /\ tested = Len(values)
      /\ UNCHANGED <<screen, curve, values, tested, inside, total, outsider>>
  BY DEF EndSampling, sampleVars
<1>2. LoopKnows'
  BY <1>1 DEF ScreenInv, Sampling, LoopKnows, Counted, Inside
<1>3. kpc' = "done" => result' = IF screen = "membership" THEN MembershipResult ELSE ContainmentResult
  BY DEF EndSampling
<1>4. /\ MembershipResult.says = [holds |-> Contained, witness |-> IF Contained THEN None ELSE outsider]
      /\ ContainmentResult.says = [holds |-> Contained, witness |-> outsider]
  BY DEF MembershipResult, ContainmentResult, Screened, Returned
<1>5. Contained' = Contained
  BY <1>1 DEF Contained
<1>6. ScreenAnswered'
  BY <1>1, <1>3, <1>4, <1>5 DEF ScreenAnswered
<1> QED BY <1>2, <1>6 DEF ScreenInv

\* The screens among the other operations: only their own steps change what they know.
LEMMA StepScreen == RecordInv /\ ScreenInv /\ [Next]_evidenceVars => ScreenInv'
<1> SUFFICES ASSUME RecordInv, ScreenInv, [Next]_evidenceVars PROVE ScreenInv'
  OBVIOUS
<1>1. CASE UNCHANGED screenVars /\ (kpc = "idle" \/ result' = result)
  BY <1>1 DEF ScreenInv, Sampling, LoopKnows, Counted, ScreenAnswered, Contained, Inside,
              screenVars, sampleVars
<1>2. CASE ScreenStep
  <2>1. CASE Admissibility
    BY <2>1 DEF Admissibility, sampleVars, ScreenInv, Sampling
  <2> QED BY <1>2, <2>1, TestKnows, EndKnows DEF ScreenStep
<1>3. \/ UNCHANGED screenVars /\ (kpc = "idle" \/ result' = result)
      \/ ScreenStep
  <2>1. CASE UNCHANGED evidenceVars
    BY <2>1 DEF evidenceVars, recordVars, operationVars
  <2>2. CASE RecordNext /\ UNCHANGED operationVars
    BY <2>2 DEF RecordNext, BuildRecord, ValidateRecord, operationVars
  <2>3. CASE VerifyStep /\ UNCHANGED <<searchVars, screenVars, labVars, imageVars>>
    <3>1. vpc # "idle"
      BY <2>3 DEF VerifyStep, Call, GridScan, GridSingular, Certify, Verdict, AskRigorous
    <3> QED BY <2>3, <3>1, CalledAlone DEF RecordInv
  <2>4. CASE SearchStep /\ UNCHANGED <<verifyVars, screenVars, labVars, imageVars>>
    <3>1. spc # "idle"
      BY <2>4 DEF SearchStep, FindCandidate, NoCandidate, TryCandidate, EndSearch
    <3> QED BY <2>4, <3>1, CalledAlone DEF RecordInv
  <2>5. CASE LabStep /\ UNCHANGED <<verifyVars, searchVars, screenVars, imageVars>>
    <3>1. lpc # "idle"
      BY <2>5 DEF LabStep, ConstructStep, StartKeyed, KeepFirst, EndPath, FillIn, EndFill,
         ConstructDirect, SupplyBox, BeginSpectra, WalshRound, ComputeMetrics, ReturnMetrics
    <3> QED BY <2>5, <3>1, CalledAlone DEF RecordInv
  <2>6. CASE ImageStep /\ UNCHANGED <<verifyVars, searchVars, screenVars, labVars>>
    <3>1. ipc # "idle"
      BY <2>6 DEF ImageStep, StartFilter, AccumulateRows, Filter, Transform, RecordMetrics
    <3> QED BY <2>6, <3>1, CalledAlone DEF RecordInv
  <2> QED BY <2>1, <2>2, <2>3, <2>4, <2>5, <2>6 DEF Next
<1> QED BY <1>1, <1>2, <1>3

\* A screen passes exactly when the boundary winds once around every value it
\* tested, and names one around which it does not otherwise, for any closed
\* polygon and any values off it (classes.py 78-91, 393-413, 525-539).
THEOREM ScreensTrue == Spec => []ScreenVerdictTrue
<1>1. ScreenInv => ScreenVerdictTrue
  <2> DEFINE finite == {i \in DOMAIN values : values[i] # NaN}
             within(p) == WindingAbove(p, curve) = 1
             said == result.says.witness
  <2> SUFFICES ASSUME ScreenInv, kpc = "done", screen # "admissibility",
                      \A i \in finite : Clear(values[i], curve)
               PROVE  IF result.says.holds
                      THEN said = None /\ \A i \in finite : within(values[i])
                      ELSE said = NaN \/ (\E i \in finite : values[i] = said /\ ~within(said))
    BY DEF ScreenVerdictTrue
  <2>1. LoopKnows /\ ScreenAnswered
    BY DEF ScreenInv, Sampling
  <2>2. curve \in Seq(Int \X Int) /\ values \in Seq((Int \X Int) \cup {NaN})
    BY <2>1, ScreenAssumption DEF LoopKnows
  <2>3. DOMAIN values = 1..tested
    BY <2>1, <2>2 DEF ScreenAnswered
  <2>4. ASSUME NEW i \in finite PROVE Counted(i) /\ (Inside(values[i], curve) <=> within(values[i]))
    <3>1. values[i] \in Int \X Int /\ Clear(values[i], curve)
      BY <2>2, <2>4
    <3>2. Winding(values[i], curve) = WindingAbove(values[i], curve)
      BY <2>2, <3>1, WindingsAgree
    <3> QED BY <2>3, <2>4, <3>2 DEF Inside, Counted
  <2>5. CASE Contained
    <3>1. \A i \in 1..tested : Counted(i) => Inside(values[i], curve)
      BY <2>1, <2>5 DEF LoopKnows, Contained
    <3>2. outsider = None
      BY <2>1, <3>1 DEF LoopKnows
    <3>3. result.says.holds /\ said = None
      BY <2>1, <2>5, <3>2 DEF ScreenAnswered
    <3>4. \A i \in finite : within(values[i])
      BY <2>3, <2>4, <3>1
    <3> QED BY <3>3, <3>4
  <2>6. CASE ~Contained
    <3>1. ~result.says.holds /\ said = outsider
      BY <2>1, <2>6 DEF ScreenAnswered
    <3>2. PICK i \in 1..tested : values[i] = outsider /\ ~Inside(outsider, curve)
      BY <2>1, <2>6 DEF LoopKnows, Contained
    <3>3. outsider # NaN => i \in finite /\ ~within(outsider)
      BY <2>3, <2>4, <3>2
    <3> HIDE DEF within, finite, said
    <3> QED BY <3>1, <3>2, <3>3
  <2> QED BY <2>5, <2>6
<1> QED BY <1>1, InitRecord, StepRecord, InitScreen, StepScreen, PTL DEF Spec

-----------------------------------------------------------------------------
(* find_counterexample: the loop over the candidates. *)

\* What was asked.
SearchAsked ==
  spc # "idle" =>
    /\ criterion \in Criteria /\ coefficients \in Int \X Int
    /\ hint \in Int \cup {None} /\ candidates \in Seq(Int)

\* The best candidate is one that was evaluated.
BestKnown ==
  best # None =>
    /\ spc # "idle" /\ spc # "grid" /\ best.point \in Int
    /\ best.enclosure = Evaluate(coefficients, best.point, criterion)
    /\ best.enclosure.resolved

\* A hint that can be evaluated is tried first, and only a certified candidate
\* takes its place.
HintFirst ==
  spc \in {"try", "done"} /\ hint # None /\ Evaluate(coefficients, hint, criterion).resolved =>
    \/ best = None /\ candidates # <<>> /\ Head(candidates) = hint
    \/ best # None /\ (best.point = hint \/ best.enclosure.certified)
SearchAnswered == spc = "done" => best # None /\ result = SearchResult(best)
SearchInv == SearchAsked /\ BestKnown /\ HintFirst /\ SearchAnswered

\* Nothing was found at first.
LEMMA InitSearch == Init => SearchInv
<1> SUFFICES ASSUME Init PROVE SearchInv
  OBVIOUS
<1>1. CASE SearchInit
  <2>1. /\ criterion \in Criteria /\ coefficients \in Polynomials /\ hint \in Grid \cup {0, None}
        /\ spc = "grid" /\ candidates = <<>> /\ best = None
    BY <1>1 DEF SearchInit, Criteria
  <2>2. coefficients \in Int \X Int /\ hint \in Int \cup {None}
    <3>1. \A z \in -(Q - 1)..(Q - 1) : z \in Int
      OBVIOUS
    <3> QED BY <2>1, <3>1, WitnessAssumption
  <2>3. candidates \in Seq(Int)
    BY <2>1
  <2> QED BY <2>1, <2>2, <2>3 DEF SearchInv, SearchAsked, BestKnown, HintFirst, SearchAnswered
<1>2. CASE SearchIdle
  BY <1>2 DEF SearchIdle, SearchInv, SearchAsked, BestKnown, HintFirst, SearchAnswered
<1> QED BY <1>1, <1>2 DEF Init

\* Nothing else the loop uses is changed by its steps.
LEMMA FindKnows ==
  ASSUME SearchInv, FindCandidate
  PROVE  SearchInv'
<1>1. /\ spc = "grid" /\ spc' = "try" /\ UNCHANGED <<criterion, coefficients, hint, best>>
  BY DEF FindCandidate, questionVars
<1>2. PICK z \in Grid : candidates' = (IF hint = None THEN <<>> ELSE <<hint>>) \o <<z>>
  BY DEF FindCandidate
<1>3. z \in Int
  <2>1. \A i \in -(Q - 1)..(Q - 1) : i \in Int
    OBVIOUS
  <2> QED BY <2>1, WitnessAssumption
<1>4. best = None /\ criterion \in Criteria /\ coefficients \in Int \X Int /\ hint \in Int \cup {None}
  BY <1>1 DEF SearchInv, SearchAsked, BestKnown
<1>5. candidates' \in Seq(Int) /\ (hint # None => candidates' # <<>> /\ Head(candidates') = hint)
  <2>1. CASE hint = None
    BY <1>2, <1>3, <2>1
  <2>2. CASE hint # None
    <3>1. hint \in Int /\ candidates' = <<hint>> \o <<z>>
      BY <1>2, <1>4, <2>2
    <3>2. <<hint>> \o <<z>> \in Seq(Int)
      BY <1>3, <3>1
    <3>3. <<hint>> \o <<z>> # <<>> /\ Head(<<hint>> \o <<z>>) = hint
      BY <1>3, <3>1
    <3> QED BY <3>1, <3>2, <3>3
  <2> QED BY <2>1, <2>2
<1>6. HintFirst'
  BY <1>1, <1>4, <1>5 DEF HintFirst
<1> QED BY <1>1, <1>4, <1>5, <1>6 DEF SearchInv, SearchAsked, BestKnown, SearchAnswered

\* Trying a candidate.
LEMMA TryKnows ==
  ASSUME SearchInv, TryCandidate
  PROVE  SearchInv'
<1> DEFINE E(p) == Evaluate(coefficients, p, criterion)
<1> PICK point, e : point = Head(candidates) /\ e = E(point)
  OBVIOUS
<1>1. /\ spc = "try" /\ candidates # <<>>
      /\ UNCHANGED <<criterion, coefficients, hint, spc>>
      /\ best' = (IF e.resolved /\ Better(e) THEN [point |-> point, enclosure |-> e] ELSE best)
      /\ candidates' = (IF e.resolved /\ e.certified THEN <<>> ELSE Tail(candidates))
  BY DEF TryCandidate, questionVars
<1>2. /\ criterion \in Criteria /\ coefficients \in Int \X Int
      /\ hint \in Int \cup {None} /\ candidates \in Seq(Int)
  BY <1>1 DEF SearchInv, SearchAsked
<1>3. point \in Int /\ candidates' \in Seq(Int)
  BY <1>1, <1>2
<1>4. UNCHANGED <<spc, criterion, coefficients, hint>> /\ \A p : E(p)' = E(p)
  BY <1>1
<1>5. CASE e.resolved /\ Better(e)
  <2>1. best' = [point |-> point, enclosure |-> e]
    BY <1>1, <1>5
  <2>2. e \in Enclosure
    BY <1>2, <1>3, <1>5, EvaluationTrue
  <2>3. best' # None /\ best'.point = point /\ best'.enclosure = e
    <3>1. best' \in [point : Int, enclosure : Enclosure]
      BY <1>3, <2>1, <2>2
    <3>2. None \notin [point : Int, enclosure : Enclosure]
      BY WitnessAssumption DEF Enclosure
    <3> QED BY <2>1, <3>1, <3>2
  <2>4. BestKnown'
    <3>1. e = E(point)' /\ e.resolved
      BY <1>4, <1>5
    <3> QED BY <1>1, <1>3, <2>3, <3>1 DEF BestKnown
  <2>5. HintFirst'
    <3> SUFFICES ASSUME hint # None, E(hint).resolved PROVE point = hint \/ e.certified
      BY <1>4, <2>3 DEF HintFirst
    <3>1. CASE e.certified
      BY <3>1
    <3>2. CASE ~e.certified
      <4>1. best = None
        BY <1>5, <3>2 DEF Better
      <4>2. Head(candidates) = hint
        BY <1>1, <4>1 DEF SearchInv, HintFirst
      <4> QED BY <4>2
    <3> QED BY <3>1, <3>2
  <2> QED BY <1>1, <1>2, <1>3, <2>4, <2>5 DEF SearchInv, SearchAsked, SearchAnswered
<1>6. CASE ~(e.resolved /\ Better(e))
  <2>1. best' = best
    BY <1>1, <1>6
  <2>2. BestKnown'
    <3> SUFFICES ASSUME best # None PROVE BestKnown'
      BY <2>1 DEF BestKnown
    <3>1. /\ best.point \in Int /\ best.enclosure = E(best.point) /\ best.enclosure.resolved
      BY DEF SearchInv, BestKnown
    <3>2. best'.enclosure = E(best.point)'
      BY <1>4, <2>1, <3>1
    <3> QED BY <1>1, <2>1, <3>1, <3>2 DEF BestKnown
  <2>3. HintFirst'
    <3> SUFFICES ASSUME hint # None, E(hint).resolved
                 PROVE  best # None /\ (best.point = hint \/ best.enclosure.certified)
      BY <1>4, <2>1 DEF HintFirst
    <3>1. CASE best = None
      <4>1. Head(candidates) = hint
        BY <1>1, <3>1 DEF SearchInv, HintFirst
      <4>2. e.resolved /\ Better(e)
        BY <3>1, <4>1 DEF Better
      <4> QED BY <1>6, <4>2
    <3>2. CASE best # None
      BY <1>1, <3>2 DEF SearchInv, HintFirst
    <3> QED BY <3>1, <3>2
  <2> QED BY <1>1, <1>2, <1>3, <2>2, <2>3 DEF SearchInv, SearchAsked, SearchAnswered
<1> QED BY <1>5, <1>6

\* The search among the other operations: only its own steps change what it knows.
LEMMA StepSearch == RecordInv /\ SearchInv /\ [Next]_evidenceVars => SearchInv'
<1> SUFFICES ASSUME RecordInv, SearchInv, [Next]_evidenceVars PROVE SearchInv'
  OBVIOUS
<1>1. CASE UNCHANGED searchVars /\ (spc = "idle" \/ result' = result)
  <2>1. /\ UNCHANGED <<criterion, coefficients, hint, spc, candidates, best>>
        /\ spc = "idle" \/ result' = result
    BY <1>1 DEF searchVars, questionVars
  <2>2. SearchAsked' /\ SearchAnswered'
    BY <2>1 DEF SearchInv, SearchAsked, SearchAnswered
  <2>3. BestKnown'
    <3>1. BestKnown' = BestKnown
      BY <2>1 DEF BestKnown
    <3> QED BY <3>1 DEF SearchInv
  <2>4. HintFirst'
    <3>1. HintFirst' = HintFirst
      BY <2>1 DEF HintFirst
    <3> QED BY <3>1 DEF SearchInv
  <2> QED BY <2>2, <2>3, <2>4 DEF SearchInv
<1>2. CASE SearchStep
  <2>1. CASE NoCandidate
    <3>1. /\ UNCHANGED <<criterion, coefficients, hint, candidates, best>>
          /\ spc = "grid" /\ spc' = "unresolved"
      BY <2>1 DEF NoCandidate, questionVars
    <3>2. best = None
      BY <3>1 DEF SearchInv, BestKnown
    <3> QED BY <3>1, <3>2 DEF SearchInv, SearchAsked, BestKnown, HintFirst, SearchAnswered
  <2>2. CASE EndSearch
    <3>1. /\ UNCHANGED <<criterion, coefficients, hint, candidates, best>>
          /\ spc = "try" /\ candidates = <<>>
          /\ spc' = IF best = None THEN "unresolved" ELSE "done"
          /\ result' = IF best = None THEN None ELSE SearchResult(best)
      BY <2>2 DEF EndSearch, questionVars
    <3>2. SearchAsked' /\ SearchAnswered'
      BY <3>1 DEF SearchInv, SearchAsked, SearchAnswered, SearchResult, Returned
    <3>3. BestKnown'
      <4>1. \A p : Evaluate(coefficients, p, criterion)' = Evaluate(coefficients, p, criterion)
        BY <3>1
      <4> QED BY <3>1 DEF SearchInv, BestKnown
    <3>4. HintFirst'
      BY <3>1 DEF SearchInv, HintFirst
    <3> QED BY <3>2, <3>3, <3>4 DEF SearchInv
  <2> QED BY <1>2, <2>1, <2>2, FindKnows, TryKnows DEF SearchStep
<1>3. \/ UNCHANGED searchVars /\ (spc = "idle" \/ result' = result)
      \/ SearchStep
  <2>1. CASE UNCHANGED evidenceVars
    BY <2>1 DEF evidenceVars, recordVars, operationVars
  <2>2. CASE RecordNext /\ UNCHANGED operationVars
    BY <2>2 DEF RecordNext, BuildRecord, ValidateRecord, operationVars
  <2>3. CASE VerifyStep /\ UNCHANGED <<searchVars, screenVars, labVars, imageVars>>
    <3>1. vpc # "idle"
      BY <2>3 DEF VerifyStep, Call, GridScan, GridSingular, Certify, Verdict, AskRigorous
    <3> QED BY <2>3, <3>1, CalledAlone DEF RecordInv
  <2>4. CASE ScreenStep /\ UNCHANGED <<verifyVars, searchVars, labVars, imageVars>>
    <3>1. kpc # "idle"
      BY <2>4 DEF ScreenStep, TestValue, EndSampling, Admissibility
    <3> QED BY <2>4, <3>1, CalledAlone DEF RecordInv
  <2>5. CASE LabStep /\ UNCHANGED <<verifyVars, searchVars, screenVars, imageVars>>
    <3>1. lpc # "idle"
      BY <2>5 DEF LabStep, ConstructStep, StartKeyed, KeepFirst, EndPath, FillIn, EndFill,
         ConstructDirect, SupplyBox, BeginSpectra, WalshRound, ComputeMetrics, ReturnMetrics
    <3> QED BY <2>5, <3>1, CalledAlone DEF RecordInv
  <2>6. CASE ImageStep /\ UNCHANGED <<verifyVars, searchVars, screenVars, labVars>>
    <3>1. ipc # "idle"
      BY <2>6 DEF ImageStep, StartFilter, AccumulateRows, Filter, Transform, RecordMetrics
    <3> QED BY <2>6, <3>1, CalledAlone DEF RecordInv
  <2> QED BY <2>1, <2>2, <2>3, <2>4, <2>5, <2>6 DEF Next
<1> QED BY <1>1, <1>2, <1>3

\* Whatever is asked, the search keeps its invariant beside the records.
LEMMA SearchKnows == Spec => [](RecordInv /\ SearchInv)
<1>1. Init => RecordInv /\ SearchInv
  BY InitRecord, InitSearch
<1>2. RecordInv /\ SearchInv /\ [Next]_evidenceVars => (RecordInv /\ SearchInv)'
  BY StepRecord, StepSearch
<1> QED BY <1>1, <1>2, PTL DEF Spec

\* The enclosure a search settles on contains the exact value of the criterion
\* at its point, for every polynomial, point and precision
\* (counterexamples.py 135-155, 193-271).
THEOREM WitnessesEnclosed == Spec => []BestEncloses
<1>1. SearchInv => BestEncloses
  <2> SUFFICES ASSUME SearchInv, best # None PROVE BestEncloses
    BY DEF BestEncloses
  <2>1. /\ criterion \in Criteria /\ coefficients \in Int \X Int /\ best.point \in Int
        /\ best.enclosure = Evaluate(coefficients, best.point, criterion)
        /\ best.enclosure.resolved
    BY DEF SearchInv, SearchAsked, BestKnown
  <2> PICK e, q : e = best.enclosure /\ q = Quantity(coefficients, best.point, criterion)
    OBVIOUS
  <2>2. e.lower <= FloorDiv(q.num, q.den) /\ CeilDiv(q.num, q.den) <= e.upper
    BY <2>1, EvaluationTrue
  <2> QED BY <2>2 DEF BestEncloses
<1> QED BY <1>1, SearchKnows, PTL

\* A certified witness violates the criterion in exact arithmetic, and a search
\* that certifies none reports the hint whenever the hint can be evaluated
\* (counterexamples.py 520-545).
THEOREM SearchTrue == Spec => []SearchVerdictTrue
<1>1. SearchInv => SearchVerdictTrue
  <2> SUFFICES ASSUME SearchInv, spc = "done" PROVE SearchVerdictTrue
    BY DEF SearchVerdictTrue
  <2>1. best # None /\ result = SearchResult(best)
    BY DEF SearchInv, SearchAnswered
  <2>2. /\ criterion \in Criteria /\ coefficients \in Int \X Int /\ best.point \in Int
        /\ best.enclosure = Evaluate(coefficients, best.point, criterion)
        /\ best.enclosure.resolved /\ hint \in Int \cup {None}
    BY <2>1 DEF SearchInv, SearchAsked, BestKnown
  <2> PICK e, q : e = best.enclosure /\ q = Quantity(coefficients, best.point, criterion)
    OBVIOUS
  <2>3. result.says.point = best.point /\ result.says.certified = e.certified
    BY <2>1 DEF SearchResult, Returned
  <2>4. e.certified => IF criterion = "starlike" THEN q.num <= 0
                       ELSE q.num > Threshold(criterion) * q.den
    BY <2>2, EvaluationTrue
  <2>5. criterion # "starlike" =>
          Threshold(criterion) = IF criterion = "becker_univalent" THEN Unit ELSE 2 * Unit
    BY DEF Threshold
  <2>6. ASSUME ~e.certified, hint # None, Evaluate(coefficients, hint, criterion).resolved
        PROVE  ~Evaluate(coefficients, hint, criterion).certified /\ best.point = hint
    <3>1. best.point = hint
      BY <2>1, <2>6 DEF SearchInv, HintFirst
    <3> QED BY <2>2, <2>6, <3>1
  <2> QED BY <2>3, <2>4, <2>5, <2>6 DEF SearchVerdictTrue
<1> QED BY <1>1, SearchKnows, PTL

-----------------------------------------------------------------------------
(* The image laboratory: what its sums over pixels and kernels come to. *)

\* An image is a rectangle of levels.
LEMMA PictureShape ==
  ASSUME NEW a \in Images
  PROVE  /\ Height(a) \in Nat \ {0} /\ Width(a) \in Nat \ {0}
         /\ Rows(a) = 1..Height(a) /\ Columns(a) = 1..Width(a)
         /\ \A y \in Rows(a), x \in Columns(a) : a[y][x] \in 0..White
         /\ White \in Nat \ {0}
<1>1. /\ White \in Nat \ {0} /\ a \in Seq(Seq(0..White)) /\ a # <<>> /\ a[1] # <<>>
      /\ \A y \in 1..Len(a) : Len(a[y]) = Len(a[1])
  BY PictureAssumption
<1>2. Len(a) \in Nat \ {0} /\ \A y \in 1..Len(a) : a[y] \in Seq(0..White)
  BY <1>1
<1>3. a[1] \in Seq(0..White)
  BY <1>2
<1>4. Len(a[1]) \in Nat \ {0}
  BY <1>1, <1>3
<1>5. ASSUME NEW y \in 1..Len(a), NEW x \in 1..Len(a[1]) PROVE a[y][x] \in 0..White
  <2>1. a[y] \in Seq(0..White) /\ Len(a[y]) = Len(a[1])
    BY <1>1, <1>2
  <2>2. x \in 1..Len(a[y])
    BY <2>1
  <2> QED BY <2>1, <2>2, ElementOfSeq
<1> QED BY <1>1, <1>2, <1>4, <1>5 DEF Height, Width, Rows, Columns

\* cumsum: whatever has its recurrence is what it computes.
LEMMA Accumulates ==
  ASSUME NEW n \in Nat, NEW v \in [1..n -> Int],
         NEW s \in [0..n -> Int], s[0] = 0, \A k \in 1..n : s[k] = s[k - 1] + v[k]
  PROVE  \A k \in 0..n : Accumulated(v)[k] = s[k]
<1> DEFINE Body(f) == [k \in 0..n |-> IF k = 0 THEN 0 ELSE f[k - 1] + v[k]]
           run == CHOOSE f : f = Body(f)
           Bad == {k \in 0..n : run[k] # s[k]}
<1>1. v \in Seq(Int) /\ Len(v) = n
  OBVIOUS
<1>2. Accumulated(v) = run
  BY <1>1 DEF Accumulated
<1>3. s = Body(s)
  <2>1. \A k \in 0..n : Body(s)[k] = s[k]
    OBVIOUS
  <2>2. s = [k \in 0..n |-> s[k]]
    OBVIOUS
  <2> QED BY <2>1, <2>2
<1>4. run = Body(run)
  <2>1. \E f : f = Body(f)
    BY <1>3
  <2> HIDE DEF Body
  <2> QED BY <2>1
<1>5. run[0] = 0 /\ \A k \in 1..n : run[k] = run[k - 1] + v[k]
  <2> HIDE DEF run
  <2>1. \A k \in 0..n : run[k] = Body(run)[k]
    BY <1>4
  <2>2. Body(run)[0] = 0 /\ \A k \in 1..n : Body(run)[k] = run[k - 1] + v[k]
    OBVIOUS
  <2> HIDE DEF Body
  <2>3. 0 \in 0..n /\ \A k \in 1..n : k \in 0..n
    OBVIOUS
  <2> QED BY <2>1, <2>2, <2>3
<1> HIDE DEF run, Body
<1>6. Bad = {}
  <2> SUFFICES ASSUME Bad # {} PROVE FALSE
    OBVIOUS
  <2>1. PICK m \in Bad : \A k \in Bad : m <= k
    <3>1. Bad \in SUBSET Nat
      OBVIOUS
    <3> HIDE DEF Bad
    <3> QED BY <3>1, LeastNatural
  <2>2. m \in 1..n /\ run[m] # s[m]
    BY <1>5
  <2>3. m - 1 \in 0..n /\ ~(m <= m - 1)
    BY <2>2
  <2>4. run[m - 1] = s[m - 1]
    <3>1. m - 1 \notin Bad
      <4> HIDE DEF Bad
      <4> QED BY <2>1, <2>3
    <3> QED BY <2>3, <3>1
  <2> QED BY <1>5, <2>2, <2>4
<1> QED BY <1>2, <1>6

\* h sums the levels of a over sets of its pixels.
PixelSums(h, a) ==
  LET D == Rows(a) \X Columns(a)
  IN  Additive(h, [p \in D |-> a[p[1]][p[2]]], D)

\* There are finitely many pixels, of integer levels.
LEMMA PixelsFinite ==
  ASSUME NEW a \in Images, NEW D, D = Rows(a) \X Columns(a)
  PROVE  Summable([p \in D |-> a[p[1]][p[2]]], D)
<1> DEFINE f == [p \in D |-> a[p[1]][p[2]]]
<1>1. IsFiniteSet(D)
  <2>1. /\ Height(a) \in Int /\ Width(a) \in Int
        /\ Rows(a) = 1..Height(a) /\ Columns(a) = 1..Width(a)
    BY PictureShape
  <2>2. IsFiniteSet(1..Height(a)) /\ IsFiniteSet(1..Width(a))
    BY <2>1, FS_Interval
  <2> QED BY <2>1, <2>2, FS_Product
<1>2. ASSUME NEW p \in D PROVE f[p] \in Int
  <2>1. p[1] \in Rows(a) /\ p[2] \in Columns(a) /\ f[p] = a[p[1]][p[2]]
    OBVIOUS
  <2>2. a[p[1]][p[2]] \in 0..White /\ White \in Nat
    BY <2>1, PictureShape
  <2> QED BY <2>1, <2>2
<1> QED BY <1>1, <1>2 DEF Summable

\* Such sums exist, over any set of pixels.
LEMMA PixelsSum ==
  ASSUME NEW a \in Images
  PROVE  \E h : /\ PixelSums(h, a)
                /\ \A s \in SUBSET (Rows(a) \X Columns(a)) :
                     SumFunction([p \in s |-> a[p[1]][p[2]]]) = h[s]
<1> DEFINE D == Rows(a) \X Columns(a)
           f == [p \in D |-> a[p[1]][p[2]]]
<1>1. Summable(f, D)
  BY PixelsFinite
<1>2. PICK h : Additive(h, f, D)
  <2> HIDE DEF f, D
  <2> QED BY <1>1, PartialSums
<1>3. ASSUME NEW s \in SUBSET D PROVE SumFunction([p \in s |-> a[p[1]][p[2]]]) = h[s]
  <2>1. [p \in s |-> a[p[1]][p[2]]] = [p \in s |-> f[p]]
    OBVIOUS
  <2>2. SumFunction([p \in s |-> f[p]]) = h[s]
    <3> HIDE DEF f, D
    <3> QED BY <1>1, <1>2, SumRestricted
  <2> QED BY <2>1, <2>2
<1> QED BY <1>2, <1>3 DEF PixelSums

\* One pixel more, or one rectangle beside another.
LEMMA PixelsAdd ==
  ASSUME NEW a \in Images, NEW h, PixelSums(h, a)
  PROVE  /\ h[{}] = 0
         /\ \A s \in SUBSET (Rows(a) \X Columns(a)) : h[s] \in Int
         /\ \A s \in SUBSET (Rows(a) \X Columns(a)) : \A p \in s : h[s] = a[p[1]][p[2]] + h[s \ {p}]
         /\ \A s, d \in SUBSET (Rows(a) \X Columns(a)) : s \cap d = {} => h[s \cup d] = h[s] + h[d]
<1> DEFINE D == Rows(a) \X Columns(a)
           f == [p \in D |-> a[p[1]][p[2]]]
<1>1. Additive(h, f, D)
  BY DEF PixelSums
<1>2. Summable(f, D)
  BY PixelsFinite
<1>3. \A s, d \in SUBSET D : s \cap d = {} => h[s \cup d] = h[s] + h[d]
  <2> HIDE DEF f, D
  <2> QED BY <1>1, <1>2, SumParted
<1>4. h[{}] = 0 /\ \A s \in SUBSET D : h[s] \in Int
  BY <1>1 DEF Additive
<1>5. ASSUME NEW s \in SUBSET D, NEW p \in s PROVE h[s] = a[p[1]][p[2]] + h[s \ {p}]
  <2>1. h[s] = f[p] + h[s \ {p}] /\ p \in D
    BY <1>1 DEF Additive
  <2> QED BY <2>1
<1> QED BY <1>3, <1>4, <1>5
\* The integral image.
LEMMA IntegralImage ==
  ASSUME NEW a \in Images, NEW h, PixelSums(h, a),
         NEW y \in Rows(a), NEW x \in Columns(a)
  PROVE  CumulatedRows(CumulatedColumns(a))[y][x] = h[(1..y) \X (1..x)]
<1> DEFINE H == Height(a)
           W == Width(a)
           D == Rows(a) \X Columns(a)
           strip(i, j) == (1..i) \X {j}
           block(i, j) == (1..i) \X (1..j)
<1>1. /\ H \in Nat \ {0} /\ W \in Nat \ {0} /\ Rows(a) = 1..H /\ Columns(a) = 1..W
      /\ White \in Nat /\ \A i \in 1..H, j \in 1..W : a[i][j] \in 0..White
  BY PictureShape
<1>2. /\ h[{}] = 0
      /\ \A s \in SUBSET D : h[s] \in Int
      /\ \A s \in SUBSET D : \A p \in s : h[s] = a[p[1]][p[2]] + h[s \ {p}]
      /\ \A s, d \in SUBSET D : s \cap d = {} => h[s \cup d] = h[s] + h[d]
  <2>1. h[{}] = 0 /\ \A s \in SUBSET D : h[s] \in Int
    BY PixelsAdd
  <2>2. ASSUME NEW s \in SUBSET D, NEW p \in s PROVE h[s] = a[p[1]][p[2]] + h[s \ {p}]
    BY PixelsAdd
  <2>3. \A s, d \in SUBSET D : s \cap d = {} => h[s \cup d] = h[s] + h[d]
    BY PixelsAdd
  <2> QED BY <2>1, <2>2, <2>3
<1> HIDE DEF H, W
<1>3. ASSUME NEW i \in 1..H, NEW j \in 1..W PROVE CumulatedColumns(a)[i][j] = h[strip(i, j)]
  <2> DEFINE v == [k \in 1..H |-> a[k][j]]
             s == [k \in 0..H |-> h[strip(k, j)]]
  <2>1. v \in [1..H -> Int]
    BY <1>1
  <2>2. \A k \in 0..H : strip(k, j) \in SUBSET D
    BY <1>1
  <2>3. s \in [0..H -> Int]
    <3> HIDE DEF strip, D
    <3> QED BY <1>2, <2>2
  <2>4. s[0] = 0
    <3>1. strip(0, j) = {} /\ 0 \in 0..H
      BY <1>1
    <3> QED BY <1>2, <3>1
  <2>5. ASSUME NEW k \in 1..H PROVE s[k] = s[k - 1] + v[k]
    <3>1. <<k, j>> \in strip(k, j) /\ strip(k, j) \ {<<k, j>>} = strip(k - 1, j)
      OBVIOUS
    <3>2. k \in 0..H /\ k - 1 \in 0..H
      BY <1>1
    <3>3. h[strip(k, j)] = a[k][j] + h[strip(k - 1, j)]
      <4> DEFINE p == <<k, j>>
      <4>1. p[1] = k /\ p[2] = j
        OBVIOUS
      <4> HIDE DEF strip, p
      <4>2. h[strip(k, j)] = a[p[1]][p[2]] + h[strip(k, j) \ {p}]
        BY <1>2, <2>2, <3>1, <3>2 DEF p
      <4> QED BY <3>1, <4>1, <4>2 DEF p
    <3>4. a[k][j] \in Int /\ h[strip(k - 1, j)] \in Int
      <4>1. a[k][j] \in 0..White /\ White \in Nat
        BY <1>1
      <4> HIDE DEF strip, D
      <4> QED BY <1>2, <2>2, <3>2, <4>1
    <3>5. s[k] = h[strip(k, j)] /\ s[k - 1] = h[strip(k - 1, j)] /\ v[k] = a[k][j]
      BY <3>2
    <3> HIDE DEF s, v, strip
    <3> QED BY <3>3, <3>4, <3>5
  <2>6. Accumulated(v)[i] = s[i]
    <3>1. i \in 0..H /\ H \in Nat
      BY <1>1
    <3> HIDE DEF s, v
    <3> QED BY <2>1, <2>3, <2>4, <2>5, <3>1, Accumulates
  <2>7. CumulatedColumns(a)[i][j] = Accumulated(v)[i]
    BY <1>1 DEF CumulatedColumns
  <2>8. s[i] = h[strip(i, j)]
    BY <1>1
  <2> QED BY <2>6, <2>7, <2>8
<1> DEFINE c == CumulatedColumns(a)
           u == c[y]
           b == [k \in 0..W |-> h[block(y, k)]]
<1>4. y \in 1..H /\ x \in 1..W
  BY <1>1
<1>5. c = [i \in 1..H |-> [j \in 1..W |-> h[strip(i, j)]]]
  <2>1. c = [i \in 1..H |-> [j \in 1..W |-> c[i][j]]]
    BY <1>1 DEF CumulatedColumns
  <2> HIDE DEF strip, c
  <2> QED BY <1>3, <2>1 DEF c
<1>6. ASSUME NEW i \in 1..H PROVE c[i] \in [1..W -> Int]
  <2>1. \A j \in 1..W : strip(i, j) \in SUBSET D
    BY <1>1
  <2> HIDE DEF strip, c, D
  <2>2. \A j \in 1..W : h[strip(i, j)] \in Int
    BY <1>2, <2>1
  <2> QED BY <1>5, <2>2
<1>7. u \in [1..W -> Int] /\ \A j \in 1..W : u[j] = h[strip(y, j)]
  <2> HIDE DEF strip, c
  <2> QED BY <1>4, <1>5, <1>6
<1>8. \A k \in 0..W : block(y, k) \in SUBSET D
  BY <1>1, <1>4
<1>9. b \in [0..W -> Int]
  <2> HIDE DEF block, D
  <2> QED BY <1>2, <1>8
<1>10. b[0] = 0
  <2>1. block(y, 0) = {} /\ 0 \in 0..W
    BY <1>1
  <2> QED BY <1>2, <2>1
<1>11. ASSUME NEW k \in 1..W PROVE b[k] = b[k - 1] + u[k]
  <2>1. k \in 0..W /\ k - 1 \in 0..W
    BY <1>1
  <2>2. block(y, k) = block(y, k - 1) \cup strip(y, k) /\ block(y, k - 1) \cap strip(y, k) = {}
    OBVIOUS
  <2>3. strip(y, k) \in SUBSET D
    BY <1>1, <1>4
  <2>4. b[k] = h[block(y, k)] /\ b[k - 1] = h[block(y, k - 1)] /\ u[k] = h[strip(y, k)]
    <3> HIDE DEF strip, u, block
    <3> QED BY <1>7, <2>1
  <2> HIDE DEF strip, u, block, b, D
  <2>5. h[block(y, k - 1) \cup strip(y, k)] = h[block(y, k - 1)] + h[strip(y, k)]
    BY <1>2, <1>8, <2>1, <2>2, <2>3
  <2> QED BY <2>2, <2>4, <2>5
<1>12. Accumulated(u)[x] = b[x]
  <2>1. x \in 0..W /\ W \in Nat
    BY <1>1
  <2> HIDE DEF b, u
  <2> QED BY <1>7, <1>9, <1>10, <1>11, <2>1, Accumulates
<1>13. Rows(c) = 1..H /\ Columns(c) = 1..W
  <2>1. Len(c) = H
    <3> HIDE DEF strip, c
    <3> QED BY <1>1, <1>5
  <2>2. 1 \in 1..H
    BY <1>1
  <2>3. c[1] \in [1..W -> Int]
    <3> HIDE DEF c
    <3> QED BY <1>6, <2>2
  <2>4. Len(c[1]) = W
    <3> HIDE DEF c
    <3> QED BY <1>1, <2>3
  <2> QED BY <2>1, <2>4 DEF Rows, Columns, Height, Width
<1>14. CumulatedRows(c)[y][x] = Accumulated(u)[x]
  <2> HIDE DEF c
  <2> QED BY <1>4, <1>13 DEF CumulatedRows
<1>15. b[x] = h[block(y, x)]
  <2>1. x \in 0..W
    BY <1>1
  <2> QED BY <2>1
<1> HIDE DEF b, c, u
<1> QED BY <1>12, <1>14, <1>15 DEF c
\* The part of the window of (y, x) that lies in the image.
Window(a, w, y, x) ==
  {q \in Rows(a) \X Columns(a) :
     2 * MaxOf(q[1] - y, y - q[1]) < w /\ 2 * MaxOf(q[2] - x, x - q[2]) < w}

\* A side w of a window around y, clipped to 1..n: it starts after d and ends with b.
ClippedSide(n, y, r, w, d, b) ==
  /\ n \in Nat \ {0} /\ y \in 1..n /\ r \in Nat /\ w = 2 * r + 1
  /\ d = MaxOf(y - r, 1) - 1 /\ b = MinOf(y + r, n)

\* It is an interval.
LEMMA WindowInterval ==
  ASSUME NEW n, NEW y, NEW r, NEW w, NEW d, NEW b, ClippedSide(n, y, r, w, d, b)
  PROVE  /\ d \in 0..n /\ b \in 0..n /\ d <= b
         /\ \A q \in 1..n : 2 * MaxOf(q - y, y - q) < w <=> q \in (d + 1)..b
BY DEF ClippedSide, MaxOf, MinOf

\* C is the integral image, with a row and a column of zeros before it.
Padded(C, h, a) ==
  \A i \in 0..Height(a), j \in 0..Width(a) :
    C[<<i, j>>] = IF i = 0 \/ j = 0 THEN 0 ELSE h[(1..i) \X (1..j)]

\* Four corners of the integral image give the sum over a window.
LEMMA CornersSum ==
  ASSUME NEW a \in Images, NEW h, PixelSums(h, a), NEW C, Padded(C, h, a),
         NEW d \in 0..Height(a), NEW b \in 0..Height(a), d <= b,
         NEW l \in 0..Width(a), NEW r \in 0..Width(a), l <= r
  PROVE  C[<<b, r>>] - C[<<d, r>>] - C[<<b, l>>] + C[<<d, l>>] = h[((d + 1)..b) \X ((l + 1)..r)]
<1> DEFINE H == Height(a)
           W == Width(a)
           D == Rows(a) \X Columns(a)
<1>1. H \in Nat \ {0} /\ W \in Nat \ {0} /\ Rows(a) = 1..H /\ Columns(a) = 1..W
  BY PictureShape
<1>2. /\ h[{}] = 0
      /\ \A s \in SUBSET D : h[s] \in Int
      /\ \A s, u \in SUBSET D : s \cap u = {} => h[s \cup u] = h[s] + h[u]
  BY PixelsAdd
<1> HIDE DEF H, W
<1>3. ASSUME NEW i \in 0..H, NEW j \in 0..W
      PROVE  (1..i) \X (1..j) \in SUBSET D /\ C[<<i, j>>] = h[(1..i) \X (1..j)]
  <2>1. (1..i) \X (1..j) \in SUBSET D
    BY <1>1
  <2>2. i = 0 \/ j = 0 => (1..i) \X (1..j) = {}
    BY <1>1
  <2>3. C[<<i, j>>] = IF i = 0 \/ j = 0 THEN 0 ELSE h[(1..i) \X (1..j)]
    BY DEF H, W, Padded
  <2> QED BY <1>2, <2>1, <2>2, <2>3
<1>4. ASSUME NEW j \in 0..W
      PROVE  /\ ((d + 1)..b) \X (1..j) \in SUBSET D
             /\ h[(1..b) \X (1..j)] = h[(1..d) \X (1..j)] + h[((d + 1)..b) \X (1..j)]
  <2> DEFINE s == (1..d) \X (1..j)
             u == ((d + 1)..b) \X (1..j)
  <2>1. d \in 0..H /\ b \in 0..H
    BY DEF H
  <2>2. s \in SUBSET D /\ u \in SUBSET D /\ s \cap u = {}
    BY <1>1, <2>1
  <2>3. (1..b) \X (1..j) = s \cup u
    BY <1>1, <2>1
  <2> HIDE DEF s, u, D
  <2>4. h[s \cup u] = h[s] + h[u]
    BY <1>2, <2>2
  <2> QED BY <2>2, <2>3, <2>4 DEF s, u
<1>5. h[((d + 1)..b) \X (1..r)] = h[((d + 1)..b) \X (1..l)] + h[((d + 1)..b) \X ((l + 1)..r)]
  <2> DEFINE s == ((d + 1)..b) \X (1..l)
             u == ((d + 1)..b) \X ((l + 1)..r)
  <2>1. d \in 0..H /\ b \in 0..H /\ l \in 0..W /\ r \in 0..W
    BY DEF H, W
  <2>2. s \in SUBSET D /\ u \in SUBSET D /\ s \cap u = {}
    BY <1>1, <2>1
  <2>3. ((d + 1)..b) \X (1..r) = s \cup u
    BY <1>1, <2>1
  <2> HIDE DEF s, u, D
  <2>4. \A v, z \in SUBSET D : v \cap z = {} => h[v \cup z] = h[v] + h[z]
    BY <1>2
  <2>5. h[s \cup u] = h[s] + h[u]
    BY <2>2, <2>4
  <2> QED BY <2>3, <2>5 DEF s, u
<1> DEFINE h1 == h[(1..b) \X (1..r)]
           h2 == h[(1..d) \X (1..r)]
           h3 == h[(1..b) \X (1..l)]
           h4 == h[(1..d) \X (1..l)]
           h5 == h[((d + 1)..b) \X (1..r)]
           h6 == h[((d + 1)..b) \X (1..l)]
           h7 == h[((d + 1)..b) \X ((l + 1)..r)]
<1>6. d \in 0..H /\ b \in 0..H /\ l \in 0..W /\ r \in 0..W
  BY DEF H, W
<1>7. h7 \in Int
  <2>1. ((d + 1)..b) \X ((l + 1)..r) \in SUBSET D
    BY <1>1, <1>6
  <2> HIDE DEF D
  <2> QED BY <1>2, <2>1
<1>8. /\ C[<<b, r>>] = h1 /\ C[<<d, r>>] = h2 /\ C[<<b, l>>] = h3 /\ C[<<d, l>>] = h4
  BY <1>3, <1>6
<1>9. h1 = h2 + h5 /\ h3 = h4 + h6
  BY <1>4, <1>6
<1>10. h2 \in Int /\ h4 \in Int /\ h5 \in Int /\ h6 \in Int
  <2> HIDE DEF D
  <2> QED BY <1>2, <1>3, <1>4, <1>6
<1>11. h5 = h6 + h7
  BY <1>5
<1> HIDE DEF h1, h2, h3, h4, h5, h6, h7
<1>12. C[<<b, r>>] - C[<<d, r>>] - C[<<b, l>>] + C[<<d, l>>] = h7
  BY <1>7, <1>8, <1>9, <1>10, <1>11
<1> QED BY <1>12 DEF h7

\* _uniform_filter: the total of every window is the sum over it.
LEMMA WindowsSum ==
  ASSUME image \in Images, window \in Windows, integral = CumulatedRows(CumulatedColumns(image)),
         NEW y \in Rows(image), NEW x \in Columns(image)
  PROVE  WindowTotal(y, x)
           = SumFunction([p \in Window(image, window, y, x) |-> image[p[1]][p[2]]])
<1> DEFINE H == Height(image)
           W == Width(image)
           D == Rows(image) \X Columns(image)
           radius == window \div 2
           top == MaxOf(y - radius, 1) - 1
           bottom == MinOf(y + radius, H)
           left == MaxOf(x - radius, 1) - 1
           right == MinOf(x + radius, W)
           C == [c \in (0..H) \X (0..W) |-> Corner(c[1], c[2])]
           win == ((top + 1)..bottom) \X ((left + 1)..right)
<1>1. H \in Nat \ {0} /\ W \in Nat \ {0} /\ Rows(image) = 1..H /\ Columns(image) = 1..W
  BY PictureShape
<1>2. PICK h : /\ PixelSums(h, image)
               /\ \A s \in SUBSET D : SumFunction([p \in s |-> image[p[1]][p[2]]]) = h[s]
  BY PixelsSum
<1> HIDE DEF H, W
<1>3. radius \in Nat /\ window = 2 * radius + 1
  <2>1. window \in Nat /\ window % 2 = 1
    BY PictureAssumption
  <2> QED BY <2>1
<1> HIDE DEF radius
<1>4. /\ top \in 0..H /\ bottom \in 0..H /\ top <= bottom
      /\ \A q \in 1..H : 2 * MaxOf(q - y, y - q) < window <=> q \in (top + 1)..bottom
  <2>1. ClippedSide(H, y, radius, window, top, bottom)
    BY <1>1, <1>3 DEF ClippedSide
  <2> HIDE DEF top, bottom
  <2> QED BY <2>1, WindowInterval
<1>5. /\ left \in 0..W /\ right \in 0..W /\ left <= right
      /\ \A q \in 1..W : 2 * MaxOf(q - x, x - q) < window <=> q \in (left + 1)..right
  <2>1. ClippedSide(W, x, radius, window, left, right)
    BY <1>1, <1>3 DEF ClippedSide
  <2> HIDE DEF left, right
  <2> QED BY <2>1, WindowInterval
<1>6. WindowTotal(y, x)
        = Corner(bottom, right) - Corner(top, right) - Corner(bottom, left) + Corner(top, left)
  BY DEF WindowTotal, radius, H, W
<1> HIDE DEF top, bottom, left, right
<1>11. win \in SUBSET D
  <2>1. (top + 1)..bottom \subseteq 1..H
    BY <1>1, <1>4
  <2>2. (left + 1)..right \subseteq 1..W
    BY <1>1, <1>5
  <2> QED BY <1>1, <2>1, <2>2
<1>7. Window(image, window, y, x) = win
  <2>1. \A q \in D : q \in Window(image, window, y, x) <=> q \in win
    <3> SUFFICES ASSUME NEW q \in D PROVE q \in Window(image, window, y, x) <=> q \in win
      OBVIOUS
    <3>1. q = <<q[1], q[2]>> /\ q[1] \in 1..H /\ q[2] \in 1..W
      BY <1>1
    <3>2. q \in win <=> q[1] \in (top + 1)..bottom /\ q[2] \in (left + 1)..right
      BY <3>1
    <3> QED BY <1>4, <1>5, <3>1, <3>2 DEF Window
  <2>2. Window(image, window, y, x) \in SUBSET D
    BY DEF Window
  <2>3. win \in SUBSET D
    BY <1>11
  <2> HIDE DEF win, D
  <2> QED BY <2>1, <2>2, <2>3
<1>8. \A i \in 0..H, j \in 0..W :
        C[<<i, j>>] = Corner(i, j) /\
        C[<<i, j>>] = IF i = 0 \/ j = 0 THEN 0 ELSE h[(1..i) \X (1..j)]
  <2> SUFFICES ASSUME NEW i \in 0..H, NEW j \in 0..W
               PROVE  C[<<i, j>>] = Corner(i, j) /\
                      C[<<i, j>>] = IF i = 0 \/ j = 0 THEN 0 ELSE h[(1..i) \X (1..j)]
    OBVIOUS
  <2>1. C[<<i, j>>] = Corner(i, j)
    OBVIOUS
  <2>2. i # 0 /\ j # 0 => integral[i][j] = h[(1..i) \X (1..j)]
    <3> SUFFICES ASSUME i # 0, j # 0 PROVE integral[i][j] = h[(1..i) \X (1..j)]
      OBVIOUS
    <3>1. i \in Rows(image) /\ j \in Columns(image)
      BY <1>1
    <3>2. PixelSums(h, image)
      BY <1>2
    <3>3. CumulatedRows(CumulatedColumns(image))[i][j] = h[(1..i) \X (1..j)]
      BY <3>1, <3>2, IntegralImage
    <3> QED BY <3>3
  <2> HIDE DEF C
  <2> QED BY <2>1, <2>2 DEF Corner
<1> HIDE DEF C
<1>9. C[<<bottom, right>>] - C[<<top, right>>] - C[<<bottom, left>>] + C[<<top, left>>] = h[win]
  <2>1. PixelSums(h, image)
    BY <1>2
  <2>2. Padded(C, h, image)
    BY <1>8 DEF H, W, Padded
  <2>3. /\ top \in 0..Height(image) /\ bottom \in 0..Height(image) /\ top <= bottom
        /\ left \in 0..Width(image) /\ right \in 0..Width(image) /\ left <= right
    BY <1>4, <1>5 DEF H, W
  <2> QED BY <2>1, <2>2, <2>3, CornersSum
<1>10. WindowTotal(y, x) = h[win]
  <2>1. /\ C[<<bottom, right>>] = Corner(bottom, right) /\ C[<<top, right>>] = Corner(top, right)
        /\ C[<<bottom, left>>] = Corner(bottom, left) /\ C[<<top, left>>] = Corner(top, left)
    BY <1>4, <1>5, <1>8
  <2> HIDE DEF win
  <2> QED BY <1>6, <1>9, <2>1
<1> HIDE DEF win, D
<1> QED BY <1>2, <1>7, <1>10, <1>11

\* Every pixel of a has the level.
Flat(a, level) == \A y \in Rows(a), x \in Columns(a) : a[y][x] = level

\* A reflected index is one of the image.
LEMMA ReflectInside ==
  ASSUME NEW n \in Nat \ {0}, NEW i \in Int
  PROVE  Reflect(i, n) \in 1..n
BY DEF Reflect, MaxOf, MinOf

\* Convolution of a flat image multiplies its level by the sum of the kernel.
LEMMA FlatConvolved ==
  ASSUME NEW a \in Images, NEW level \in 0..White, Flat(a, level), NEW kernel,
         NEW D \in SUBSET (Int \X Int), Summable(kernel, D),
         NEW y \in Rows(a), NEW x \in Columns(a)
  PROVE  SumFunction(kernel) \in Int /\ Convolved(a, kernel, y, x) = level * SumFunction(kernel)
<1> DEFINE zero == [o \in D |-> 0]
           at(o) == a[Reflect(y + o[1], Height(a))][Reflect(x + o[2], Width(a))]
           k == [o \in D |-> kernel[o] * at(o)]
<1>1. /\ Height(a) \in Nat \ {0} /\ Width(a) \in Nat \ {0} /\ White \in Nat
      /\ Rows(a) = 1..Height(a) /\ Columns(a) = 1..Width(a)
  BY PictureShape
<1>2. level \in Int
  BY <1>1
<1>3. ASSUME NEW o \in D PROVE at(o) = level
  <2>1. o[1] \in Int /\ o[2] \in Int /\ y \in Int /\ x \in Int
    BY <1>1
  <2>2. y + o[1] \in Int /\ x + o[2] \in Int
    BY <2>1
  <2>3. Reflect(y + o[1], Height(a)) \in Rows(a) /\ Reflect(x + o[2], Width(a)) \in Columns(a)
    BY <1>1, <2>2, ReflectInside
  <2> QED BY <2>3 DEF Flat
<1>4. IsFiniteSet(D) /\ D = DOMAIN kernel /\ \A o \in D : kernel[o] \in Int
  BY DEF Summable
<1>5. Summable(zero, D) /\ SumFunction(zero) = 0
  <2>1. D = DOMAIN zero /\ {} \in SUBSET D /\ 0 \in Int
        /\ \A o \in D : zero[o] = IF o \in {} THEN 0 ELSE 0
    OBVIOUS
  <2> HIDE DEF zero
  <2>2. /\ Summable(zero, D) /\ Cardinality({}) \in Nat
        /\ SumFunction(zero) = 0 * Cardinality({})
    BY <1>4, <2>1, SumSupported
  <2> QED BY <2>2
<1>6. D = DOMAIN k /\ \A o \in D : k[o] = level * kernel[o] + zero[o]
  <2>1. \A u \in Int : u * level = level * u + 0
    BY <1>2
  <2> QED BY <1>3, <1>4, <2>1
<1>7. Convolved(a, kernel, y, x) = SumFunction(k)
  BY <1>4 DEF Convolved
<1> HIDE DEF k, zero
<1>8. SumFunction(kernel) \in Int /\ SumFunction(k) = level * SumFunction(kernel) + SumFunction(zero)
  BY <1>2, <1>5, <1>6, SumLinear
<1>9. \A u \in Int : level * u \in Int
  BY <1>2
<1> QED BY <1>5, <1>7, <1>8, <1>9

\* A transform of a flat image whose kernel sums to its scale, or to 0.
LEMMA FlatTransformed ==
  ASSUME image \in Images, NEW level \in 0..White, Flat(image, level), NEW kernel,
         NEW D \in SUBSET (Int \X Int), Summable(kernel, D), NEW scale \in Nat,
         SumFunction(kernel) \in {0, scale}
  PROVE  /\ Transformed(kernel, scale).scale = scale
         /\ \A y \in Rows(image), x \in Columns(image) :
              Transformed(kernel, scale).levels[y][x] = level * SumFunction(kernel)
<1>1. /\ White \in Nat /\ Rows(image) = 1..Height(image) /\ Columns(image) = 1..Width(image)
  BY PictureShape
<1>2. ASSUME NEW y \in Rows(image), NEW x \in Columns(image)
      PROVE  Transformed(kernel, scale).levels[y][x] = level * SumFunction(kernel)
  <2>1. Convolved(image, kernel, y, x) = level * SumFunction(kernel)
    BY FlatConvolved
  <2>2. Transformed(kernel, scale).levels[y][x] = Clip(Convolved(image, kernel, y, x), scale * White)
    BY DEF Transformed
  <2>3. level \in Nat /\ level <= White
    BY <1>1
  <2>4. \A u, v, w \in Nat : u <= v => u * w <= w * v /\ u * w \in Nat /\ w * v \in Nat
    OBVIOUS
  <2>5. level * scale <= scale * White /\ level * scale \in Nat /\ scale * White \in Nat
    BY <1>1, <2>3, <2>4
  <2>6. level * 0 = 0
    BY <2>3
  <2> DEFINE p == level * scale
             q == scale * White
             c == Convolved(image, kernel, y, x)
  <2>7. c \in {0, p}
    BY <2>1, <2>6
  <2>8. Clip(c, q) = c
    <3> HIDE DEF p, q, c
    <3> QED BY <2>5, <2>7 DEF Clip, MaxOf, MinOf, p, q
  <2> QED BY <2>1, <2>2, <2>8
<1> QED BY <1>2 DEF Transformed

\* The places of a kernel.
LEMMA OffsetsFinite ==
  ASSUME NEW r \in Nat
  PROVE  /\ Offsets(r) \in SUBSET (Int \X Int) /\ IsFiniteSet(Offsets(r))
         /\ Cardinality(Offsets(r)) = (2 * r + 1) * (2 * r + 1)
<1> DEFINE I == (-r)..r
<1>1. IsFiniteSet(I) /\ Cardinality(I) = 2 * r + 1
  <2>1. -r \in Int /\ r \in Int /\ ~(-r > r) /\ r - (-r) + 1 = 2 * r + 1
    OBVIOUS
  <2>2. IsFiniteSet(I) /\ Cardinality(I) = IF -r > r THEN 0 ELSE r - (-r) + 1
    BY <2>1, FS_Interval
  <2> QED BY <2>1, <2>2
<1>2. Offsets(r) = I \X I
  BY DEF Offsets
<1>3. I \X I \in SUBSET (Int \X Int)
  OBVIOUS
<1> HIDE DEF I
<1>4. IsFiniteSet(I \X I) /\ Cardinality(I \X I) = Cardinality(I) * Cardinality(I)
  BY <1>1, FS_Product
<1> QED BY <1>1, <1>2, <1>3, <1>4

\* The generic smoothing kernel sums to the number of its taps.
LEMMA OnesSum ==
  ASSUME NEW taps \in Taps
  PROVE  \E D \in SUBSET (Int \X Int) :
           /\ Summable(Ones(taps), D) /\ taps * taps \in Nat
           /\ SumFunction(Ones(taps)) = taps * taps
<1> DEFINE r == taps \div 2
           D == Offsets(r)
           f == Ones(taps)
<1>1. r \in Nat /\ taps = 2 * r + 1
  BY PictureAssumption
<1>2. D \in SUBSET (Int \X Int) /\ IsFiniteSet(D) /\ Cardinality(D) = taps * taps
  BY <1>1, OffsetsFinite
<1>3. D = DOMAIN f /\ D \in SUBSET D /\ \A o \in D : f[o] = IF o \in D THEN 1 ELSE 0
  BY DEF Ones
<1> HIDE DEF f, D
<1>4. Summable(f, D) /\ Cardinality(D) \in Nat /\ SumFunction(f) = 1 * Cardinality(D)
  BY <1>2, <1>3, SumSupported
<1> QED BY <1>2, <1>4 DEF f

\* The size of a set of four.
LEMMA FourElements ==
  ASSUME NEW a, NEW b, NEW c, NEW d, a # b, a # c, a # d, b # c, b # d, c # d
  PROVE  IsFiniteSet({a, b, c, d}) /\ Cardinality({a, b, c, d}) = 4
<1>1. IsFiniteSet({a}) /\ Cardinality({a}) = 1
  BY FS_Singleton
<1>2. IsFiniteSet({a} \cup {b}) /\ Cardinality({a} \cup {b}) = 2
  BY <1>1, FS_AddElement
<1>3. IsFiniteSet(({a} \cup {b}) \cup {c}) /\ Cardinality(({a} \cup {b}) \cup {c}) = 3
  BY <1>2, FS_AddElement
<1>4. /\ IsFiniteSet((({a} \cup {b}) \cup {c}) \cup {d})
      /\ Cardinality((({a} \cup {b}) \cup {c}) \cup {d}) = 4
  BY <1>3, FS_AddElement
<1>5. (({a} \cup {b}) \cup {c}) \cup {d} = {a, b, c, d}
  OBVIOUS
<1> QED BY <1>4, <1>5

\* The generic sharpening kernel sums to 1.
LEMMA SharpeningSum ==
  ASSUME NEW gain \in Gains
  PROVE  \E D \in SUBSET (Int \X Int) :
           Summable(Sharpening(gain), D) /\ SumFunction(Sharpening(gain)) = 1
<1> DEFINE D == Offsets(1)
           T == {<<-1, 0>>, <<1, 0>>, <<0, -1>>, <<0, 1>>}
           O == {<<0, 0>>}
           cross == [o \in D |-> IF o \in T THEN 1 ELSE 0]
           centre == [o \in D |-> IF o \in O THEN 1 + 4 * gain ELSE 0]
           f == Sharpening(gain)
<1>1. gain \in Int
  BY PictureAssumption
<1>2. D \in SUBSET (Int \X Int) /\ IsFiniteSet(D)
  BY OffsetsFinite
<1>3. D = {<<y, x>> : y \in {-1, 0, 1}, x \in {-1, 0, 1}}
  BY DEF Offsets
<1>4. T \in SUBSET D /\ O \in SUBSET D
  BY <1>3
<1>5. Cardinality(T) = 4 /\ Cardinality(O) = 1
  <2>1. /\ <<-1, 0>> # <<1, 0>> /\ <<-1, 0>> # <<0, -1>> /\ <<-1, 0>> # <<0, 1>>
        /\ <<1, 0>> # <<0, -1>> /\ <<1, 0>> # <<0, 1>> /\ <<0, -1>> # <<0, 1>>
    OBVIOUS
  <2>2. Cardinality(T) = 4
    BY <2>1, FourElements
  <2> QED BY <2>2, FS_Singleton
<1>6. DOMAIN f = D /\ \A o \in D : f[o] = (-gain) * cross[o] + centre[o]
  <2>1. f = [o \in D |-> CASE o = <<0, 0>> -> 1 + 4 * gain
                           [] o # <<0, 0>> /\ (o[1] = 0 \/ o[2] = 0) -> -gain
                           [] OTHER -> 0]
    BY DEF Sharpening
  <2>2. ASSUME NEW o \in D PROVE f[o] = (-gain) * cross[o] + centre[o]
    <3>1. PICK y \in {-1, 0, 1}, x \in {-1, 0, 1} : o = <<y, x>>
      BY <1>3
    <3>2. /\ (-gain) * 1 + 0 = -gain /\ (-gain) * 0 + 0 = 0
          /\ (-gain) * 0 + (1 + 4 * gain) = 1 + 4 * gain
      BY <1>1
    <3> HIDE DEF D
    <3>3. cross[o] = (IF o \in T THEN 1 ELSE 0) /\ centre[o] = IF o \in O THEN 1 + 4 * gain ELSE 0
      OBVIOUS
    <3>4. CASE y = 0 /\ x = 0
      BY <2>1, <3>1, <3>2, <3>3, <3>4
    <3>5. CASE y = 0 /\ x # 0
      BY <2>1, <3>1, <3>2, <3>3, <3>5
    <3>6. CASE y # 0 /\ x = 0
      BY <2>1, <3>1, <3>2, <3>3, <3>6
    <3>7. CASE y # 0 /\ x # 0
      BY <2>1, <3>1, <3>2, <3>3, <3>7
    <3> QED BY <3>4, <3>5, <3>6, <3>7
  <2> QED BY <2>1, <2>2
<1> HIDE DEF D, T, O, f
<1>7. Summable(cross, D) /\ SumFunction(cross) = 1 * Cardinality(T)
  <2>1. D = DOMAIN cross /\ \A o \in D : cross[o] = IF o \in T THEN 1 ELSE 0
    OBVIOUS
  <2> HIDE DEF cross
  <2> QED BY <1>2, <1>4, <2>1, SumSupported
<1>8. Summable(centre, D) /\ SumFunction(centre) = (1 + 4 * gain) * Cardinality(O)
  <2>1. D = DOMAIN centre /\ \A o \in D : centre[o] = IF o \in O THEN 1 + 4 * gain ELSE 0
    OBVIOUS
  <2>2. 1 + 4 * gain \in Int
    BY <1>1
  <2> HIDE DEF centre
  <2> QED BY <1>2, <1>4, <2>1, <2>2, SumSupported
<1> HIDE DEF cross, centre
<1>9. -gain \in Int
  BY <1>1
<1>10. Summable(f, D) /\ SumFunction(f) = (-gain) * SumFunction(cross) + SumFunction(centre)
  <2> DEFINE c == -gain
  <2>1. c \in Int /\ DOMAIN f = D /\ \A o \in D : f[o] = c * cross[o] + centre[o]
    BY <1>6, <1>9
  <2> HIDE DEF c
  <2>2. Summable(f, D) /\ SumFunction(f) = c * SumFunction(cross) + SumFunction(centre)
    BY <1>7, <1>8, <2>1, SumLinear
  <2> QED BY <2>2 DEF c
<1>11. SumFunction(f) = 1
  BY <1>1, <1>5, <1>7, <1>8, <1>10
<1> QED BY <1>2, <1>10, <1>11 DEF f

\* The distance of a place of a kernel from the centre, and the places of the
\* four directions at the distance d.
Ring(o) == MaxOf(MaxOf(o[1], -o[1]), MaxOf(o[2], -o[2]))
Star(d) == ({-d, 0, d} \X {-d, 0, d}) \ {<<0, 0>>}

\* There are eight of them.
LEMMA StarSize ==
  ASSUME NEW n \in Nat, NEW d \in 1..n
  PROVE  /\ Star(d) \in SUBSET Offsets(n) /\ Cardinality(Star(d)) = 8
         /\ \A o \in Star(d) : Ring(o) = d /\ o # <<0, 0>>
<1> DEFINE I == {-d, 0, d}
<1>1. d \in Nat \ {0} /\ -d # 0 /\ d # 0 /\ -d # d
  OBVIOUS
<1>2. IsFiniteSet(I) /\ Cardinality(I) = 3
  <2> DEFINE m == -d
  <2>1. m # 0 /\ d # 0 /\ m # d
    BY <1>1
  <2>2. I = ({m} \cup {0}) \cup {d}
    OBVIOUS
  <2> HIDE DEF m, I
  <2>3. IsFiniteSet({m}) /\ Cardinality({m}) = 1 /\ 0 \notin {m} /\ d \notin {m} \cup {0}
    BY <2>1, FS_Singleton
  <2>4. IsFiniteSet({m} \cup {0}) /\ Cardinality({m} \cup {0}) = 2
    BY <2>3, FS_AddElement
  <2>5. IsFiniteSet(({m} \cup {0}) \cup {d}) /\ Cardinality(({m} \cup {0}) \cup {d}) = 3
    BY <2>3, <2>4, FS_AddElement
  <2> QED BY <2>2, <2>5
<1>3. <<0, 0>> \in I \X I
  OBVIOUS
<1>4. Cardinality(Star(d)) = 8
  <2> HIDE DEF I
  <2>1. IsFiniteSet(I \X I) /\ Cardinality(I \X I) = Cardinality(I) * Cardinality(I)
    BY <1>2, FS_Product
  <2>2. Cardinality((I \X I) \ {<<0, 0>>}) = Cardinality(I \X I) - 1
    BY <1>3, <2>1, FS_RemoveElement
  <2>3. Cardinality(Star(d)) = Cardinality((I \X I) \ {<<0, 0>>})
    BY DEF Star, I
  <2> QED BY <1>2, <2>1, <2>2, <2>3
<1>5. ASSUME NEW o \in Star(d) PROVE o \in Offsets(n) /\ Ring(o) = d /\ o # <<0, 0>>
  <2>1. o = <<o[1], o[2]>> /\ o[1] \in {-d, 0, d} /\ o[2] \in {-d, 0, d} /\ ~(o[1] = 0 /\ o[2] = 0)
    BY DEF Star
  <2>2. o[1] \in (-n)..n /\ o[2] \in (-n)..n
    BY <2>1
  <2>3. Ring(o) = d
    BY <1>1, <2>1 DEF Ring, MaxOf
  <2>4. o \in Offsets(n)
    BY <2>1, <2>2 DEF Offsets
  <2> QED BY <2>1, <2>3, <2>4 DEF Star
<1> QED BY <1>4, <1>5

\* A place lies on one direction at most, at its own distance.
LEMMA DirectionsMeet ==
  ASSUME NEW n \in Nat, NEW o \in Offsets(n), NEW k \in (-n)..n, o \in Direction(k)
  PROVE  /\ k = 0 => o = <<0, 0>>
         /\ k # 0 => o \in Star(MaxOf(k, -k)) /\ MaxOf(k, -k) = Ring(o)
         /\ \A j \in (-n)..n : o \in Direction(j) => j = k
<1>1. o \in {<<0, k>>, <<-k, k>>, <<k, 0>>, <<k, k>>}
  BY DEF Direction
<1>2. k = 0 => o = <<0, 0>>
  BY <1>1
<1>3. ASSUME k # 0 PROVE o \in Star(MaxOf(k, -k)) /\ MaxOf(k, -k) = Ring(o)
  <2>1. PICK d \in 1..n : d = MaxOf(k, -k) /\ k \in {-d, d} /\ -k \in {-d, d}
    BY <1>3 DEF MaxOf
  <2>2. o \in Star(d)
    BY <1>1, <1>3, <2>1 DEF Star
  <2>3. Ring(o) = d
    BY <2>2, StarSize
  <2> QED BY <2>1, <2>2, <2>3
<1>4. ASSUME NEW j \in (-n)..n, o \in Direction(j) PROVE j = k
  <2>1. o \in {<<0, j>>, <<-j, j>>, <<j, 0>>, <<j, j>>}
    BY <1>4 DEF Direction
  <2> QED BY <1>1, <2>1
<1> QED BY <1>2, <1>3, <1>4

\* A place of a star lies on a direction.
LEMMA DirectionsReach ==
  ASSUME NEW n \in Nat, NEW d \in 1..n, NEW o \in Star(d)
  PROVE  \E k \in (-n)..n : o \in Direction(k) /\ MaxOf(k, -k) = d
<1>1. /\ o = <<o[1], o[2]>> /\ o[1] \in {-d, 0, d} /\ o[2] \in {-d, 0, d}
      /\ ~(o[1] = 0 /\ o[2] = 0)
  BY DEF Star
<1>2. d \in (-n)..n /\ -d \in (-n)..n /\ MaxOf(d, -d) = d /\ MaxOf(-d, -(-d)) = d /\ -(-d) = d
  BY DEF MaxOf
<1>3. Direction(d) = {<<0, d>>, <<-d, d>>, <<d, 0>>, <<d, d>>}
  BY DEF Direction
<1>4. Direction(-d) = {<<0, -d>>, <<d, -d>>, <<-d, 0>>, <<-d, -d>>}
  BY <1>2 DEF Direction
<1>5. o \in Direction(d) \/ o \in Direction(-d)
  BY <1>1, <1>3, <1>4
<1> QED BY <1>2, <1>5

\* A sum of one term, and one of none.
LEMMA SingleSums ==
  ASSUME NEW f, NEW D, D = DOMAIN f
  PROVE  /\ D = {} => SumFunction(f) = 0
         /\ \A k : D = {k} /\ f[k] \in Int => SumFunction(f) = f[k]
<1>1. ASSUME D = {} PROVE SumFunction(f) = 0
  <2>1. IsFiniteSet({}) /\ Cardinality({}) = 0
    BY FS_EmptySet
  <2>2. IsFiniteSet(D) /\ D \in SUBSET D /\ 1 \in Int /\ \A i \in D : f[i] = IF i \in D THEN 1 ELSE 0
    BY <1>1, <2>1
  <2>3. SumFunction(f) = 1 * Cardinality(D)
    BY <2>2, SumSupported
  <2> QED BY <1>1, <2>1, <2>3
<1>2. ASSUME NEW k, D = {k}, f[k] \in Int PROVE SumFunction(f) = f[k]
  <2> DEFINE c == f[k]
  <2>1. IsFiniteSet({k}) /\ Cardinality({k}) = 1
    BY FS_Singleton
  <2>2. IsFiniteSet(D) /\ D \in SUBSET D /\ c \in Int /\ \A i \in D : f[i] = IF i \in D THEN c ELSE 0
    BY <1>2, <2>1
  <2> HIDE DEF c
  <2>3. SumFunction(f) = c * Cardinality(D)
    BY <2>2, SumSupported
  <2> QED BY <1>2, <2>1, <2>2, <2>3 DEF c
<1> QED BY <1>1, <1>2

\* Sums of natural numbers are natural.
LEMMA SumNatural ==
  ASSUME NEW f, NEW D, Summable(f, D), \A i \in D : f[i] \in Nat
  PROVE  SumFunction(f) \in Nat
<1>1. PICK h : Additive(h, f, D) /\ SumFunction(f) = h[D]
  BY PartialSums
<1> DEFINE P == SUBSET D
           Bad == {Cardinality(s) : s \in {d \in P : h[d] \notin Nat}}
<1>2. IsFiniteSet(D)
  BY DEF Summable
<1>3. /\ {} \in P /\ D \in P /\ Cardinality(D) \in Nat
      /\ \A s \in P : /\ Cardinality(s) \in 0..Cardinality(D)
                      /\ Cardinality(s) = 0 => s = {}
                      /\ s # {} => Some(s) \in s
                      /\ \A x \in s : /\ s \ {x} \in P
                                      /\ Cardinality(s \ {x}) = Cardinality(s) - 1
  BY <1>2, SubsetSizes
<1>4. Bad \in SUBSET Nat
  BY <1>3
<1>5. ASSUME Bad # {} PROVE FALSE
  <2>1. PICK m \in Bad : \A k \in Bad : m <= k
    <3> HIDE DEF Bad
    <3> QED BY <1>4, <1>5, LeastNatural
  <2>2. PICK s \in P : h[s] \notin Nat /\ Cardinality(s) = m
    BY <2>1
  <2>3. s # {}
    <3>1. h[{}] \in Nat
      BY <1>1 DEF Additive
    <3> QED BY <2>2, <3>1
  <2>4. PICK x \in s : TRUE
    BY <2>3
  <2>5. h[s] = f[x] + h[s \ {x}] /\ f[x] \in Nat
    BY <1>1, <2>2, <2>4 DEF Additive
  <2>6. s \ {x} \in P /\ Cardinality(s \ {x}) = m - 1 /\ m \in Nat
    BY <1>3, <2>2, <2>4
  <2>7. h[s \ {x}] \notin Nat
    BY <2>2, <2>5
  <2>8. Cardinality(s \ {x}) \in Bad
    BY <2>6, <2>7
  <2>9. m <= m - 1
    <3> HIDE DEF Bad
    <3> QED BY <2>1, <2>6, <2>8
  <2> QED BY <2>6, <2>9
<1>6. h[D] \in Nat
  <2>1. h[D] \notin Nat => Cardinality(D) \in Bad
    BY <1>3
  <2> HIDE DEF Bad
  <2> QED BY <1>5, <2>1
<1> QED BY <1>1, <1>6

\* The values of low_pass.
LEMMA LowPassValues ==
  ASSUME NEW side \in Seq(Nat), NEW n, n = Len(side), NEW o \in Offsets(n)
  PROVE  LowPass(side)[o] = IF o = <<0, 0>> THEN 4
                            ELSE IF Ring(o) \in 1..n /\ o \in Star(Ring(o)) THEN side[Ring(o)]
                            ELSE 0
<1> DEFINE weight(k) == IF k = 0 THEN 4 ELSE side[MaxOf(k, -k)]
           K == {j \in (-n)..n : o \in Direction(j)}
           f == [k \in K |-> weight(k)]
<1>1. n \in Nat /\ \A d \in 1..n : side[d] \in Nat
  OBVIOUS
<1>2. LowPass(side)[o] = SumFunction(f)
  BY DEF LowPass
<1>3. K = DOMAIN f
  OBVIOUS
<1>4. CASE o = <<0, 0>>
  <2>1. 0 \in (-n)..n /\ o \in Direction(0)
    BY <1>1, <1>4 DEF Direction
  <2>2. K = {0}
    BY <1>1, <2>1, DirectionsMeet
  <2>3. f[0] = 4 /\ f[0] \in Int
    BY <2>2
  <2> HIDE DEF f, K
  <2>4. SumFunction(f) = f[0]
    BY <1>3, <2>2, <2>3, SingleSums
  <2> QED BY <1>2, <1>4, <2>3, <2>4
<1>5. CASE o # <<0, 0>> /\ Ring(o) \in 1..n /\ o \in Star(Ring(o))
  <2> DEFINE d == Ring(o)
  <2>1. PICK k \in (-n)..n : o \in Direction(k) /\ MaxOf(k, -k) = d
    BY <1>1, <1>5, DirectionsReach
  <2>2. K = {k}
    BY <1>1, <2>1, DirectionsMeet
  <2>3. k # 0
    BY <1>1, <1>5, <2>1, DirectionsMeet
  <2>4. f[k] = side[d] /\ side[d] \in Nat
    BY <1>1, <1>5, <2>1, <2>2, <2>3
  <2> HIDE DEF f, K
  <2>5. f[k] \in Int
    BY <2>4
  <2> QED BY <1>2, <1>3, <1>5, <2>2, <2>4, <2>5, SingleSums
<1>6. CASE o # <<0, 0>> /\ ~(Ring(o) \in 1..n /\ o \in Star(Ring(o)))
  <2>1. ASSUME NEW k \in (-n)..n, o \in Direction(k) PROVE FALSE
    <3>1. k # 0 /\ o \in Star(MaxOf(k, -k)) /\ MaxOf(k, -k) = Ring(o)
      BY <1>1, <1>6, <2>1, DirectionsMeet
    <3>2. MaxOf(k, -k) \in 1..n
      BY <1>1, <3>1 DEF MaxOf
    <3> QED BY <1>6, <3>1, <3>2
  <2>2. K = {}
    BY <2>1
  <2> HIDE DEF f, K
  <2> QED BY <1>2, <1>3, <1>6, <2>2, SingleSums
<1> QED BY <1>4, <1>5, <1>6

\* The kernel of a named function sums to the weight it is divided by.
LEMMA LowPassSum ==
  ASSUME NEW side \in Sides
  PROVE  /\ Offsets(Len(side)) \in SUBSET (Int \X Int)
         /\ Summable(LowPass(side), Offsets(Len(side)))
         /\ Weight(side) \in Nat /\ SumFunction(LowPass(side)) = Weight(side)
<1> DEFINE n == Len(side)
           D == Offsets(n)
           E == 0..n
           f == LowPass(side)
           p == [o \in D |-> Ring(o)]
           part(e) == [o \in Fibre(p, D, e) |-> f[o]]
           g == [e \in E |-> SumFunction([o \in Fibre(p, D, e) |-> f[o]])]
<1>1. side \in Seq(Nat) /\ n \in Nat
  BY PictureAssumption
<1>2. DOMAIN side = 1..n /\ \A d \in 1..n : side[d] \in Nat
  BY <1>1
<1>3. D \in SUBSET (Int \X Int) /\ IsFiniteSet(D)
  BY <1>1, OffsetsFinite
<1>4. DOMAIN f = D
  BY DEF LowPass
<1>5. ASSUME NEW o \in D
      PROVE  f[o] = IF o = <<0, 0>> THEN 4
                    ELSE IF Ring(o) \in 1..n /\ o \in Star(Ring(o)) THEN side[Ring(o)] ELSE 0
  BY <1>1, LowPassValues
<1>6. Summable(f, D)
  <2>1. \A o \in D : f[o] \in Int
    <3> HIDE DEF f, D, n
    <3> QED BY <1>2, <1>5
  <2> QED BY <1>3, <1>4, <2>1 DEF Summable
<1>7. p \in [D -> E] /\ IsFiniteSet(E)
  <2>1. ASSUME NEW o \in D PROVE Ring(o) \in E
    <3>1. o[1] \in (-n)..n /\ o[2] \in (-n)..n
      BY DEF Offsets
    <3> QED BY <1>1, <3>1 DEF Ring, MaxOf
  <2>2. IsFiniteSet(E)
    BY <1>1, FS_Interval
  <2> HIDE DEF D, E
  <2> QED BY <2>1, <2>2
<1>8. /\ \A e \in E : Summable(part(e), Fibre(p, D, e))
      /\ Summable(g, E) /\ SumFunction(f) = SumFunction(g)
  <2>1. g = [e \in E |-> SumFunction([o \in Fibre(p, D, e) |-> f[o]])]
    OBVIOUS
  <2> HIDE DEF g, f, p, D, E
  <2> QED BY <1>6, <1>7, <2>1, SumFibres
<1>9. g[0] = 4
  <2> DEFINE F == Fibre(p, D, 0)
  <2>1. F = {<<0, 0>>}
    <3>1. \A o \in D : o \in F <=> o = <<0, 0>>
      <4> SUFFICES ASSUME NEW o \in D PROVE o \in F <=> o = <<0, 0>>
        OBVIOUS
      <4>1. o = <<o[1], o[2]>> /\ o[1] \in (-n)..n /\ o[2] \in (-n)..n
        BY DEF Offsets
      <4>2. Ring(o) = 0 <=> o[1] = 0 /\ o[2] = 0
        BY <1>1, <4>1 DEF Ring, MaxOf
      <4>3. o \in F <=> Ring(o) = 0
        BY DEF Fibre
      <4> QED BY <4>1, <4>2, <4>3
    <3>2. <<0, 0>> \in D /\ F \in SUBSET D
      BY <1>1 DEF Offsets, Fibre
    <3> HIDE DEF F, D
    <3> QED BY <3>1, <3>2
  <2>2. <<0, 0>> \in D
    BY <1>1 DEF Offsets
  <2>3. part(0)[<<0, 0>>] = 4 /\ DOMAIN part(0) = F
    <3> HIDE DEF f, D, n
    <3> QED BY <1>5, <2>1, <2>2
  <2>4. g[0] = SumFunction(part(0))
    BY <1>1
  <2> DEFINE k == part(0)
  <2> HIDE DEF F, part, g, k
  <2>5. SumFunction(k) = 4
    BY <2>1, <2>3, SingleSums DEF k
  <2> QED BY <2>4, <2>5 DEF k
<1>10. ASSUME NEW d \in 1..n PROVE g[d] = 8 * side[d]
  <2> DEFINE F == Fibre(p, D, d)
             c == side[d]
             k == part(d)
             T == Star(d)
  <2>1. T \in SUBSET D /\ Cardinality(T) = 8 /\ \A o \in T : Ring(o) = d /\ o # <<0, 0>>
    BY <1>1, StarSize
  <2>2. d # 0 /\ d \in E
    BY <1>1
  <2>3. F \in SUBSET D /\ T \in SUBSET F /\ \A o \in F : Ring(o) = d /\ o # <<0, 0>>
    <3>1. \A o \in D : o \in F <=> Ring(o) = d
      BY DEF Fibre
    <3>2. F \in SUBSET D
      BY DEF Fibre
    <3>3. Ring(<<0, 0>>) = 0
      BY DEF Ring, MaxOf
    <3> HIDE DEF F, D, T
    <3> QED BY <2>1, <2>2, <3>1, <3>2, <3>3
  <2>4. c \in Int /\ c \in Nat
    BY <1>2
  <2>5. DOMAIN k = F /\ \A o \in F : k[o] = IF o \in T THEN c ELSE 0
    <3>1. DOMAIN k = F /\ \A o \in F : k[o] = f[o]
      OBVIOUS
    <3>2. d \in 1..n
      OBVIOUS
    <3> HIDE DEF f, D, n, F, T, k
    <3>3. ASSUME NEW o \in F PROVE k[o] = IF o \in T THEN c ELSE 0
      <4>1. o \in D /\ Ring(o) = d /\ o # <<0, 0>>
        BY <2>3
      <4>2. f[o] = IF o \in Star(d) THEN side[d] ELSE 0
        BY <1>5, <3>2, <4>1
      <4> QED BY <3>1, <4>2 DEF T
    <3> QED BY <3>1, <3>3
  <2>6. IsFiniteSet(F)
    <3> HIDE DEF F, D
    <3> QED BY <1>3, <2>3, FS_Subset
  <2>7. g[d] = SumFunction(k)
    BY <2>2
  <2> HIDE DEF F, k, T, c, g
  <2>8. SumFunction(k) = c * Cardinality(T)
    BY <2>3, <2>4, <2>5, <2>6, SumSupported
  <2>9. c * 8 = 8 * c
    BY <2>4
  <2> QED BY <2>1, <2>7, <2>8, <2>9 DEF c
<1>11. SumFunction(g) = 4 + 8 * SumFunction(side) /\ SumFunction(side) \in Int
  <2> DEFINE N1 == 1..n
             r == [d \in N1 |-> g[d]]
             zero == [d \in N1 |-> 0]
  <2> HIDE DEF g, f, p, D
  <2>1. PICK h : Additive(h, g, E) /\ SumFunction(g) = h[E]
    BY <1>8, PartialSums
  <2>2. N1 \in SUBSET E /\ E \ {0} = N1 /\ 0 \in E
    BY <1>1
  <2>3. h[E] = g[0] + h[N1]
    <3> HIDE DEF E, N1
    <3> QED BY <2>1, <2>2 DEF Additive
  <2>4. Summable(r, N1) /\ SumFunction(r) = h[N1]
    <3>1. r = [d \in N1 |-> g[d]]
      OBVIOUS
    <3> HIDE DEF E, N1, r
    <3> QED BY <1>8, <2>1, <2>2, <3>1, SumRestricted
  <2>5. IsFiniteSet(N1)
    BY <1>1, FS_Interval
  <2>6. Summable(side, N1)
    BY <1>2, <2>5 DEF Summable
  <2>7. Summable(zero, N1) /\ SumFunction(zero) = 0
    <3>1. N1 = DOMAIN zero /\ {} \in SUBSET N1 /\ 0 \in Int
          /\ \A o \in N1 : zero[o] = IF o \in {} THEN 0 ELSE 0
      OBVIOUS
    <3> HIDE DEF zero, N1
    <3>2. /\ Summable(zero, N1) /\ Cardinality({}) \in Nat
          /\ SumFunction(zero) = 0 * Cardinality({})
      BY <2>5, <3>1, SumSupported
    <3> QED BY <3>2
  <2>8. N1 = DOMAIN r /\ \A d \in N1 : r[d] = 8 * side[d] + zero[d]
    <3>1. \A d \in N1 : r[d] = 8 * side[d] /\ side[d] \in Nat /\ zero[d] = 0
      BY <1>2, <1>10
    <3> HIDE DEF zero
    <3> QED BY <3>1
  <2> HIDE DEF N1, r, zero
  <2>9. SumFunction(side) \in Int /\ SumFunction(r) = 8 * SumFunction(side) + SumFunction(zero)
    BY <2>6, <2>7, <2>8, SumLinear
  <2> QED BY <1>9, <2>1, <2>3, <2>4, <2>7, <2>9
<1>12. SumFunction(side) \in Nat
  <2>1. Summable(side, 1..n)
    BY <1>1, <1>2, FS_Interval DEF Summable
  <2> QED BY <2>1, <1>2, SumNatural
<1>13. SumFunction(f) = Weight(side) /\ Weight(side) \in Nat
  <2> HIDE DEF f, g
  <2> QED BY <1>8, <1>11, <1>12 DEF Weight
<1> QED BY <1>3, <1>6, <1>13

\* A kernel that is c in the centre and 0 elsewhere.
LEMMA CentreSum ==
  ASSUME NEW n \in Nat, NEW c \in Int, NEW k,
         k = [o \in Offsets(n) |-> IF o = <<0, 0>> THEN c ELSE 0]
  PROVE  Summable(k, Offsets(n)) /\ SumFunction(k) = c
<1> DEFINE D == Offsets(n)
           T == {<<0, 0>>}
<1>1. T \in SUBSET D
  BY DEF Offsets
<1>2. IsFiniteSet(D)
  BY OffsetsFinite
<1>3. D = DOMAIN k /\ \A o \in D : k[o] = IF o \in T THEN c ELSE 0
  OBVIOUS
<1>4. Cardinality(T) = 1
  BY FS_Singleton
<1> HIDE DEF D, T
<1>5. Summable(k, D) /\ SumFunction(k) = c * Cardinality(T)
  BY <1>1, <1>2, <1>3, SumSupported
<1> QED BY <1>4, <1>5 DEF D

\* The edge kernel of a named function sums to 0, the sharpening one to the weight.
LEMMA FunctionKernelSums ==
  ASSUME NEW side \in Sides, NEW gain \in Gains
  PROVE  /\ Summable(EdgeKernel(side, gain), Offsets(Len(side)))
         /\ SumFunction(EdgeKernel(side, gain)) = 0
         /\ Summable(SharpKernel(side, gain), Offsets(Len(side)))
         /\ SumFunction(SharpKernel(side, gain)) = Weight(side)
<1> DEFINE n == Len(side)
           D == Offsets(n)
           w == Weight(side)
           low == LowPass(side)
           edge == EdgeKernel(side, gain)
           sharp == SharpKernel(side, gain)
           c == gain * w
           m == -gain
           scaled == [o \in D |-> IF o = <<0, 0>> THEN c ELSE 0]
           identity == [o \in D |-> IF o = <<0, 0>> THEN w ELSE 0]
<1>1. gain \in Int /\ m \in Int
  BY PictureAssumption
<1>2. n \in Nat
  BY PictureAssumption
<1>3. Summable(low, D) /\ w \in Nat /\ SumFunction(low) = w
  BY LowPassSum
<1>4. c \in Int /\ w \in Int
  BY <1>1, <1>3
<1>5. \A o \in D : low[o] \in Int
  BY <1>3 DEF Summable
<1>6. DOMAIN edge = D /\ \A o \in D : edge[o] = gain * ((IF o = <<0, 0>> THEN w ELSE 0) - low[o])
  BY DEF EdgeKernel
<1>7. DOMAIN sharp = D /\ \A o \in D : sharp[o] = (IF o = <<0, 0>> THEN w ELSE 0) + edge[o]
  BY DEF SharpKernel
<1>8. \A u, v \in Int : /\ gain * (u - v) = m * v + gain * u /\ gain * 0 = 0
                        /\ m * v \in Int /\ gain * u \in Int /\ m * v = -(gain * v)
  BY <1>1
<1>9. \A o \in D : edge[o] = m * low[o] + scaled[o]
  <2> HIDE DEF edge, low, w, m, D
  <2> SUFFICES ASSUME NEW o \in D PROVE edge[o] = m * low[o] + scaled[o]
    OBVIOUS
  <2>1. low[o] \in Int /\ 0 \in Int
    BY <1>5
  <2>2. CASE o = <<0, 0>>
    <3>1. edge[o] = gain * (w - low[o]) /\ scaled[o] = gain * w
      BY <1>6, <2>2 DEF D
    <3> DEFINE v == low[o]
               s == scaled[o]
    <3>2. v \in Int /\ edge[o] = gain * (w - v) /\ s = gain * w
      BY <2>1, <3>1
    <3> HIDE DEF v, s, scaled
    <3> QED BY <1>4, <1>8, <3>2 DEF v, s
  <2>3. CASE o # <<0, 0>>
    <3>1. edge[o] = gain * (0 - low[o]) /\ scaled[o] = 0
      BY <1>6, <2>3 DEF D
    <3> DEFINE v == low[o]
               s == scaled[o]
    <3>2. v \in Int /\ edge[o] = gain * (0 - v) /\ s = 0
      BY <2>1, <3>1
    <3> HIDE DEF v, s, scaled
    <3>3. gain * (0 - v) = m * v + gain * 0 /\ gain * 0 = 0
      BY <1>8, <2>1, <3>2
    <3> QED BY <3>2, <3>3 DEF v, s
  <2> QED BY <2>2, <2>3
<1>10. Summable(scaled, D) /\ SumFunction(scaled) = c
  <2>1. scaled = [o \in Offsets(n) |-> IF o = <<0, 0>> THEN c ELSE 0]
    OBVIOUS
  <2> HIDE DEF scaled, c, n
  <2> QED BY <1>2, <1>4, <2>1, CentreSum
<1>11. Summable(identity, D) /\ SumFunction(identity) = w
  <2>1. identity = [o \in Offsets(n) |-> IF o = <<0, 0>> THEN w ELSE 0]
    OBVIOUS
  <2> HIDE DEF identity, w, n
  <2> QED BY <1>2, <1>4, <2>1, CentreSum
<1>12. \A o \in D : sharp[o] = 1 * edge[o] + identity[o]
  <2> SUFFICES ASSUME NEW o \in D PROVE sharp[o] = 1 * edge[o] + identity[o]
    OBVIOUS
  <2>1. edge[o] \in Int
    <3>1. low[o] \in Int /\ scaled[o] \in Int
      BY <1>5, <1>10 DEF Summable
    <3> DEFINE v == low[o]
               u == scaled[o]
    <3>2. v \in Int /\ u \in Int /\ edge[o] = m * v + u
      BY <1>9, <3>1
    <3> HIDE DEF v, u, edge, m
    <3>3. m * v \in Int
      BY <1>1, <3>2
    <3> QED BY <3>2, <3>3
  <2>2. identity[o] = (IF o = <<0, 0>> THEN w ELSE 0)
    OBVIOUS
  <2>3. sharp[o] = identity[o] + edge[o] /\ identity[o] \in Int
    <3> HIDE DEF sharp, edge, identity, D, w
    <3> QED BY <1>4, <1>7, <2>2
  <2> DEFINE u == edge[o]
             v == identity[o]
  <2>4. u \in Int /\ v \in Int /\ sharp[o] = v + u
    BY <2>1, <2>3
  <2> HIDE DEF u, v, sharp, edge, identity
  <2>5. v + u = 1 * u + v
    BY <2>4
  <2> QED BY <2>4, <2>5 DEF u, v
<1> HIDE DEF D, low, edge, sharp, scaled, identity, w, m, c
<1>13. Summable(edge, D) /\ SumFunction(edge) = m * SumFunction(low) + SumFunction(scaled)
  BY <1>1, <1>3, <1>6, <1>9, <1>10, SumLinear
<1>14. SumFunction(edge) = 0
  <2>1. m * w = -(gain * w) /\ gain * w \in Int
    BY <1>4, <1>8
  <2> QED BY <1>3, <1>10, <1>13, <2>1 DEF c
<1>15. Summable(sharp, D) /\ SumFunction(sharp) = 1 * SumFunction(edge) + SumFunction(identity)
  BY <1>7, <1>11, <1>12, <1>13, SumLinear
<1>16. SumFunction(sharp) = w
  BY <1>4, <1>11, <1>14, <1>15
<1> QED BY <1>13, <1>14, <1>15, <1>16 DEF D, edge, sharp, w

\* A smoothed or sharpened flat image is flat, its edges are dark.
FlatOutput(operation, out) ==
  \A level \in 0..White :
    Flat(image, level) =>
      \A y \in Rows(image), x \in Columns(image) :
        out.levels[y][x] = IF operation = "edge" THEN 0 ELSE out.scale * level

\* A transform by a kernel that sums to the scale.
LEMMA ScaledTransform ==
  ASSUME image \in Images, NEW kernel, NEW D \in SUBSET (Int \X Int), Summable(kernel, D),
         NEW scale \in Nat, SumFunction(kernel) = scale, NEW operation, operation # "edge"
  PROVE  FlatOutput(operation, Transformed(kernel, scale))
<1> SUFFICES ASSUME NEW level \in 0..White, Flat(image, level),
                    NEW y \in Rows(image), NEW x \in Columns(image)
             PROVE  Transformed(kernel, scale).levels[y][x] = Transformed(kernel, scale).scale * level
  BY DEF FlatOutput
<1>1. White \in Nat
  BY PictureShape
<1>2. /\ Transformed(kernel, scale).scale = scale
      /\ Transformed(kernel, scale).levels[y][x] = level * SumFunction(kernel)
  BY FlatTransformed
<1>3. level * scale = scale * level
  BY <1>1
<1> QED BY <1>2, <1>3

\* A transform by a kernel that sums to 0.
LEMMA DarkTransform ==
  ASSUME image \in Images, NEW kernel, NEW D \in SUBSET (Int \X Int), Summable(kernel, D),
         NEW scale \in Nat, SumFunction(kernel) = 0
  PROVE  FlatOutput("edge", Transformed(kernel, scale))
<1> SUFFICES ASSUME NEW level \in 0..White, Flat(image, level),
                    NEW y \in Rows(image), NEW x \in Columns(image)
             PROVE  Transformed(kernel, scale).levels[y][x] = 0
  BY DEF FlatOutput
<1>1. White \in Nat
  BY PictureShape
<1>2. Transformed(kernel, scale).levels[y][x] = level * SumFunction(kernel)
  BY FlatTransformed
<1>3. level * 0 = 0
  BY <1>1
<1> QED BY <1>2, <1>3

\* The outputs of the three transforms.
LEMMA TransformsFlat ==
  ASSUME image \in Images
  PROVE  /\ \A out \in Smoothed : FlatOutput("smooth", out)
         /\ \A out \in Edges : FlatOutput("edge", out)
         /\ \A out \in Sharpened : FlatOutput("sharpen", out)
<1>1. ASSUME NEW taps \in Taps PROVE FlatOutput("smooth", Transformed(Ones(taps), taps * taps))
  <2>1. PICK D \in SUBSET (Int \X Int) : /\ Summable(Ones(taps), D) /\ taps * taps \in Nat
                                         /\ SumFunction(Ones(taps)) = taps * taps
    BY OnesSum
  <2> QED BY <2>1, ScaledTransform
<1>2. ASSUME NEW side \in Sides PROVE FlatOutput("smooth", Transformed(LowPass(side), Weight(side)))
  BY LowPassSum, ScaledTransform
<1>3. ASSUME NEW side \in Sides, NEW gain \in Gains
      PROVE  /\ FlatOutput("edge", Transformed(EdgeKernel(side, gain), Weight(side)))
             /\ FlatOutput("sharpen", Transformed(SharpKernel(side, gain), Weight(side)))
  <2>1. Offsets(Len(side)) \in SUBSET (Int \X Int) /\ Weight(side) \in Nat
    BY LowPassSum
  <2> QED BY <2>1, FunctionKernelSums, ScaledTransform, DarkTransform
<1>4. ASSUME NEW gain \in Gains PROVE FlatOutput("sharpen", Transformed(Sharpening(gain), 1))
  <2>1. PICK D \in SUBSET (Int \X Int) :
          Summable(Sharpening(gain), D) /\ SumFunction(Sharpening(gain)) = 1
    BY SharpeningSum
  <2> QED BY <2>1, ScaledTransform
<1> QED BY <1>1, <1>2, <1>3, <1>4 DEF Smoothed, Edges, Sharpened

-----------------------------------------------------------------------------
(* The image laboratory, of which the invariant says how far the integral   *)
(* image has been accumulated.                                              *)

\* The filter works on an image, a window and as much of the integral image as
\* its program counter says; what the laboratory has computed is exact.
ImageInv ==
  /\ ipc \in {"called", "columns", "rows"} => image \in Images
  /\ ipc \in {"columns", "rows"} => window \in Windows
  /\ ipc = "columns" => integral = CumulatedColumns(image)
  /\ ipc = "rows" => integral = CumulatedRows(CumulatedColumns(image))
  /\ ImageArithmeticExact

\* An image that is called with has not been filtered.
LEMMA InitPicture == Init => ImageInv
<1> SUFFICES ASSUME Init PROVE ImageInv
  OBVIOUS
<1>1. ipc \in {"idle", "called"} /\ (ipc = "called" => image \in Images)
  BY DEF Init, ImageIdle, ImageInit
<1>2. ipc \notin {"columns", "rows", "filtered", "smooth", "edge", "sharpen"}
  BY <1>1
<1> QED BY <1>1, <1>2 DEF ImageInv, ImageArithmeticExact

\* The window means are sums over the windows.
LEMMA FilterKnows ==
  ASSUME ImageInv, Filter
  PROVE  ImageInv'
<1>1. /\ ipc' = "filtered" /\ image' = image /\ window' = window
      /\ image \in Images /\ window \in Windows
      /\ integral = CumulatedRows(CumulatedColumns(image))
      /\ output' = [y \in Rows(image) |-> [x \in Columns(image) |-> WindowTotal(y, x)]]
  BY DEF Filter, ImageInv
<1>2. ASSUME NEW y \in Rows(image), NEW x \in Columns(image)
      PROVE  output'[y][x] = SumFunction([p \in Window(image, window, y, x) |-> image[p[1]][p[2]]])
  BY <1>1, WindowsSum
<1>3. ImageArithmeticExact'
  BY <1>1, <1>2 DEF ImageArithmeticExact, Window, Rows, Columns, Height, Width
<1> QED BY <1>1, <1>3 DEF ImageInv

\* A transform keeps flat images flat and makes their edges dark.
LEMMA TransformKnows ==
  ASSUME ImageInv, NEW operation \in {"smooth", "edge", "sharpen"}, NEW outputs,
         Transform(operation, outputs), image \in Images =>
           \A out \in outputs : FlatOutput(operation, out)
  PROVE  ImageInv'
<1>1. /\ ipc = "called" /\ ipc' = operation /\ image' = image /\ output' \in outputs
      /\ image \in Images
  BY DEF Transform, ImageInv
<1>2. FlatOutput(operation, output')
  BY <1>1
<1>3. ImageArithmeticExact'
  BY <1>1, <1>2 DEF ImageArithmeticExact, FlatOutput, Flat, Rows, Columns, Height, Width
<1> QED BY <1>1, <1>3 DEF ImageInv

\* Every step keeps the invariant of the image laboratory.
LEMMA StepPicture == ImageInv /\ [Next]_evidenceVars => ImageInv'
<1> SUFFICES ASSUME ImageInv, [Next]_evidenceVars PROVE ImageInv'
  OBVIOUS
<1>1. CASE UNCHANGED imageVars
  <2>1. /\ ipc' = ipc /\ image' = image /\ window' = window /\ integral' = integral
        /\ output' = output
    BY <1>1 DEF imageVars
  <2>2. /\ CumulatedColumns(image)' = CumulatedColumns(image)
        /\ CumulatedRows(CumulatedColumns(image))' = CumulatedRows(CumulatedColumns(image))
    BY <2>1
  <2>3. ImageArithmeticExact'
    <3>1. ImageArithmeticExact
      BY DEF ImageInv
    <3> QED BY <2>1, <3>1 DEF ImageArithmeticExact
  <2> QED BY <2>1, <2>2, <2>3 DEF ImageInv
<1>2. CASE ImageStep
  <2>1. CASE StartFilter
    <3>1. /\ ipc = "called" /\ ipc' = "columns" /\ image' = image /\ window' \in Windows
          /\ integral' = CumulatedColumns(image) /\ image \in Images
      BY <2>1 DEF StartFilter, ImageInv
    <3>2. CumulatedColumns(image)' = CumulatedColumns(image)
      BY <3>1
    <3>3. ImageArithmeticExact'
      BY <3>1 DEF ImageArithmeticExact
    <3> QED BY <3>1, <3>2, <3>3 DEF ImageInv
  <2>2. CASE AccumulateRows
    <3>1. /\ ipc = "columns" /\ ipc' = "rows" /\ image' = image /\ window' = window
          /\ integral' = CumulatedRows(integral) /\ integral = CumulatedColumns(image)
          /\ image \in Images /\ window \in Windows
      BY <2>2 DEF AccumulateRows, ImageInv
    <3>2. CumulatedRows(CumulatedColumns(image))' = CumulatedRows(CumulatedColumns(image))
      BY <3>1
    <3>3. ImageArithmeticExact'
      BY <3>1 DEF ImageArithmeticExact
    <3> QED BY <3>1, <3>2, <3>3 DEF ImageInv
  <2>3. CASE Filter
    BY <2>3, FilterKnows
  <2>4. CASE Transform("smooth", Smoothed)
    BY <2>4, TransformKnows, TransformsFlat
  <2>5. CASE Transform("edge", Edges)
    BY <2>5, TransformKnows, TransformsFlat
  <2>6. CASE Transform("sharpen", Sharpened)
    BY <2>6, TransformKnows, TransformsFlat
  <2>7. CASE RecordMetrics
    <3>1. ipc' = "done"
      BY <2>7 DEF RecordMetrics
    <3> QED BY <3>1 DEF ImageInv, ImageArithmeticExact
  <2> QED BY <1>2, <2>1, <2>2, <2>3, <2>4, <2>5, <2>6, <2>7 DEF ImageStep
<1>3. UNCHANGED imageVars \/ ImageStep
  BY DEF Next, evidenceVars, operationVars
<1> QED BY <1>1, <1>2, <1>3

\* For every image of every size, window, kernel, coefficients and gain: the
\* integral image gives the sums over the windows, and the transforms keep flat
\* images flat and their edges dark (image.py 82-103, 170-207, 363-415).
THEOREM ImageExact == Spec => []ImageArithmeticExact
<1>1. Init => ImageInv
  BY InitPicture
<1>2. ImageInv /\ [Next]_evidenceVars => ImageInv'
  BY StepPicture
<1>3. ImageInv => ImageArithmeticExact
  BY DEF ImageInv
<1> QED BY <1>1, <1>2, <1>3, PTL DEF Spec

-----------------------------------------------------------------------------
(* The S-box laboratory: bytes and their bits. *)

\* x >> b
Shifted(x, b) == x \div 2^b

\* A shift by one more place halves.
LEMMA Shifts ==
  ASSUME NEW x \in Nat
  PROVE  /\ Shifted(x, 0) = x
         /\ \A b \in Nat : Shifted(x, b) \in Nat /\ Shifted(x, b + 1) = Shifted(x, b) \div 2
<1>1. Shifted(x, 0) = x
  BY PowerOfZero DEF Shifted
<1>2. ASSUME NEW b \in Nat
      PROVE  Shifted(x, b) \in Nat /\ Shifted(x, b + 1) = Shifted(x, b) \div 2
  <2> DEFINE p == 2^b
             r == 2^(b + 1)
  <2>1. p \in Nat \ {0} /\ r = 2 * p
    BY PowersOfTwo
  <2>2. Shifted(x, b) = x \div p /\ Shifted(x, b + 1) = x \div r
    BY DEF Shifted
  <2> HIDE DEF p, r
  <2>3. x \div p \in Nat
    BY <2>1
  <2> QED BY <2>1, <2>2, <2>3, QuotientHalved
<1> QED BY <1>1, <1>2

\* Bytes are the numbers of which nothing is left after NBits places.
LEMMA ByteShifts ==
  ASSUME NEW x \in Nat
  PROVE  x \in Byte <=> Shifted(x, NBits) = 0
<1>1. N \in Nat \ {0} /\ Shifted(x, NBits) = x \div N
  BY SizeAssumption DEF Shifted
<1>2. x \in Byte <=> x < N
  BY <1>1 DEF Byte
<1>3. x < N => x \div N = 0
  <2>1. 0 \in Nat /\ N * 0 = 0
    BY <1>1
  <2> QED BY <1>1, <2>1, QuotientUnique
<1>4. x \div N = 0 => x < N
  <2>1. x \div N \in Int /\ x < N * (x \div N) + N /\ N * 0 = 0
    BY <1>1
  <2> QED BY <1>1, <2>1
<1> QED BY <1>1, <1>2, <1>3, <1>4

\* The bits of a byte.
LEMMA BitsRead ==
  ASSUME NEW x \in Byte
  PROVE  /\ x \in Nat /\ BitsOf[x] \in SUBSET Bit
         /\ \A b \in Bit : b \in BitsOf[x] <=> Shifted(x, b) % 2 = 1
<1>1. x \in Nat
  BY SizeAssumption DEF Byte
<1>2. BitsOf[x] = {b \in Bit : (x \div 2^b) % 2 = 1}
  BY DEF BitsOf
<1> QED BY <1>1, <1>2 DEF Shifted

\* Bytes of the same bits are the same.
LEMMA BitsDetermine ==
  ASSUME NEW x \in Byte, NEW y \in Byte, BitsOf[x] = BitsOf[y]
  PROVE  x = y
<1> DEFINE Bad == {j \in 0..NBits : Shifted(x, NBits - j) # Shifted(y, NBits - j)}
<1>1. NBits \in Nat \ {0} /\ x \in Nat /\ y \in Nat
  BY SizeAssumption, BitsRead
<1>2. Shifted(x, 0) = x /\ Shifted(y, 0) = y
  BY <1>1, Shifts
<1>3. Bad = {}
  <2> SUFFICES ASSUME Bad # {} PROVE FALSE
    OBVIOUS
  <2>1. PICK m \in Bad : \A k \in Bad : m <= k
    <3>1. Bad \in SUBSET Nat
      BY <1>1
    <3> HIDE DEF Bad
    <3> QED BY <3>1, LeastNatural
  <2>2. m \in 0..NBits /\ Shifted(x, NBits - m) # Shifted(y, NBits - m)
    OBVIOUS
  <2>3. m # 0
    <3>1. Shifted(x, NBits) = 0 /\ Shifted(y, NBits) = 0
      BY <1>1, ByteShifts
    <3> HIDE DEF Bad
    <3> QED BY <1>1, <2>2, <3>1
  <2> DEFINE b == NBits - m
             j == m - 1
  <2>4. b \in Bit /\ b \in Nat /\ b + 1 = NBits - j /\ j \in 0..NBits /\ ~(m <= j)
    BY <1>1, <2>2, <2>3 DEF Bit
  <2>5. Shifted(x, b + 1) = Shifted(y, b + 1)
    <3>1. j \notin Bad
      <4> HIDE DEF Bad, j
      <4> QED BY <2>1, <2>4
    <3> HIDE DEF b, j
    <3> QED BY <2>4, <3>1
  <2> HIDE DEF b, j, Bad
  <2> DEFINE u == Shifted(x, b)
             v == Shifted(y, b)
  <2>6. u \in Nat /\ v \in Nat /\ u \div 2 = v \div 2
    BY <1>1, <2>4, <2>5, Shifts
  <2>7. u % 2 = 1 <=> v % 2 = 1
    BY <2>4, BitsRead
  <2> HIDE DEF u, v
  <2>8. u = v
    BY <2>6, <2>7
  <2> QED BY <2>2, <2>8 DEF u, v, b
<1>4. x = y
  <2>1. NBits \in 0..NBits /\ NBits - NBits = 0
    BY <1>1
  <2>2. ~(Shifted(x, NBits - NBits) # Shifted(y, NBits - NBits))
    BY <1>3, <2>1
  <2> QED BY <1>2, <2>1, <2>2
<1> QED BY <1>4

\* Adding the value of a bit that is not set sets it and nothing else.
LEMMA BitAdded ==
  ASSUME NEW x \in Byte, NEW k \in Bit, k \notin BitsOf[x]
  PROVE  x + 2^k \in Byte /\ BitsOf[x + 2^k] = BitsOf[x] \cup {k}
<1> DEFINE z == x + 2^k
           Low == {b \in 0..k : Shifted(z, b) # Shifted(x, b) + 2^(k - b)}
           High == {b \in (k + 1)..NBits : Shifted(z, b) # Shifted(x, b)}
<1>1. NBits \in Nat \ {0} /\ x \in Nat /\ k \in Nat /\ k \in 0..(NBits - 1)
      /\ Shifted(x, k) % 2 # 1
  BY SizeAssumption, BitsRead DEF Bit
<1>2. z \in Nat
  <2>1. 2^k \in Nat
    BY <1>1, PowersOfTwo
  <2> QED BY <1>1, <2>1
<1>3. \A b \in Nat : /\ Shifted(x, b) \in Nat /\ Shifted(x, b + 1) = Shifted(x, b) \div 2
                     /\ Shifted(z, b) \in Nat /\ Shifted(z, b + 1) = Shifted(z, b) \div 2
  <2> HIDE DEF z
  <2> QED BY <1>1, <1>2, Shifts
<1>4. Low = {}
  <2> SUFFICES ASSUME Low # {} PROVE FALSE
    OBVIOUS
  <2>1. PICK m \in Low : \A b \in Low : m <= b
    <3>1. Low \in SUBSET Nat
      BY <1>1
    <3> HIDE DEF Low
    <3> QED BY <3>1, LeastNatural
  <2>2. m \in 0..k /\ Shifted(z, m) # Shifted(x, m) + 2^(k - m)
    OBVIOUS
  <2>3. m # 0
    <3>1. Shifted(z, 0) = z /\ Shifted(x, 0) = x
      <4> HIDE DEF z
      <4> QED BY <1>1, <1>2, Shifts
    <3>2. k - 0 = k
      BY <1>1
    <3> QED BY <2>2, <3>1, <3>2
  <2> DEFINE c == m - 1
             p == 2^(k - m)
             u == Shifted(x, c)
             v == Shifted(z, c)
  <2>4. c \in Nat /\ c \in 0..k /\ c + 1 = m /\ k - c = (k - m) + 1 /\ k - m \in Nat /\ ~(m <= c)
    BY <1>1, <2>2, <2>3
  <2>5. p \in Nat /\ 2^(k - c) = 2 * p
    BY <2>4, PowersOfTwo
  <2>6. v = u + 2 * p
    <3>1. c \notin Low
      <4> HIDE DEF Low, c
      <4> QED BY <2>1, <2>4
    <3> HIDE DEF c, p, z
    <3> QED BY <2>4, <2>5, <3>1
  <2>7. /\ u \in Nat /\ v \in Nat
        /\ Shifted(x, m) = u \div 2 /\ Shifted(z, m) = v \div 2
    <3> HIDE DEF c, z
    <3> QED BY <1>3, <2>4
  <2>8. Shifted(z, m) # Shifted(x, m) + p
    BY <2>2
  <2> HIDE DEF c, p, u, v, z
  <2>9. (u + 2 * p) \div 2 = u \div 2 + p
    BY <2>5, <2>7
  <2> QED BY <2>6, <2>7, <2>8, <2>9
<1>5. \A b \in 0..k : Shifted(z, b) = Shifted(x, b) + 2^(k - b)
  BY <1>4
<1>6. Shifted(z, k) = Shifted(x, k) + 1
  <2>1. k \in 0..k /\ k - k = 0
    BY <1>1
  <2> HIDE DEF z
  <2> QED BY <1>5, <2>1, PowerOfZero
<1>7. High = {}
  <2> SUFFICES ASSUME High # {} PROVE FALSE
    OBVIOUS
  <2>1. PICK m \in High : \A b \in High : m <= b
    <3>1. High \in SUBSET Nat
      BY <1>1
    <3> HIDE DEF High
    <3> QED BY <3>1, LeastNatural
  <2>2. m \in (k + 1)..NBits /\ Shifted(z, m) # Shifted(x, m)
    OBVIOUS
  <2> DEFINE c == m - 1
             u == Shifted(x, c)
             v == Shifted(z, c)
  <2>3. c \in Nat /\ c + 1 = m /\ ~(m <= c) /\ (c = k \/ c \in (k + 1)..NBits)
    BY <1>1, <2>2
  <2>4. /\ u \in Nat /\ v \in Nat
        /\ Shifted(x, m) = u \div 2 /\ Shifted(z, m) = v \div 2
    <3> HIDE DEF c, z
    <3> QED BY <1>3, <2>3
  <2>5. v = u \/ (v = u + 1 /\ u % 2 # 1)
    <3>1. CASE c = k
      <4> HIDE DEF c, z
      <4> QED BY <1>1, <1>6, <3>1
    <3>2. CASE c \in (k + 1)..NBits
      <4>1. c \notin High
        <5> HIDE DEF High, c
        <5> QED BY <2>1, <2>3
      <4> HIDE DEF c, z
      <4> QED BY <3>2, <4>1
    <3> QED BY <2>3, <3>1, <3>2
  <2>6. u \div 2 # v \div 2
    BY <2>2, <2>4
  <2> HIDE DEF c, u, v, z
  <2> QED BY <2>4, <2>5, <2>6
<1>8. \A b \in (k + 1)..NBits : Shifted(z, b) = Shifted(x, b)
  BY <1>7
<1> HIDE DEF z, Low, High
<1>9. z \in Byte
  <2>1. NBits \in (k + 1)..NBits
    BY <1>1
  <2>2. Shifted(x, NBits) = 0
    BY <1>1, ByteShifts
  <2> QED BY <1>2, <1>8, <2>1, <2>2, ByteShifts
<1>10. ASSUME NEW b \in Bit PROVE b \in BitsOf[z] <=> b \in BitsOf[x] \/ b = k
  <2> DEFINE u == Shifted(x, b)
             v == Shifted(z, b)
  <2>1. b \in 0..(NBits - 1) /\ b \in Nat
    BY <1>1 DEF Bit
  <2>2. u \in Nat /\ v \in Nat
    BY <1>3, <2>1
  <2>3. (b \in BitsOf[x] <=> u % 2 = 1) /\ (b \in BitsOf[z] <=> v % 2 = 1)
    BY <1>9, BitsRead
  <2>4. CASE b = k
    <3>1. v = u + 1 /\ u % 2 # 1
      BY <1>1, <1>6, <2>4
    <3> HIDE DEF u, v
    <3>2. v % 2 = 1
      BY <2>2, <3>1
    <3> QED BY <2>3, <2>4, <3>2
  <2>5. CASE b > k
    <3>1. u = v
      BY <1>1, <1>8, <2>1, <2>5
    <3> QED BY <1>1, <2>1, <2>3, <2>5, <3>1
  <2>6. CASE b < k
    <3> DEFINE p == 2^(k - (b + 1))
    <3>1. p \in Nat /\ 2^(k - b) = 2 * p
      <4>1. k - (b + 1) \in Nat /\ (k - (b + 1)) + 1 = k - b
        BY <1>1, <2>1, <2>6
      <4> QED BY <4>1, PowersOfTwo
    <3>2. v = u + 2 * p
      <4>1. b \in 0..k
        BY <1>1, <2>1, <2>6
      <4> HIDE DEF p
      <4> QED BY <1>5, <3>1, <4>1
    <3> HIDE DEF p, u, v
    <3>3. v % 2 = u % 2
      BY <2>2, <3>1, <3>2
    <3> QED BY <1>1, <2>1, <2>3, <2>6, <3>3
  <2> QED BY <1>1, <2>1, <2>4, <2>5, <2>6
<1>11. BitsOf[z] = BitsOf[x] \cup {k}
  <2>1. BitsOf[z] \in SUBSET Bit /\ BitsOf[x] \in SUBSET Bit
    BY <1>9, BitsRead
  <2> QED BY <1>10, <2>1
<1> QED BY <1>9, <1>11 DEF z

\* Zero has no bits.
LEMMA NoBits == 0 \in Byte /\ BitsOf[0] = {}
<1>1. 0 \in Byte
  BY SizeAssumption DEF Byte
<1>2. ASSUME NEW b \in Bit PROVE b \notin BitsOf[0]
  <2> DEFINE p == 2^b
  <2>1. p \in Nat \ {0}
    BY SizeAssumption, PowersOfTwo DEF Bit
  <2>2. Shifted(0, b) = 0 \div p
    BY DEF Shifted
  <2> HIDE DEF p
  <2>3. 0 \div p = 0
    <3>1. p * 0 = 0
      BY <2>1
    <3> QED BY <2>1, <3>1, QuotientUnique
  <2> QED BY <1>1, <2>2, <2>3, BitsRead
<1> QED BY <1>1, <1>2, BitsRead

\* The bits are finitely many.
LEMMA BitFinite == IsFiniteSet(Bit)
<1>1. 0 \in Int /\ NBits - 1 \in Int
  BY SizeAssumption
<1> QED BY <1>1, FS_Interval DEF Bit

\* Every set of bits is that of a byte.
LEMMA BitsReach ==
  ASSUME NEW s \in SUBSET Bit
  PROVE  \E x \in Byte : BitsOf[x] = s
<1> DEFINE P == SUBSET Bit
           Reached(u) == \E x \in Byte : BitsOf[x] = u
           Bad == {Cardinality(u) : u \in {v \in P : ~Reached(v)}}
<1>1. /\ {} \in P
      /\ \A u \in P : /\ Cardinality(u) \in 0..Cardinality(Bit)
                      /\ Cardinality(u) = 0 => u = {}
                      /\ \A k \in u : /\ u \ {k} \in P
                                      /\ Cardinality(u \ {k}) = Cardinality(u) - 1
  BY BitFinite, SubsetSizes
<1>2. Cardinality(Bit) \in Nat
  BY BitFinite, FS_CardinalityType
<1>3. Bad = {}
  <2> SUFFICES ASSUME Bad # {} PROVE FALSE
    OBVIOUS
  <2>1. Bad \in SUBSET Nat
    <3> HIDE DEF Reached, P
    <3> QED BY <1>1, <1>2
  <2>2. PICK m \in Bad : \A j \in Bad : m <= j
    <3> HIDE DEF Bad
    <3> QED BY <2>1, LeastNatural
  <2>3. PICK u \in P : ~Reached(u) /\ Cardinality(u) = m
    <3> HIDE DEF Reached, P
    <3> QED OBVIOUS
  <2>4. Reached({})
    BY NoBits
  <2>5. PICK k \in u : TRUE
    BY <2>3, <2>4
  <2>6. u \ {k} \in P /\ Cardinality(u \ {k}) = m - 1 /\ m \in Nat
    BY <1>1, <1>2, <2>3
  <2>7. ~(m - 1 \in Bad)
    <3> HIDE DEF Bad
    <3> QED BY <2>2, <2>6
  <2>8. Reached(u \ {k})
    <3> HIDE DEF Reached, P
    <3> QED BY <2>6, <2>7
  <2>9. PICK x \in Byte : BitsOf[x] = u \ {k}
    BY <2>8
  <2>10. k \in Bit /\ k \notin BitsOf[x] /\ (u \ {k}) \cup {k} = u
    BY <2>5, <2>9
  <2>11. x + 2^k \in Byte /\ BitsOf[x + 2^k] = u
    BY <2>9, <2>10, BitAdded
  <2> QED BY <2>3, <2>11
<1>4. Reached(s)
  <2> HIDE DEF Reached
  <2> QED BY <1>3
<1> QED BY <1>4

\* Taking the value of a bit that is set away clears it.
LEMMA BitTaken ==
  ASSUME NEW x \in Byte, NEW k \in Bit, k \in BitsOf[x]
  PROVE  x - 2^k \in Byte /\ BitsOf[x - 2^k] = BitsOf[x] \ {k}
<1>1. BitsOf[x] \in SUBSET Bit /\ BitsOf[x] \ {k} \in SUBSET Bit
  BY BitsRead
<1>2. PICK y \in Byte : BitsOf[y] = BitsOf[x] \ {k}
  BY <1>1, BitsReach
<1>3. y + 2^k \in Byte /\ BitsOf[y + 2^k] = BitsOf[x]
  <2>1. k \notin BitsOf[y] /\ BitsOf[y] \cup {k} = BitsOf[x]
    BY <1>2
  <2> QED BY <2>1, BitAdded
<1>4. y + 2^k = x
  BY <1>3, BitsDetermine
<1>5. x - 2^k = y
  <2> DEFINE p == 2^k
  <2>1. p \in Nat /\ y \in Nat /\ y + p = x
    BY <1>4, BitsRead, PowersOfTwo, SizeAssumption DEF Bit
  <2> HIDE DEF p
  <2>2. x - p = y
    BY <2>1
  <2> QED BY <2>2 DEF p
<1> QED BY <1>2, <1>5

-----------------------------------------------------------------------------
(* The S-box laboratory: the transform in place. *)

\* The byte of a set of bits.
LEMMA FromBitsInverse ==
  ASSUME NEW s \in SUBSET Bit
  PROVE  FromBits[s] \in Byte /\ BitsOf[FromBits[s]] = s
<1>1. \E a \in Byte : BitsOf[a] = s
  BY BitsReach
<1>2. FromBits[s] = CHOOSE a \in Byte : BitsOf[a] = s
  BY DEF FromBits
<1> QED BY <1>1, <1>2

\* Exclusive or takes the difference of the bits.
LEMMA XorBits ==
  ASSUME NEW a \in Byte, NEW b \in Byte
  PROVE  Xor[a][b] \in Byte /\ BitsOf[Xor[a][b]] = SymDiff(BitsOf[a], BitsOf[b])
<1>1. SymDiff(BitsOf[a], BitsOf[b]) \in SUBSET Bit
  <2> DEFINE A == BitsOf[a]
             B == BitsOf[b]
  <2>1. A \in SUBSET Bit /\ B \in SUBSET Bit
    BY BitsRead
  <2> HIDE DEF A, B
  <2>2. (A \ B) \cup (B \ A) \in SUBSET Bit
    BY <2>1
  <2> QED BY <2>2 DEF SymDiff, A, B
<1>2. Xor[a][b] = FromBits[SymDiff(BitsOf[a], BitsOf[b])]
  BY DEF Xor
<1> QED BY <1>1, <1>2, FromBitsInverse

\* Equal bytes have no difference, and a difference leads from one byte to the other.
LEMMA XorDiffers ==
  ASSUME NEW a \in Byte, NEW b \in Byte
  PROVE  /\ Xor[a][b] = 0 <=> a = b
         /\ Xor[a][Xor[a][b]] = b
         /\ Xor[a][b] = a <=> b = 0
<1> DEFINE c == Xor[a][b]
           e == Xor[a][c]
<1>1. c \in Byte /\ BitsOf[c] = SymDiff(BitsOf[a], BitsOf[b])
  BY XorBits
<1> HIDE DEF c
<1>2. e \in Byte /\ BitsOf[e] = SymDiff(BitsOf[a], BitsOf[c])
  BY <1>1, XorBits
<1> HIDE DEF e
<1>3. 0 \in Byte /\ BitsOf[0] = {}
  BY NoBits
<1>4. c = 0 <=> a = b
  <2>1. c = 0 => BitsOf[a] = BitsOf[b]
    BY <1>1, <1>3 DEF SymDiff
  <2>2. BitsOf[a] = BitsOf[b] => BitsOf[c] = BitsOf[0]
    BY <1>1, <1>3 DEF SymDiff
  <2> QED BY <1>1, <1>3, <2>1, <2>2, BitsDetermine
<1>5. e = b
  <2>1. BitsOf[e] = BitsOf[b]
    BY <1>1, <1>2 DEF SymDiff
  <2> QED BY <1>2, <2>1, BitsDetermine
<1>6. c = a <=> b = 0
  <2>1. c = a => BitsOf[b] = BitsOf[0]
    BY <1>1, <1>3 DEF SymDiff
  <2>2. b = 0 => BitsOf[c] = BitsOf[a]
    BY <1>1, <1>3 DEF SymDiff
  <2> QED BY <1>1, <1>3, <2>1, <2>2, BitsDetermine
<1> QED BY <1>4, <1>5, <1>6 DEF c, e

-----------------------------------------------------------------------------
(* The transform.  After k rounds an entry sums the entries that agree with it *)
(* in the bits from k on, with the sign the bits below k give.                  *)

Low(k) == 0..(k - 1)
SameAbove(k, x, y) == BitsOf[x] \ Low(k) = BitsOf[y] \ Low(k)
SignOf(k, x, y) == 1 - 2 * (Cardinality(BitsOf[x] \cap BitsOf[y] \cap Low(k)) % 2)
Term(f, k, x) == [y \in Byte |-> IF SameAbove(k, x, y) THEN f[y] * SignOf(k, x, y) ELSE 0]
Partly(f, k, x) == SumFunction(Term(f, k, x))

\* A sign is 1 or -1.
LEMMA SignKnown ==
  ASSUME NEW x \in Byte, NEW y \in Byte, NEW k
  PROVE  /\ Cardinality(BitsOf[x] \cap BitsOf[y] \cap Low(k)) \in Nat
         /\ IsFiniteSet(BitsOf[x] \cap BitsOf[y] \cap Low(k))
         /\ SignOf(k, x, y) \in {1, -1}
<1> DEFINE c == Cardinality(BitsOf[x] \cap BitsOf[y] \cap Low(k))
<1>1. BitsOf[x] \cap BitsOf[y] \cap Low(k) \in SUBSET Bit
  BY BitsRead
<1>2. IsFiniteSet(BitsOf[x] \cap BitsOf[y] \cap Low(k)) /\ c \in Nat
  BY <1>1, BitFinite, FS_Subset, FS_CardinalityType
<1>3. SignOf(k, x, y) = 1 - 2 * (c % 2)
  BY DEF SignOf
<1> HIDE DEF c
<1>4. 1 - 2 * (c % 2) \in {1, -1}
  BY <1>2
<1> QED BY <1>2, <1>3, <1>4 DEF c

\* The terms can be summed.
LEMMA TermsSummable ==
  ASSUME NEW f \in [Byte -> Int], NEW k, NEW x \in Byte
  PROVE  Summable(Term(f, k, x), Byte)
<1>1. IsFiniteSet(Byte)
  BY SizeAssumption, FS_Interval DEF Byte
<1>2. ASSUME NEW y \in Byte PROVE Term(f, k, x)[y] \in Int
  <2> DEFINE s == SignOf(k, x, y)
             v == f[y]
  <2>1. s \in {1, -1} /\ v \in Int
    BY SignKnown
  <2>2. Term(f, k, x)[y] = v * s \/ Term(f, k, x)[y] = 0
    BY DEF Term
  <2> HIDE DEF s, v
  <2>3. v * s \in Int
    BY <2>1
  <2> QED BY <2>2, <2>3
<1> QED BY <1>1, <1>2 DEF Summable, Term

\* Before the first round.
LEMMA TransformStarts ==
  ASSUME NEW f \in [Byte -> Int], NEW x \in Byte
  PROVE  Partly(f, 0, x) = f[x]
<1> DEFINE c == f[x]
           T == {x}
           g == Term(f, 0, x)
<1>1. IsFiniteSet(Byte) /\ T \in SUBSET Byte /\ c \in Int /\ Cardinality(T) = 1
  <2>1. IsFiniteSet(Byte)
    BY SizeAssumption, FS_Interval DEF Byte
  <2>2. Cardinality(T) = 1
    BY FS_Singleton
  <2> QED BY <2>1, <2>2
<1>2. Low(0) = {}
  BY DEF Low
<1>3. ASSUME NEW y \in Byte PROVE g[y] = IF y \in T THEN c ELSE 0
  <2>1. SameAbove(0, x, y) <=> y = x
    BY <1>2, BitsDetermine DEF SameAbove
  <2>2. SignOf(0, x, y) = 1
    <3>1. Cardinality(BitsOf[x] \cap BitsOf[y] \cap Low(0)) = 0
      BY <1>2, FS_EmptySet
    <3> QED BY <3>1 DEF SignOf
  <2>3. g[y] = IF SameAbove(0, x, y) THEN f[y] * 1 ELSE 0
    BY <2>2 DEF Term
  <2>4. c * 1 = c
    <3> HIDE DEF c
    <3> QED BY <1>1
  <2> QED BY <2>1, <2>3, <2>4
<1>4. DOMAIN g = Byte
  BY DEF Term
<1> HIDE DEF g, c, T
<1>5. SumFunction(g) = c * Cardinality(T)
  BY <1>1, <1>3, <1>4, SumSupported
<1>6. c * 1 = c
  BY <1>1
<1> QED BY <1>1, <1>5, <1>6 DEF Partly, g, c

\* After the last one.
LEMMA TransformEnds ==
  ASSUME NEW f \in [Byte -> Int], NEW x \in Byte
  PROVE  Partly(f, NBits, x) = SumFunction([y \in Byte |-> f[y] * (1 - 2 * Parity[x][y])])
<1>1. Low(NBits) = Bit
  BY DEF Low, Bit
<1>2. ASSUME NEW y \in Byte PROVE SameAbove(NBits, x, y) /\ SignOf(NBits, x, y) = 1 - 2 * Parity[x][y]
  <2>1. BitsOf[x] \in SUBSET Bit /\ BitsOf[y] \in SUBSET Bit
    BY BitsRead
  <2>2. BitsOf[x] \cap BitsOf[y] \cap Low(NBits) = BitsOf[x] \cap BitsOf[y]
    BY <1>1, <2>1
  <2>3. Parity[x][y] = Cardinality(BitsOf[x] \cap BitsOf[y]) % 2
    BY DEF Parity
  <2>4. BitsOf[x] \ Low(NBits) = {} /\ BitsOf[y] \ Low(NBits) = {}
    BY <1>1, <2>1
  <2> QED BY <2>2, <2>3, <2>4 DEF SignOf, SameAbove
<1>3. Term(f, NBits, x) = [y \in Byte |-> f[y] * (1 - 2 * Parity[x][y])]
  BY <1>2 DEF Term
<1> QED BY <1>3 DEF Partly

\* What the bit k does to the places above and to the sign.
LEMMA BitDecides ==
  ASSUME NEW k \in Bit, NEW x \in Byte, NEW y \in Byte
  PROVE  /\ SameAbove(k, x, y) <=> SameAbove(k + 1, x, y) /\ (k \in BitsOf[x] <=> k \in BitsOf[y])
         /\ SignOf(k + 1, x, y) = IF k \in BitsOf[x] /\ k \in BitsOf[y]
                                  THEN -SignOf(k, x, y) ELSE SignOf(k, x, y)
<1> DEFINE A == BitsOf[x]
           B == BitsOf[y]
<1>1. k \in Nat /\ Low(k + 1) = Low(k) \cup {k} /\ k \notin Low(k)
  BY SizeAssumption DEF Bit, Low
<1>2. SameAbove(k, x, y) <=> SameAbove(k + 1, x, y) /\ (k \in A <=> k \in B)
  <2> HIDE DEF A, B
  <2> DEFINE L == Low(k)
             M == Low(k + 1)
  <2>1. M = L \cup {k} /\ k \notin L
    BY <1>1
  <2> HIDE DEF L, M
  <2>2. ASSUME A \ L = B \ L PROVE A \ M = B \ M /\ (k \in A <=> k \in B)
    <3>1. A \ M = (A \ L) \ {k} /\ B \ M = (B \ L) \ {k}
      BY <2>1
    <3>2. (k \in A <=> k \in A \ L) /\ (k \in B <=> k \in B \ L)
      BY <2>1
    <3> QED BY <2>2, <3>1, <3>2
  <2>3. ASSUME A \ M = B \ M, k \in A <=> k \in B PROVE A \ L = B \ L
    <3>1. \A b : b \in A \ L <=> b \in A \ M \/ (b = k /\ k \in A)
      BY <2>1
    <3>2. \A b : b \in B \ L <=> b \in B \ M \/ (b = k /\ k \in B)
      BY <2>1
    <3>3. \A b : b \in A \ L <=> b \in B \ L
      BY <2>3, <3>1, <3>2
    <3> QED BY <3>3
  <2> QED BY <2>2, <2>3 DEF SameAbove, A, B, L, M
<1> DEFINE s == A \cap B \cap Low(k)
           n == Cardinality(s)
<1>3. n \in Nat /\ IsFiniteSet(s)
  BY SignKnown
<1>4. CASE k \in A /\ k \in B
  <2>1. A \cap B \cap Low(k + 1) = s \cup {k} /\ k \notin s
    BY <1>1, <1>4
  <2> HIDE DEF s
  <2>2. Cardinality(s \cup {k}) = n + 1
    BY <1>3, <2>1, FS_AddElement
  <2>3. SignOf(k + 1, x, y) = 1 - 2 * ((n + 1) % 2)
    BY <2>1, <2>2 DEF SignOf
  <2>4. SignOf(k, x, y) = 1 - 2 * (n % 2)
    BY DEF SignOf, s
  <2> HIDE DEF n
  <2>5. 1 - 2 * ((n + 1) % 2) = -(1 - 2 * (n % 2))
    BY <1>3
  <2> QED BY <1>2, <1>4, <2>3, <2>4, <2>5
<1>5. CASE ~(k \in A /\ k \in B)
  <2>1. A \cap B \cap Low(k + 1) = s
    BY <1>1, <1>5
  <2>2. SignOf(k + 1, x, y) = SignOf(k, x, y)
    BY <2>1 DEF SignOf
  <2> QED BY <1>2, <1>5, <2>2
<1> QED BY <1>4, <1>5

\* The partner of a place in a round: the same bits but k.
Partners(k, x, z) ==
  /\ k \in Bit /\ x \in Byte /\ z \in Byte /\ k \notin BitsOf[x]
  /\ BitsOf[z] = BitsOf[x] \cup {k}

\* The terms of two partners add up to those of the next round.
LEMMA TermsJoin ==
  ASSUME NEW f \in [Byte -> Int], NEW k, NEW x, NEW z, Partners(k, x, z), NEW y \in Byte
  PROVE  /\ Term(f, k + 1, x)[y] = 1 * Term(f, k, x)[y] + Term(f, k, z)[y]
         /\ Term(f, k + 1, z)[y] = (-1) * Term(f, k, z)[y] + Term(f, k, x)[y]
<1> DEFINE v == f[y]
           s == SignOf(k, x, y)
           p == v * s
<1>1. /\ k \in Bit /\ x \in Byte /\ z \in Byte /\ k \notin BitsOf[x] /\ k \in BitsOf[z]
      /\ BitsOf[z] = BitsOf[x] \cup {k} /\ k \in Nat
  BY SizeAssumption DEF Partners, Bit
<1>2. v \in Int /\ s \in {1, -1}
  BY <1>1, SignKnown
<1>3. SignOf(k, z, y) = s
  <2>1. k \notin Low(k)
    BY <1>1 DEF Low
  <2>2. BitsOf[z] \cap BitsOf[y] \cap Low(k) = BitsOf[x] \cap BitsOf[y] \cap Low(k)
    BY <1>1, <2>1
  <2> QED BY <2>2 DEF SignOf
<1>4. SameAbove(k + 1, z, y) <=> SameAbove(k + 1, x, y)
  <2>1. k \in Low(k + 1)
    BY <1>1 DEF Low
  <2>2. BitsOf[z] \ Low(k + 1) = BitsOf[x] \ Low(k + 1)
    BY <1>1, <2>1
  <2> QED BY <2>2 DEF SameAbove
<1> DEFINE same == SameAbove(k + 1, x, y)
           b == k \in BitsOf[y]
<1>5. /\ SameAbove(k, x, y) <=> same /\ ~b
      /\ SameAbove(k, z, y) <=> same /\ b
      /\ SignOf(k + 1, x, y) = s
      /\ SignOf(k + 1, z, y) = IF b THEN -s ELSE s
  BY <1>1, <1>3, <1>4, BitDecides
<1>6. /\ Term(f, k, x)[y] = IF same /\ ~b THEN v * s ELSE 0
      /\ Term(f, k, z)[y] = IF same /\ b THEN v * s ELSE 0
      /\ Term(f, k + 1, x)[y] = IF same THEN v * s ELSE 0
      /\ Term(f, k + 1, z)[y] = IF same THEN (IF b THEN v * (-s) ELSE v * s) ELSE 0
  BY <1>3, <1>4, <1>5 DEF Term
<1> HIDE DEF v, s, same, b
<1>7. p \in Int /\ v * (-s) = -p /\ 1 * p = p /\ (-1) * p = -p /\ 1 * 0 = 0 /\ (-1) * 0 = 0
  BY <1>2
<1> QED BY <1>6, <1>7

\* One round.
LEMMA RoundJoins ==
  ASSUME NEW f \in [Byte -> Int], NEW k, NEW x, NEW z, Partners(k, x, z)
  PROVE  /\ Partly(f, k, x) \in Int /\ Partly(f, k, z) \in Int
         /\ Partly(f, k + 1, x) = Partly(f, k, x) + Partly(f, k, z)
         /\ Partly(f, k + 1, z) = Partly(f, k, x) - Partly(f, k, z)
<1> DEFINE p == Term(f, k, x)
           q == Term(f, k, z)
           r == Term(f, k + 1, x)
           s == Term(f, k + 1, z)
<1>1. x \in Byte /\ z \in Byte
  BY DEF Partners
<1>2. Summable(p, Byte) /\ Summable(q, Byte)
  BY <1>1, TermsSummable
<1>3. DOMAIN r = Byte /\ DOMAIN s = Byte
  BY DEF Term
<1>4. \A y \in Byte : r[y] = 1 * p[y] + q[y]
  BY TermsJoin
<1>5. \A y \in Byte : s[y] = (-1) * q[y] + p[y]
  BY TermsJoin
<1> HIDE DEF p, q, r, s
<1>6. /\ SumFunction(p) \in Int /\ SumFunction(q) \in Int
      /\ SumFunction(r) = 1 * SumFunction(p) + SumFunction(q)
  BY <1>2, <1>3, <1>4, SumLinear
<1>7. SumFunction(s) = (-1) * SumFunction(q) + SumFunction(p)
  <2>1. -1 \in Int
    OBVIOUS
  <2> QED BY <1>2, <1>3, <1>5, <2>1, SumLinear
<1>8. \A u, v \in Int : 1 * u + v = u + v /\ (-1) * v + u = u - v
  OBVIOUS
<1>9. SumFunction(r) = SumFunction(p) + SumFunction(q) /\ SumFunction(s) = SumFunction(p) - SumFunction(q)
  BY <1>6, <1>7, <1>8
<1> QED BY <1>6, <1>9 DEF Partly, p, q, r, s

\* The butterfly does one round.
LEMMA ButterflyRounds ==
  ASSUME NEW f \in [Byte -> Int], NEW k \in Bit, NEW v, \A x \in Byte : v[x] = Partly(f, k, x),
         NEW x \in Byte
  PROVE  Butterfly(v, 2^k)[x] = Partly(f, k + 1, x)
<1> DEFINE h == 2^k
<1>1. Butterfly(v, h)[x] = IF (x \div h) % 2 = 0 THEN v[x] + v[x + h] ELSE v[x - h] - v[x]
  BY DEF Butterfly
<1>2. (x \div h) % 2 = 0 <=> k \notin BitsOf[x]
  <2>1. x \div h \in Nat
    <3>1. h \in Nat \ {0} /\ x \in Nat
      BY PowersOfTwo, BitsRead, SizeAssumption DEF Bit
    <3> HIDE DEF h
    <3> QED BY <3>1
  <2>2. k \in BitsOf[x] <=> (x \div h) % 2 = 1
    BY BitsRead DEF Shifted
  <2> HIDE DEF h
  <2> QED BY <2>1, <2>2
<1>3. CASE k \notin BitsOf[x]
  <2> DEFINE z == x + h
  <2>1. z \in Byte /\ BitsOf[z] = BitsOf[x] \cup {k}
    BY <1>3, BitAdded
  <2>2. Butterfly(v, h)[x] = v[x] + v[z]
    BY <1>1, <1>2, <1>3
  <2> HIDE DEF z, h
  <2>3. Partners(k, x, z)
    BY <1>3, <2>1 DEF Partners
  <2>4. Partly(f, k + 1, x) = Partly(f, k, x) + Partly(f, k, z)
    BY <2>3, RoundJoins
  <2> QED BY <2>1, <2>2, <2>4 DEF h
<1>4. CASE k \in BitsOf[x]
  <2> DEFINE z == x - h
  <2>1. z \in Byte /\ BitsOf[z] = BitsOf[x] \ {k}
    BY <1>4, BitTaken
  <2>2. Butterfly(v, h)[x] = v[z] - v[x]
    BY <1>1, <1>2, <1>4
  <2> HIDE DEF z, h
  <2>3. Partners(k, z, x)
    BY <1>4, <2>1 DEF Partners
  <2>4. Partly(f, k + 1, x) = Partly(f, k, z) - Partly(f, k, x)
    BY <2>3, RoundJoins
  <2> QED BY <2>1, <2>2, <2>4 DEF h
<1> QED BY <1>3, <1>4

-----------------------------------------------------------------------------
(* The S-box laboratory: component functions. *)

\* Half of the number of bytes.
LEMMA HalfBytes ==
  /\ N \div 2 \in Nat \ {0} /\ N = 2 * (N \div 2)
  /\ IsFiniteSet(Byte) /\ Cardinality(Byte) = N /\ Masks = Byte \ {0} /\ 1 \in Masks
<1> DEFINE p == 2^(NBits - 1)
<1>1. NBits - 1 \in Nat /\ (NBits - 1) + 1 = NBits
  BY SizeAssumption
<1>2. p \in Nat \ {0} /\ N = 2 * p
  BY <1>1, PowersOfTwo, SizeAssumption
<1> HIDE DEF p
<1>3. N \div 2 = p
  BY <1>2
<1>4. IsFiniteSet(Byte) /\ Cardinality(Byte) = N
  <2>1. 0 \in Int /\ N - 1 \in Int /\ ~(0 > N - 1) /\ (N - 1) - 0 + 1 = N
    BY <1>2
  <2> QED BY <2>1, FS_Interval DEF Byte
<1>5. Masks = Byte \ {0} /\ 1 \in Masks
  BY <1>2 DEF Masks, Byte
<1> QED BY <1>2, <1>3, <1>4, <1>5

\* A parity is 0 or 1.
LEMMA ParityBinary ==
  ASSUME NEW a \in Byte, NEW b \in Byte
  PROVE  Parity[a][b] \in {0, 1}
<1> DEFINE s == BitsOf[a] \cap BitsOf[b]
           c == Cardinality(s)
<1>1. s \in SUBSET Bit
  BY BitsRead
<1>2. c \in Nat
  <2> HIDE DEF s
  <2> QED BY <1>1, BitFinite, FS_Subset, FS_CardinalityType
<1>3. Parity[a][b] = c % 2
  BY DEF Parity
<1> HIDE DEF c
<1> QED BY <1>2, <1>3

\* The component function of an output mask under the S-box b, as signs.
Component(b, mask) == [x \in Byte |-> 1 - 2 * Parity[mask][b[x]]]

\* Where it differs from the linear function of an input mask.
Differing(b, mask, w) == {x \in Byte : Parity[mask][b[x]] # Parity[w][x]}

\* The signs are integers, the places where two functions differ some of the bytes.
LEMMA ComponentTyped ==
  ASSUME NEW b \in [Byte -> Byte], NEW mask \in Byte, NEW w \in Byte
  PROVE  /\ Component(b, mask) \in [Byte -> Int]
         /\ Differing(b, mask, w) \in SUBSET Byte /\ IsFiniteSet(Differing(b, mask, w))
         /\ Cardinality(Differing(b, mask, w)) \in 0..N
<1>1. ASSUME NEW x \in Byte PROVE 1 - 2 * Parity[mask][b[x]] \in Int
  <2>1. Parity[mask][b[x]] \in {0, 1}
    BY ParityBinary
  <2> QED BY <2>1
<1>2. Differing(b, mask, w) \in SUBSET Byte
  BY DEF Differing
<1>3. IsFiniteSet(Byte) /\ Cardinality(Byte) = N /\ N \in Nat
  BY HalfBytes, SizeAssumption
<1>4. /\ IsFiniteSet(Differing(b, mask, w)) /\ Cardinality(Differing(b, mask, w)) \in Nat
      /\ Cardinality(Differing(b, mask, w)) <= N
  BY <1>2, <1>3, FS_Subset, FS_CardinalityType
<1>5. Component(b, mask) \in [Byte -> Int]
  BY <1>1 DEF Component
<1> QED BY <1>2, <1>3, <1>4, <1>5

\* The transform of a component function counts where it differs.
LEMMA SpectrumCounts ==
  ASSUME NEW b \in [Byte -> Byte], NEW mask \in Byte, NEW w \in Byte
  PROVE  Partly(Component(b, mask), NBits, w) = N - 2 * Cardinality(Differing(b, mask, w))
<1> DEFINE f == Component(b, mask)
           T == Differing(b, mask, w)
           g == [y \in Byte |-> f[y] * (1 - 2 * Parity[w][y])]
           ind == [y \in Byte |-> IF y \in T THEN 1 ELSE 0]
           one == [y \in Byte |-> IF y \in Byte THEN 1 ELSE 0]
<1>1. f \in [Byte -> Int] /\ T \in SUBSET Byte /\ Cardinality(T) \in Nat
  BY ComponentTyped
<1>2. Partly(f, NBits, w) = SumFunction(g)
  BY <1>1, TransformEnds
<1>3. IsFiniteSet(Byte) /\ Cardinality(Byte) = N /\ 1 \in Int /\ N \in Nat
  BY HalfBytes, SizeAssumption
<1>4. Summable(ind, Byte) /\ SumFunction(ind) = 1 * Cardinality(T)
  <2>1. Byte = DOMAIN ind /\ \A y \in Byte : ind[y] = IF y \in T THEN 1 ELSE 0
    OBVIOUS
  <2> HIDE DEF ind, T
  <2> QED BY <1>1, <1>3, <2>1, SumSupported
<1>5. Summable(one, Byte) /\ SumFunction(one) = 1 * Cardinality(Byte)
  <2>1. Byte = DOMAIN one /\ \A y \in Byte : one[y] = IF y \in Byte THEN 1 ELSE 0
    OBVIOUS
  <2>2. Byte \in SUBSET Byte
    OBVIOUS
  <2> HIDE DEF one
  <2> QED BY <1>3, <2>1, <2>2, SumSupported
<1>6. ASSUME NEW y \in Byte PROVE g[y] = (-2) * ind[y] + one[y]
  <2> DEFINE p == Parity[mask][b[y]]
             q == Parity[w][y]
  <2>1. p \in {0, 1} /\ q \in {0, 1}
    BY ParityBinary
  <2>2. g[y] = (1 - 2 * p) * (1 - 2 * q)
    BY DEF Component
  <2>3. one[y] = 1 /\ ind[y] = IF p # q THEN 1 ELSE 0
    BY DEF Differing
  <2> HIDE DEF p, q, g, one, ind
  <2> QED BY <2>1, <2>2, <2>3
<1>7. DOMAIN g = Byte
  OBVIOUS
<1> HIDE DEF g, ind, one, T, f
<1>8. SumFunction(g) = (-2) * SumFunction(ind) + SumFunction(one)
  <2>1. -2 \in Int
    OBVIOUS
  <2> QED BY <1>4, <1>5, <1>6, <1>7, <2>1, SumLinear
<1> QED BY <1>1, <1>2, <1>3, <1>4, <1>5, <1>8 DEF f, T

-----------------------------------------------------------------------------
(* What the metrics read off the spectra. *)

\* The spectra s of the S-box b after k rounds.
SpectraAfter(b, k, s) ==
  s = [mask \in Byte |-> [w \in Byte |-> Partly(Component(b, mask), k, w)]]

\* One round for every mask.
LEMMA RoundRun ==
  ASSUME NEW b \in [Byte -> Byte], NEW k \in Bit, NEW s, SpectraAfter(b, k, s)
  PROVE  SpectraAfter(b, k + 1, [mask \in Byte |-> Butterfly(s[mask], 2^k)])
<1>1. ASSUME NEW mask \in Byte
      PROVE  Butterfly(s[mask], 2^k) = [w \in Byte |-> Partly(Component(b, mask), k + 1, w)]
  <2> DEFINE f == Component(b, mask)
             v == s[mask]
             h == 2^k
  <2>1. f \in [Byte -> Int]
    BY NoBits, ComponentTyped
  <2>2. \A x \in Byte : v[x] = Partly(f, k, x)
    BY DEF SpectraAfter
  <2> HIDE DEF f, v
  <2>3. \A x \in Byte : Butterfly(v, h)[x] = Partly(f, k + 1, x)
    BY <2>1, <2>2, ButterflyRounds
  <2>4. Butterfly(v, h) = [x \in Byte |-> Butterfly(v, h)[x]]
    BY DEF Butterfly
  <2> HIDE DEF h
  <2>5. Butterfly(v, h) = [x \in Byte |-> Partly(f, k + 1, x)]
    BY <2>3, <2>4
  <2> QED BY <2>5 DEF f, v, h
<1> QED BY <1>1 DEF SpectraAfter

\* The least and the greatest of a set of numbers.
LEMMA Extremes ==
  ASSUME NEW S \in SUBSET Int, NEW v \in S
  PROVE  /\ (\A u \in S : v <= u) => Min(S) = v
         /\ (\A u \in S : u <= v) => Max(S) = v
<1>1. ASSUME \A u \in S : v <= u PROVE Min(S) = v
  <2>1. \E x \in S : \A y \in S : x =< y
    BY <1>1
  <2>2. Min(S) \in S /\ \A y \in S : Min(S) =< y
    <3> DEFINE m == CHOOSE x \in S : \A y \in S : x =< y
    <3>1. m \in S /\ \A y \in S : m =< y
      BY <2>1
    <3>2. Min(S) = m
      BY DEF Min
    <3> HIDE DEF m
    <3> QED BY <3>1, <3>2
  <2>3. v <= Min(S) /\ Min(S) <= v /\ Min(S) \in Int /\ v \in Int
    BY <1>1, <2>2
  <2> QED BY <2>3
<1>2. ASSUME \A u \in S : u <= v PROVE Max(S) = v
  <2>1. \E x \in S : \A y \in S : x >= y
    BY <1>2
  <2>2. Max(S) \in S /\ \A y \in S : Max(S) >= y
    <3> DEFINE m == CHOOSE x \in S : \A y \in S : x >= y
    <3>1. m \in S /\ \A y \in S : m >= y
      BY <2>1
    <3>2. Max(S) = m
      BY DEF Max
    <3> HIDE DEF m
    <3> QED BY <3>1, <3>2
  <2>3. v <= Max(S) /\ Max(S) <= v /\ Max(S) \in Int /\ v \in Int
    BY <1>2, <2>2
  <2> QED BY <2>3
<1> QED BY <1>1, <1>2

\* Distances and biases under the S-box b.
DistanceOf(b, mask) ==
  Min({Cardinality({x \in Byte : Parity[mask][b[x]] # (Parity[w][x] + c) % 2}) :
         w \in Byte, c \in {0, 1}})
BiasOf(b, a1, a2) == Cardinality({x \in Byte : Parity[a1][x] = Parity[a2][b[x]]}) - N \div 2

\* Where two functions agree are the other bytes.
LEMMA AgreeingCounted ==
  ASSUME NEW b \in [Byte -> Byte], NEW mask \in Byte, NEW w \in Byte
  PROVE  LET differing == Cardinality(Differing(b, mask, w))
         IN  /\ Cardinality({x \in Byte : Parity[mask][b[x]] # (Parity[w][x] + 0) % 2}) = differing
             /\ Cardinality({x \in Byte : Parity[mask][b[x]] # (Parity[w][x] + 1) % 2}) = N - differing
             /\ BiasOf(b, w, mask) = N \div 2 - differing
<1> DEFINE T == Differing(b, mask, w)
           U == Byte \ T
           D == Cardinality(T)
           H == N \div 2
<1>1. \A x \in Byte : Parity[mask][b[x]] \in {0, 1} /\ Parity[w][x] \in {0, 1}
  BY ParityBinary
<1>2. \A p, q \in {0, 1} : /\ p # (q + 0) % 2 <=> p # q
                           /\ p # (q + 1) % 2 <=> p = q
  OBVIOUS
<1>3. {x \in Byte : Parity[mask][b[x]] # (Parity[w][x] + 0) % 2} = T
  BY <1>1, <1>2 DEF Differing
<1>4. {x \in Byte : Parity[mask][b[x]] # (Parity[w][x] + 1) % 2} = U
  BY <1>1, <1>2 DEF Differing
<1>5. {x \in Byte : Parity[w][x] = Parity[mask][b[x]]} = U
  BY DEF Differing
<1>6. T \in SUBSET Byte /\ D \in 0..N /\ H \in Nat /\ N = 2 * H
  BY ComponentTyped, HalfBytes
<1>7. Cardinality(U) = N - D
  <2>1. Byte \cap T = T
    BY <1>6
  <2>2. IsFiniteSet(Byte) /\ Cardinality(Byte) = N
    BY HalfBytes
  <2> HIDE DEF T
  <2> QED BY <2>1, <2>2, FS_Difference
<1>8. BiasOf(b, w, mask) = Cardinality(U) - H
  BY <1>5 DEF BiasOf
<1> HIDE DEF T, U, H
<1>9. BiasOf(b, w, mask) = H - D
  <2> HIDE DEF D
  <2> QED BY <1>6, <1>7, <1>8
<1> QED BY <1>3, <1>4, <1>7, <1>9 DEF T, H

\* A number read off a spectrum and the numbers of differing bytes.
SpectraCount(b, s) ==
  \A mask, w \in Byte : s[mask][w] = N - 2 * Cardinality(Differing(b, mask, w))

\* The nonlinearity of a component function is a distance.
LEMMA NonlinearityExact ==
  ASSUME NEW b \in [Byte -> Byte], SpectraCount(b, spectra), NEW mask \in Byte
  PROVE  NlEach(mask) = DistanceOf(b, mask)
<1> DEFINE H == N \div 2
           D == [w \in Byte |-> Cardinality(Differing(b, mask, w))]
           A == {AbsValue(spectra[mask][w]) : w \in Byte}
           S == {Cardinality({x \in Byte : Parity[mask][b[x]] # (Parity[w][x] + c) % 2}) :
                   w \in Byte, c \in {0, 1}}
<1>1. H \in Nat /\ N = 2 * H /\ N \in Nat /\ 1 \in Byte
  BY HalfBytes
<1>2. \A w \in Byte : D[w] \in 0..N
  BY ComponentTyped
<1>3. A = {AbsValue(N - 2 * D[w]) : w \in Byte}
  BY DEF SpectraCount
<1>4. \A w \in Byte : AbsValue(N - 2 * D[w]) \in 0..N
  <2> HIDE DEF D, H
  <2> QED BY <1>1, <1>2 DEF AbsValue
<1>5. A \in SUBSET (0..N) /\ A # {}
  <2> HIDE DEF D
  <2> QED BY <1>1, <1>3, <1>4
<1>6. PICK v \in A : \A u \in A : u <= v
  <2> HIDE DEF A
  <2> QED BY <1>1, <1>5, GreatestNatural
<1>7. Max(A) = v
  <2>1. A \in SUBSET Int
    <3> HIDE DEF A
    <3> QED BY <1>1, <1>5
  <2> HIDE DEF A
  <2> QED BY <1>6, <2>1, Extremes
<1>8. NlEach(mask) = H - v \div 2
  BY <1>7 DEF NlEach
<1>9. S = {D[w] : w \in Byte} \cup {N - D[w] : w \in Byte}
  <2>1. ASSUME NEW w \in Byte
        PROVE  /\ Cardinality({x \in Byte : Parity[mask][b[x]] # (Parity[w][x] + 0) % 2}) = D[w]
               /\ Cardinality({x \in Byte : Parity[mask][b[x]] # (Parity[w][x] + 1) % 2}) = N - D[w]
    BY AgreeingCounted
  <2> DEFINE q(w, c) == Cardinality({x \in Byte : Parity[mask][b[x]] # (Parity[w][x] + c) % 2})
  <2>2. S = {q(w, c) : w \in Byte, c \in {0, 1}}
    OBVIOUS
  <2>3. \A w \in Byte : q(w, 0) = D[w] /\ q(w, 1) = N - D[w]
    BY <2>1
  <2> HIDE DEF q, S, D
  <2> QED BY <2>2, <2>3
<1>10. PICK z \in Byte : v = AbsValue(N - 2 * D[z])
  <2> HIDE DEF D
  <2> QED BY <1>3
<1>11. \A w \in Byte : AbsValue(N - 2 * D[w]) <= v
  <2> HIDE DEF D, A
  <2> QED BY <1>3, <1>6
<1> DEFINE m == H - v \div 2
<1> HIDE DEF D, A, S, H
<1>12. m \in Int /\ (m = D[z] \/ m = N - D[z])
  BY <1>1, <1>2, <1>10 DEF AbsValue
<1>13. \A w \in Byte : m <= D[w] /\ m <= N - D[w]
  <2> SUFFICES ASSUME NEW w \in Byte PROVE m <= D[w] /\ m <= N - D[w]
    OBVIOUS
  <2> DEFINE d == D[w]
  <2>1. d \in 0..N /\ AbsValue(N - 2 * d) <= v /\ v \in Int
    BY <1>1, <1>2, <1>5, <1>6, <1>11
  <2> HIDE DEF d
  <2>2. m <= d /\ m <= N - d
    BY <1>1, <2>1 DEF AbsValue
  <2> QED BY <2>2 DEF d
<1> HIDE DEF m
<1>14. Min(S) = m
  <2>1. S \in SUBSET Int
    BY <1>1, <1>2, <1>9
  <2>2. m \in S
    BY <1>9, <1>12
  <2>3. \A u \in S : m <= u
    BY <1>9, <1>13
  <2> QED BY <2>1, <2>2, <2>3, Extremes
<1>15. DistanceOf(b, mask) = Min(S)
  BY DEF DistanceOf, S
<1> QED BY <1>8, <1>14, <1>15 DEF m

\* The linear approximation table holds the biases.
LEMMA BiasRead ==
  ASSUME NEW b \in [Byte -> Byte], SpectraCount(b, spectra), NEW mask \in Byte, NEW w \in Byte
  PROVE  /\ spectra[mask][w] \div 2 = BiasOf(b, w, mask)
         /\ AbsValue(spectra[mask][w]) = 2 * AbsValue(BiasOf(b, w, mask))
         /\ AbsValue(BiasOf(b, w, mask)) \in 0..N
<1> DEFINE H == N \div 2
           D == Cardinality(Differing(b, mask, w))
<1>1. H \in Nat /\ N = 2 * H /\ D \in 0..N
  BY HalfBytes, ComponentTyped
<1>2. spectra[mask][w] = N - 2 * D
  BY DEF SpectraCount
<1>3. BiasOf(b, w, mask) = H - D
  BY AgreeingCounted
<1> HIDE DEF H, D
<1>4. (N - 2 * D) \div 2 = H - D
  BY <1>1
<1>5. AbsValue(N - 2 * D) = 2 * AbsValue(H - D) /\ AbsValue(H - D) \in 0..N
  BY <1>1 DEF AbsValue
<1> QED BY <1>2, <1>3, <1>4, <1>5

\* The linear probability is twice the largest bias.
LEMMA LargestBias ==
  ASSUME NEW b \in [Byte -> Byte], SpectraCount(b, spectra)
  PROVE  Max({AbsValue(spectra[a1][a2]) : a1, a2 \in Masks})
           = 2 * Max({AbsValue(BiasOf(b, a1, a2)) : a1, a2 \in Masks})
<1> DEFINE A == {AbsValue(spectra[a1][a2]) : a1, a2 \in Masks}
           B == {AbsValue(BiasOf(b, a1, a2)) : a1, a2 \in Masks}
<1>1. 1 \in Masks /\ Masks \subseteq Byte /\ N \in Nat
  BY HalfBytes, SizeAssumption
<1>2. \A a1, a2 \in Masks : /\ AbsValue(spectra[a1][a2]) = 2 * AbsValue(BiasOf(b, a2, a1))
                            /\ AbsValue(BiasOf(b, a2, a1)) \in 0..N
  BY <1>1, BiasRead
<1>3. B \in SUBSET (0..N) /\ B # {}
  <2>1. AbsValue(BiasOf(b, 1, 1)) \in B
    BY <1>1
  <2>2. ASSUME NEW u \in B PROVE u \in 0..N
    <3>1. PICK a1 \in Masks, a2 \in Masks : u = AbsValue(BiasOf(b, a1, a2))
      OBVIOUS
    <3> QED BY <1>2, <3>1
  <2> HIDE DEF B
  <2> QED BY <2>1, <2>2
<1>4. PICK v \in B : \A u \in B : u <= v
  <2> HIDE DEF B
  <2> QED BY <1>1, <1>3, GreatestNatural
<1>5. B \in SUBSET Int /\ v \in 0..N
  <2> HIDE DEF B
  <2> QED BY <1>1, <1>3
<1>6. Max(B) = v
  <2> HIDE DEF B
  <2> QED BY <1>4, <1>5, Extremes
<1>7. 2 * v \in A
  <2>1. PICK a1 \in Masks, a2 \in Masks : v = AbsValue(BiasOf(b, a1, a2))
    OBVIOUS
  <2>2. AbsValue(spectra[a2][a1]) = 2 * v
    BY <1>2, <2>1
  <2>3. AbsValue(spectra[a2][a1]) \in A
    OBVIOUS
  <2> QED BY <2>2, <2>3
<1>8. ASSUME NEW u \in A PROVE u \in Int /\ u <= 2 * v
  <2>1. PICK a1 \in Masks, a2 \in Masks : u = AbsValue(spectra[a1][a2])
    OBVIOUS
  <2> DEFINE e == AbsValue(BiasOf(b, a2, a1))
  <2>2. u = 2 * e /\ e \in 0..N
    BY <1>2, <2>1
  <2>3. e \in B
    OBVIOUS
  <2>4. e <= v
    <3> HIDE DEF B, e
    <3> QED BY <1>4, <2>3
  <2> HIDE DEF e
  <2> QED BY <1>5, <2>2, <2>4
<1> HIDE DEF A, B
<1>9. Max(A) = 2 * v
  <2> DEFINE r == 2 * v
  <2>1. r \in A /\ A \in SUBSET Int /\ \A u \in A : u <= r
    BY <1>7, <1>8
  <2> HIDE DEF r
  <2>2. Max(A) = r
    BY <2>1, Extremes
  <2> QED BY <2>2 DEF r
<1> QED BY <1>6, <1>9 DEF A, B

\* The inputs whose images under box differ by o when they differ by d.
Changing(d, o) == {x \in Byte : Xor[box[x]][box[Xor[x][d]]] = o}

\* An entry of the difference table counts inputs.
LEMMA EntryCounts ==
  ASSUME box \in [Byte -> Byte], NEW d \in Masks, NEW o \in Byte
  PROVE  /\ DifferenceTable[d][o] = Cardinality(Changing(d, o))
         /\ Changing(d, o) \in SUBSET Byte /\ IsFiniteSet(Changing(d, o))
         /\ \A x \in Byte : Xor[x][d] \in Byte /\ Xor[box[x]][box[Xor[x][d]]] \in Byte
<1>1. d \in Byte /\ d # 0 /\ IsFiniteSet(Byte)
  BY HalfBytes
<1>2. DifferenceTable[d][o] = Cardinality(Changing(d, o))
  BY <1>1 DEF DifferenceTable, Changing
<1>3. Changing(d, o) \in SUBSET Byte
  BY DEF Changing
<1>4. IsFiniteSet(Changing(d, o))
  BY <1>1, <1>3, FS_Subset
<1>5. ASSUME NEW x \in Byte PROVE Xor[x][d] \in Byte /\ Xor[box[x]][box[Xor[x][d]]] \in Byte
  <2>1. Xor[x][d] \in Byte
    BY <1>1, XorBits
  <2>2. box[x] \in Byte /\ box[Xor[x][d]] \in Byte
    BY <2>1
  <2> QED BY <2>1, <2>2, XorBits
<1> QED BY <1>2, <1>3, <1>4, <1>5

\* A row of the difference table counts every input once.
LEMMA RowCounts ==
  ASSUME box \in [Byte -> Byte], NEW d \in Masks
  PROVE  SumFunction([o \in Byte |-> DifferenceTable[d][o]]) = N
<1> DEFINE f == [x \in Byte |-> 1]
           p == [x \in Byte |-> Xor[box[x]][box[Xor[x][d]]]]
           e == [o \in Byte |-> SumFunction([x \in Fibre(p, Byte, o) |-> f[x]])]
<1>1. IsFiniteSet(Byte) /\ Cardinality(Byte) = N /\ Byte \in SUBSET Byte /\ 1 \in Int /\ N \in Nat
  BY HalfBytes, SizeAssumption
<1>2. Summable(f, Byte) /\ SumFunction(f) = N
  <2>1. Byte = DOMAIN f /\ \A x \in Byte : f[x] = IF x \in Byte THEN 1 ELSE 0
    OBVIOUS
  <2> HIDE DEF f
  <2>2. Summable(f, Byte) /\ SumFunction(f) = 1 * Cardinality(Byte)
    BY <1>1, <2>1, SumSupported
  <2> QED BY <1>1, <2>2
<1>3. p \in [Byte -> Byte]
  <2>1. 0 \in Byte
    BY NoBits
  <2>2. \A x \in Byte : Xor[box[x]][box[Xor[x][d]]] \in Byte
    BY <2>1, EntryCounts
  <2> QED BY <2>2
<1>4. SumFunction(f) = SumFunction(e)
  <2> HIDE DEF f, p
  <2> QED BY <1>1, <1>2, <1>3, SumFibres
<1>5. ASSUME NEW o \in Byte PROVE e[o] = DifferenceTable[d][o]
  <2> DEFINE T == Changing(d, o)
             g == [x \in T |-> f[x]]
  <2>1. T \in SUBSET Byte /\ IsFiniteSet(T) /\ DifferenceTable[d][o] = Cardinality(T)
    BY EntryCounts
  <2>2. Fibre(p, Byte, o) = T
    BY DEF Fibre, Changing
  <2>3. e[o] = SumFunction(g)
    BY <2>2
  <2>4. T = DOMAIN g /\ (\A x \in T : g[x] = IF x \in T THEN 1 ELSE 0) /\ T \in SUBSET T
    BY <2>1
  <2> HIDE DEF T, g, e
  <2>5. Cardinality(T) \in Nat /\ SumFunction(g) = 1 * Cardinality(T)
    BY <1>1, <2>1, <2>4, SumSupported
  <2> QED BY <2>1, <2>3, <2>5
<1>6. e = [o \in Byte |-> DifferenceTable[d][o]]
  <2>1. e = [o \in Byte |-> e[o]]
    OBVIOUS
  <2> HIDE DEF e
  <2> QED BY <1>5, <2>1
<1> HIDE DEF e, f
<1> QED BY <1>2, <1>4, <1>6

\* A permutation is an S-box for which no difference of inputs vanishes.
LEMMA BijectionSeen ==
  ASSUME box \in [Byte -> Byte]
  PROVE  IsBijection <=> \A d \in Masks : DifferenceTable[d][0] = 0
<1> DEFINE OneToOne == \A x, y \in Byte : box[x] = box[y] => x = y
<1>1. IsFiniteSet(Byte) /\ Masks = Byte \ {0} /\ 0 \in Byte
  BY HalfBytes, NoBits
<1>2. OneToOne <=> box \in Injection(Byte, Byte)
  BY DEF Injection, IsInjective
<1>3. IsBijection <=> box \in Surjection(Byte, Byte)
  BY DEF Surjection, IsBijection
<1>4. IsBijection <=> OneToOne
  <2>1. box \in Injection(Byte, Byte) => box \in Surjection(Byte, Byte)
    BY <1>1, FS_Injection
  <2>2. box \in Surjection(Byte, Byte) => box \in Injection(Byte, Byte)
    BY <1>1, FS_Surjection
  <2> QED BY <1>2, <1>3, <2>1, <2>2
<1>5. ASSUME NEW d \in Masks
      PROVE  DifferenceTable[d][0] = 0 <=> \A x \in Byte : box[x] # box[Xor[x][d]]
  <2> DEFINE T == Changing(d, 0)
  <2>1. DifferenceTable[d][0] = Cardinality(T) /\ IsFiniteSet(T)
    BY <1>1, EntryCounts
  <2>2. Cardinality(T) = 0 <=> T = {}
    <3> HIDE DEF T
    <3> QED BY <2>1, FS_EmptySet
  <2>3. ASSUME NEW x \in Byte PROVE x \in T <=> box[x] = box[Xor[x][d]]
    <3>1. Xor[x][d] \in Byte
      BY <1>1, EntryCounts
    <3>2. box[x] \in Byte /\ box[Xor[x][d]] \in Byte
      BY <3>1
    <3>3. Xor[box[x]][box[Xor[x][d]]] = 0 <=> box[x] = box[Xor[x][d]]
      BY <3>2, XorDiffers
    <3> QED BY <3>3 DEF Changing
  <2>4. T \subseteq Byte
    BY DEF Changing
  <2> HIDE DEF T
  <2> QED BY <2>1, <2>2, <2>3, <2>4
<1>6. ASSUME OneToOne, NEW d \in Masks, NEW x \in Byte PROVE box[x] # box[Xor[x][d]]
  <2>1. d \in Byte /\ d # 0 /\ Xor[x][d] \in Byte
    BY <1>1, EntryCounts
  <2>2. Xor[x][d] # x
    BY <2>1, XorDiffers
  <2> QED BY <1>6, <2>1, <2>2
<1>7. ASSUME NEW x \in Byte, NEW y \in Byte, box[x] = box[y], x # y
      PROVE  \E d \in Masks : \E z \in Byte : box[z] = box[Xor[z][d]]
  <2>1. Xor[x][y] \in Byte /\ Xor[x][y] # 0 /\ Xor[x][Xor[x][y]] = y
    BY <1>7, XorBits, XorDiffers
  <2> QED BY <1>1, <1>7, <2>1
<1> HIDE DEF OneToOne
<1>8. OneToOne => \A d \in Masks : \A x \in Byte : box[x] # box[Xor[x][d]]
  BY <1>6
<1>9. (\A d \in Masks : \A x \in Byte : box[x] # box[Xor[x][d]]) => OneToOne
  BY <1>7 DEF OneToOne
<1> QED BY <1>4, <1>5, <1>8, <1>9

-----------------------------------------------------------------------------
(* The metrics. *)

\* What the metrics m of the S-box b have to be.
DefinitionsOf(m, b) ==
  /\ \A i \in Bit : m.NL_per_bit[i] = DistanceOf(b, 2^i)
  /\ m.NL_min = Min({DistanceOf(b, mask) : mask \in Masks})
  /\ \A p \in DOMAIN m.BIC : m.BIC[p] = DistanceOf(b, 2^p[1] + 2^p[2])
  /\ m.max_WHT = 2 * Max({AbsValue(BiasOf(b, a1, a2)) : a1, a2 \in Masks})
  /\ \A a1, a2 \in Byte : m.LAT[a1][a2] = BiasOf(b, a1, a2)
  /\ \A d \in Masks : SumFunction([o \in Byte |-> m.DDT[d][o]]) = N
  /\ m.bijection <=> \A d \in Masks : m.DDT[d][0] = 0

\* A bit, and the sum of two, is a byte.
LEMMA BitsAreBytes ==
  ASSUME NEW i \in Bit
  PROVE  2^i \in Byte /\ \A j \in Bit : i < j => 2^i + 2^j \in Byte
<1>1. 0 \in Byte /\ BitsOf[0] = {}
  BY NoBits
<1>2. 0 + 2^i \in Byte /\ BitsOf[0 + 2^i] = {i}
  <2>1. i \notin BitsOf[0]
    BY <1>1
  <2>2. 0 + 2^i \in Byte /\ BitsOf[0 + 2^i] = BitsOf[0] \cup {i}
    BY <1>1, <2>1, BitAdded
  <2> QED BY <1>1, <2>2
<1> DEFINE p == 2^i
<1>3. p \in Nat /\ i \in Int
  BY SizeAssumption, PowersOfTwo DEF Bit
<1>4. p \in Byte /\ BitsOf[p] = {i}
  <2>1. 0 + p = p
    <3> HIDE DEF p
    <3> QED BY <1>3
  <2> QED BY <1>2, <2>1
<1>5. ASSUME NEW j \in Bit, i < j PROVE p + 2^j \in Byte
  <2>1. j # i
    BY <1>3, <1>5
  <2>2. j \notin BitsOf[p]
    BY <1>4, <2>1
  <2> HIDE DEF p
  <2> QED BY <1>4, <2>2, BitAdded
<1> QED BY <1>4, <1>5

\* The metrics read off the transforms are the ones the criteria define.
LEMMA MetricsRead ==
  ASSUME box \in [Byte -> Byte], SpectraCount(box, spectra)
  PROVE  DefinitionsOf(Metrics, box)
<1> DEFINE m == Metrics
<1>1. Masks \subseteq Byte
  BY HalfBytes
<1>2. \A mask \in Byte : NlEach(mask) = DistanceOf(box, mask)
  BY NonlinearityExact
<1>3. \A i \in Bit : m.NL_per_bit[i] = DistanceOf(box, 2^i)
  <2>1. \A i \in Bit : m.NL_per_bit[i] = NlEach(2^i)
    BY DEF Metrics
  <2> HIDE DEF m
  <2> QED BY <1>2, <2>1, BitsAreBytes
<1>4. m.NL_min = Min({DistanceOf(box, mask) : mask \in Masks})
  <2>1. m.NL_min = Min({NlEach(mask) : mask \in Masks})
    BY DEF Metrics
  <2>2. {NlEach(mask) : mask \in Masks} = {DistanceOf(box, mask) : mask \in Masks}
    BY <1>1, <1>2
  <2> QED BY <2>1, <2>2
<1>5. ASSUME NEW p \in DOMAIN m.BIC PROVE m.BIC[p] = DistanceOf(box, 2^p[1] + 2^p[2])
  <2>1. p \in {q \in Bit \X Bit : q[1] < q[2]} /\ m.BIC[p] = NlEach(2^p[1] + 2^p[2])
    BY DEF Metrics
  <2>2. p[1] \in Bit /\ p[2] \in Bit /\ p[1] < p[2]
    BY <2>1
  <2>3. 2^p[1] + 2^p[2] \in Byte
    BY <2>2, BitsAreBytes
  <2> QED BY <1>2, <2>1, <2>3
<1>6. m.max_WHT = 2 * Max({AbsValue(BiasOf(box, a1, a2)) : a1, a2 \in Masks})
  <2>1. m.max_WHT = Max({AbsValue(spectra[a1][a2]) : a1, a2 \in Masks})
    BY DEF Metrics
  <2> QED BY <2>1, LargestBias
<1>7. \A a1, a2 \in Byte : m.LAT[a1][a2] = BiasOf(box, a1, a2)
  <2>1. \A a1, a2 \in Byte : m.LAT[a1][a2] = spectra[a2][a1] \div 2
    BY DEF Metrics
  <2> HIDE DEF m
  <2> QED BY <2>1, BiasRead
<1>8. m.DDT = DifferenceTable /\ m.bijection = IsBijection
  BY DEF Metrics
<1> HIDE DEF m
<1>9. \A d \in Masks : SumFunction([o \in Byte |-> m.DDT[d][o]]) = N
  BY <1>8, RowCounts
<1>10. m.bijection <=> \A d \in Masks : m.DDT[d][0] = 0
  BY <1>8, BijectionSeen
<1>11. DefinitionsOf(m, box)
  BY <1>3, <1>4, <1>5, <1>6, <1>7, <1>9, <1>10 DEF DefinitionsOf
<1> QED BY <1>11 DEF m

\* After all rounds the spectra count where functions differ.
LEMMA SpectraRead ==
  ASSUME NEW b \in [Byte -> Byte], NEW s, SpectraAfter(b, NBits, s)
  PROVE  SpectraCount(b, s)
<1>1. \A mask, w \in Byte : s[mask][w] = Partly(Component(b, mask), NBits, w)
  BY DEF SpectraAfter
<1> QED BY <1>1, SpectrumCounts DEF SpectraCount

\* Powers of two grow.
LEMMA PowersGrow ==
  ASSUME NEW k \in 0..NBits
  PROVE  (2^k < N <=> k < NBits) /\ (2^k = N <=> k = NBits)
<1> DEFINE below == {j \in 0..NBits : 2^(NBits - j) >= N /\ j # 0}
<1>1. NBits \in Nat /\ N = 2^NBits /\ N \in Nat \ {0}
  BY SizeAssumption
<1>2. below = {}
  <2> SUFFICES ASSUME below # {} PROVE FALSE
    OBVIOUS
  <2>1. below \in SUBSET Nat
    OBVIOUS
  <2>2. PICK j \in below : \A i \in below : j <= i
    <3> HIDE DEF below
    <3> QED BY <2>1, LeastNatural
  <2> DEFINE c == NBits - j
             q == 2^c
  <2>3. j \in 0..NBits /\ j # 0 /\ c \in Nat /\ NBits - (j - 1) = c + 1 /\ q >= N
    BY <1>1, <2>2
  <2>4. q \in Nat \ {0} /\ 2^(c + 1) = 2 * q
    <3> HIDE DEF c
    <3> QED BY <2>3, PowersOfTwo
  <2>5. 2^(NBits - (j - 1)) = 2 * q
    BY <2>3, <2>4
  <2>6. 2 * q > N
    <3> HIDE DEF q
    <3> QED BY <1>1, <2>3, <2>4
  <2>7. CASE j = 1
    <3>1. NBits - (j - 1) = NBits
      BY <1>1, <2>7
    <3>2. 2 * q = N
      BY <1>1, <2>5, <3>1
    <3> HIDE DEF q
    <3> QED BY <1>1, <2>4, <2>6, <3>2
  <2>8. CASE j # 1
    <3>1. j - 1 \in 0..NBits /\ j - 1 # 0
      BY <1>1, <2>3, <2>8
    <3>2. 2^(NBits - (j - 1)) >= N
      <4> HIDE DEF q
      <4> QED BY <1>1, <2>4, <2>5, <2>6
    <3>3. j - 1 \in below
      BY <3>1, <3>2
    <3>4. j <= j - 1
      <4> HIDE DEF below
      <4> QED BY <2>2, <3>3
    <3> QED BY <2>3, <3>4
  <2> QED BY <2>7, <2>8
<1>3. ASSUME k < NBits PROVE 2^k < N
  <2> DEFINE j == NBits - k
             q == 2^k
  <2>1. j \in 0..NBits /\ j # 0 /\ NBits - j = k
    BY <1>1, <1>3
  <2>2. ~(2^(NBits - j) >= N)
    <3> HIDE DEF j
    <3> QED BY <1>2, <2>1
  <2>3. ~(q >= N)
    BY <2>1, <2>2
  <2>4. q \in Nat
    <3>1. k \in Nat
      BY <1>1
    <3> QED BY <3>1, PowersOfTwo
  <2> HIDE DEF q
  <2>5. q < N
    BY <1>1, <2>3, <2>4
  <2> QED BY <2>5 DEF q
<1>4. CASE k = NBits
  BY <1>1, <1>4
<1>5. CASE k # NBits
  <2>1. k < NBits
    BY <1>1, <1>5
  <2> DEFINE q == 2^k
  <2>2. q < N /\ q \in Nat
    <3>1. k \in Nat
      BY <1>1
    <3> QED BY <1>3, <2>1, <3>1, PowersOfTwo
  <2> HIDE DEF q
  <2>3. q < N /\ q # N
    BY <1>1, <2>2
  <2> QED BY <1>5, <2>1, <2>3 DEF q
<1> QED BY <1>4, <1>5

-----------------------------------------------------------------------------
(* The S-box laboratory is right: the inductive invariant. *)

\* The laboratory works on an S-box over the bytes; between the rounds its spectra
\* are the transforms of as many rounds as the width of the next butterflies says;
\* and the metrics it has computed are the ones the criteria define.
LabInv ==
  /\ lpc \in {"built", "supplied", "walsh", "metrics", "done"} => box \in [Byte -> Byte]
  /\ lpc \in {"idle", "called", "keyed", "fill", "built", "supplied"} => step = 1
  /\ lpc = "walsh" => \E k \in 0..NBits : step = 2^k /\ SpectraAfter(box, k, spectra)
  /\ metrics # None =>
       lpc \in {"metrics", "done"} /\ DefinitionsOf(metrics, box)

\* Nothing has been computed when an operation is called.
LEMMA InitLab == Init => LabInv
<1> SUFFICES ASSUME Init PROVE LabInv
  OBVIOUS
<1>1. lpc \in {"idle", "called"} /\ step = 1 /\ metrics = None
  BY DEF Init, LabInit, LabIdle, ConstructInit
<1> QED BY <1>1 DEF LabInv

\* What is constructed is an S-box over the bytes.
LEMMA ConstructsBytes ==
  ASSUME ConstructInv, LabInv, ConstructStep, UNCHANGED <<spectra, step, metrics>>, ConstructInv'
  PROVE  LabInv'
<1>1. lpc \in {"called", "keyed", "fill"} /\ step = 1 /\ metrics = None
  BY DEF LabInv, ConstructStep, StartKeyed, KeepFirst, EndPath, FillIn, EndFill, ConstructDirect
<1>2. step' = 1 /\ metrics' = None
  BY <1>1
<1>3. CASE StartKeyed \/ KeepFirst \/ EndPath \/ FillIn
  <2>1. lpc' \in {"keyed", "fill"}
    BY <1>3 DEF StartKeyed, KeepFirst, EndPath, FillIn
  <2> QED BY <1>2, <2>1 DEF LabInv
<1>4. CASE EndFill \/ ConstructDirect
  <2>1. lpc' = "built" /\ box' = [i \in Byte |-> box'[i]]
    <3>1. CASE EndFill
      BY <3>1 DEF EndFill
    <3>2. CASE ConstructDirect
      BY <3>2 DEF ConstructDirect
    <3> QED BY <1>4, <3>1, <3>2
  <2>2. IsPermutation(box')
    BY <2>1 DEF ConstructInv
  <2>3. \A i \in Byte : box'[i] \in Byte
    BY <2>2 DEF IsPermutation
  <2>4. box' \in [Byte -> Byte]
    BY <2>1, <2>3
  <2> QED BY <1>2, <2>1, <2>4 DEF LabInv
<1> QED BY <1>3, <1>4 DEF ConstructStep

\* The spectra begin as the component functions, which no round has touched.
LEMMA SpectraBegin ==
  ASSUME LabInv, BeginSpectra
  PROVE  LabInv'
<1>1. /\ lpc' = "walsh" /\ box' = box /\ step' = 1 /\ metrics' = None
      /\ box \in [Byte -> Byte]
      /\ spectra' = [mask \in Byte |-> [x \in Byte |-> 1 - 2 * Parity[mask][box[x]]]]
  BY DEF LabInv, BeginSpectra
<1>2. ASSUME NEW mask \in Byte, NEW x \in Byte
      PROVE  1 - 2 * Parity[mask][box[x]] = Partly(Component(box, mask), 0, x)
  <2> DEFINE f == Component(box, mask)
  <2>1. f \in [Byte -> Int]
    BY <1>1, NoBits, ComponentTyped
  <2>2. f[x] = 1 - 2 * Parity[mask][box[x]]
    BY DEF Component
  <2> HIDE DEF f
  <2>3. Partly(f, 0, x) = f[x]
    BY <2>1, TransformStarts
  <2> QED BY <2>2, <2>3 DEF f
<1>3. SpectraAfter(box', 0, spectra')
  BY <1>1, <1>2 DEF SpectraAfter
<1>4. 0 \in 0..NBits /\ step' = 2^0
  BY <1>1, SizeAssumption, PowerOfZero
<1>5. \E k \in 0..NBits : step' = 2^k /\ SpectraAfter(box', k, spectra')
  BY <1>3, <1>4
<1> QED BY <1>1, <1>5 DEF LabInv

\* A round transforms one bit more.
LEMMA SpectraAdvance ==
  ASSUME LabInv, WalshRound
  PROVE  LabInv'
<1>1. /\ lpc = "walsh" /\ lpc' = "walsh" /\ box' = box /\ box \in [Byte -> Byte]
      /\ metrics' = None /\ step < N /\ step' = 2 * step
      /\ spectra' = [mask \in Byte |-> Butterfly(spectra[mask], step)]
  BY DEF LabInv, WalshRound
<1>2. PICK k \in 0..NBits : step = 2^k /\ SpectraAfter(box, k, spectra)
  BY <1>1 DEF LabInv
<1>3. k \in Bit /\ k \in Nat /\ k + 1 \in 0..NBits
  <2>1. k < NBits
    BY <1>1, <1>2, PowersGrow
  <2> QED BY <2>1, SizeAssumption DEF Bit
<1>4. step' = 2^(k + 1)
  BY <1>1, <1>2, <1>3, PowersOfTwo
<1>5. SpectraAfter(box, k + 1, [mask \in Byte |-> Butterfly(spectra[mask], 2^k)])
  BY <1>1, <1>2, <1>3, RoundRun
<1>6. SpectraAfter(box', k + 1, spectra')
  BY <1>1, <1>2, <1>5
<1>7. \E j \in 0..NBits : step' = 2^j /\ SpectraAfter(box', j, spectra')
  BY <1>3, <1>4, <1>6
<1> QED BY <1>1, <1>7 DEF LabInv

\* When the butterflies are as wide as the spectra, the metrics are read.
LEMMA MetricsComputed ==
  ASSUME LabInv, ComputeMetrics
  PROVE  LabInv'
<1>1. /\ lpc = "walsh" /\ lpc' = "metrics" /\ box' = box /\ box \in [Byte -> Byte]
      /\ metrics' = Metrics /\ step = N
  BY DEF LabInv, ComputeMetrics
<1>2. PICK k \in 0..NBits : step = 2^k /\ SpectraAfter(box, k, spectra)
  BY <1>1 DEF LabInv
<1>3. k = NBits
  BY <1>1, <1>2, PowersGrow
<1>4. SpectraCount(box, spectra)
  BY <1>1, <1>2, <1>3, SpectraRead
<1>5. DefinitionsOf(metrics', box')
  <2>1. DefinitionsOf(Metrics, box)
    BY <1>1, <1>4, MetricsRead
  <2> QED BY <1>1, <2>1
<1> QED BY <1>1, <1>5 DEF LabInv

\* Every step keeps the invariants of the construction and of the laboratory.
LEMMA StepLab == ConstructInv /\ LabInv /\ [Next]_evidenceVars => ConstructInv' /\ LabInv'
<1> SUFFICES ASSUME ConstructInv, LabInv, [Next]_evidenceVars PROVE ConstructInv' /\ LabInv'
  OBVIOUS
<1>1. CASE UNCHANGED labVars
  <2>1. ConstructInv'
    BY <1>1 DEF labVars, constructVars, ConstructInv
  <2>2. lpc' = lpc /\ box' = box /\ spectra' = spectra /\ step' = step /\ metrics' = metrics
    BY <1>1 DEF labVars, constructVars
  <2>3. LabInv'
    BY <2>2 DEF LabInv
  <2> QED BY <2>1, <2>3
<1>2. CASE LabStep
  <2>1. ConstructInv'
    BY <1>2, StepConstruct
  <2>2. CASE ConstructStep /\ UNCHANGED <<spectra, step, metrics>>
    BY <2>1, <2>2, ConstructsBytes
  <2>3. CASE SupplyBox
    <3>1. lpc = "called" /\ lpc' = "supplied" /\ box' \in [Byte -> Byte] /\ step' = 1 /\ metrics' = None
      BY <2>3, BoxAssumption DEF SupplyBox, LabInv
    <3> QED BY <2>1, <3>1 DEF LabInv
  <2>4. CASE BeginSpectra
    BY <2>1, <2>4, SpectraBegin
  <2>5. CASE WalshRound
    BY <2>1, <2>5, SpectraAdvance
  <2>6. CASE ComputeMetrics
    BY <2>1, <2>6, MetricsComputed
  <2>7. CASE ReturnMetrics
    <3>1. /\ lpc = "metrics" /\ lpc' = "done" /\ box' = box /\ metrics' = metrics
      BY <2>7 DEF ReturnMetrics
    <3> QED BY <2>1, <3>1 DEF LabInv
  <2> QED BY <1>2, <2>2, <2>3, <2>4, <2>5, <2>6, <2>7 DEF LabStep
<1>3. UNCHANGED labVars \/ LabStep
  BY DEF Next, evidenceVars, operationVars
<1> QED BY <1>1, <1>2, <1>3

\* For every number of bits and every S-box, constructed or supplied: the numbers
\* read off the transforms in place are the ones the criteria define - distances
\* to affine functions, biases, counts of differences, a bijection exactly when no
\* difference vanishes (crypto.py 75-238).
THEOREM MetricsExact == Spec => []MetricsAreDefinitions
<1>1. Init => ConstructInv /\ LabInv
  BY InitConstruct, InitLab
<1>2. ConstructInv /\ LabInv /\ [Next]_evidenceVars => ConstructInv' /\ LabInv'
  BY StepLab
<1>3. LabInv => MetricsAreDefinitions
  <2> SUFFICES ASSUME metrics # None, DefinitionsOf(metrics, box) PROVE MetricsAreDefinitions
    BY DEF LabInv, MetricsAreDefinitions
  <2>1. ASSUME NEW mask PROVE AffineDistance(mask) = DistanceOf(box, mask)
    BY DEF AffineDistance, DistanceOf
  <2>2. ASSUME NEW a1, NEW a2 PROVE Bias(a1, a2) = BiasOf(box, a1, a2)
    BY DEF Bias, BiasOf
  <2>3. \A i \in Bit : metrics.NL_per_bit[i] = AffineDistance(2^i)
    BY <2>1 DEF DefinitionsOf
  <2>4. metrics.NL_min = Min({AffineDistance(mask) : mask \in Masks})
    <3>1. {AffineDistance(mask) : mask \in Masks} = {DistanceOf(box, mask) : mask \in Masks}
      BY <2>1
    <3> QED BY <3>1 DEF DefinitionsOf
  <2>5. \A p \in DOMAIN metrics.BIC : metrics.BIC[p] = AffineDistance(2^p[1] + 2^p[2])
    BY <2>1 DEF DefinitionsOf
  <2>6. metrics.max_WHT = 2 * Max({AbsValue(Bias(a1, a2)) : a1, a2 \in Masks})
    <3> DEFINE A == {AbsValue(Bias(a1, a2)) : a1, a2 \in Masks}
               B == {AbsValue(BiasOf(box, a1, a2)) : a1, a2 \in Masks}
    <3>1. A = B
      BY <2>2
    <3>2. metrics.max_WHT = 2 * Max(B)
      BY DEF DefinitionsOf
    <3> HIDE DEF A, B
    <3>3. metrics.max_WHT = 2 * Max(A)
      BY <3>1, <3>2
    <3> QED BY <3>3 DEF A
  <2>7. \A a1, a2 \in Byte : metrics.LAT[a1][a2] = Bias(a1, a2)
    BY <2>2 DEF DefinitionsOf
  <2>8. /\ \A d \in Masks : SumFunction([o \in Byte |-> metrics.DDT[d][o]]) = N
        /\ metrics.bijection <=> \A d \in Masks : metrics.DDT[d][0] = 0
    BY DEF DefinitionsOf
  <2> QED BY <2>3, <2>4, <2>5, <2>6, <2>7, <2>8 DEF MetricsAreDefinitions
<1> QED BY <1>1, <1>2, <1>3, PTL DEF Spec

=============================================================================
