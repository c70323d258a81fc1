----------------------------- MODULE LibraryProofs -----------------------------
(***************************************************************************)
(* Proofs about Library: a radius replay certifies the reviewed lanes and  *)
(* nothing else, a coefficient certificate replays exactly when it holds,  *)
(* the integrity check is about the disk, results serialise and payloads   *)
(* that are accepted state the truth, the verdict on an expression DAG is  *)
(* right, and every exit code of the command has its documented cause, for *)
(* every registry, catalog, corpus, set of artifacts, DAG and command.     *)
(***************************************************************************)
EXTENDS Library, DagProofs

-----------------------------------------------------------------------------
(* Radius replay: what a verdict says of the record. *)

\* A genuine record of a reviewed direction carries the certificate of its lane
\* and agrees with it.
LEMMA GenuineAgrees ==
  ASSUME NEW record \in Registry, Directed(record) \in DOMAIN Lanes
  PROVE  /\ record.certificate # None /\ CertificateAgrees(record)
         /\ record.exact = Lanes[Directed(record)].exact
         /\ record.certificate.exact = Lanes[Directed(record)].exact
         /\ record.certificate.steps = Lanes[Directed(record)].steps
<1>1. PICK row \in Rows : record = RecordOf(row)
  BY DEF Registry
<1> DEFINE direction == Directed(row)
           lane == Lanes[direction]
           certificate == CertificateOf(direction)
<1>2. Directed(record) = direction
  BY <1>1 DEF RecordOf, Directed
<1>3. /\ record.source = row.source /\ record.target = row.target
      /\ record.status = row.status /\ record.paper = row.paper
      /\ record.exact = lane.exact /\ record.text = "lane" /\ record.provenance = "fixture"
      /\ record.certificate = certificate
  BY <1>1, <1>2 DEF RecordOf
<1>4. lane.steps > 0 /\ Agrees(lane.baked, row.status, row.paper) /\ certificate # None
  BY <1>2, LaneAssumption
<1>5. /\ certificate.source = direction[1] /\ certificate.target = direction[2]
      /\ certificate.machine = "proven" /\ certificate.baked = lane.baked
      /\ certificate.exact = lane.exact /\ certificate.steps = lane.steps
  BY DEF CertificateOf
<1>6. Directed(certificate) = direction
  BY <1>5 DEF Directed
<1> HIDE DEF direction, certificate, lane
<1>7. CertificateAgrees(record)
  BY <1>2, <1>3, <1>4, <1>5, <1>6 DEF CertificateAgrees
<1> QED BY <1>2, <1>3, <1>4, <1>5, <1>7 DEF lane

\* The candidate that a replay looks at.
Candidate(record, candidate) == IF candidate = None THEN record.exact ELSE candidate

\* What a replay of a row of the registry may certify.
Provable(record, candidate) ==
  /\ record \in Registry /\ Directed(record) \in DOMAIN Lanes
  /\ Same(Candidate(record, candidate), Lanes[Directed(record)].exact)
  /\ \A n \in DOMAIN Chain[Directed(record)] : Chain[Directed(record)][n]

\* The verdict of a replay is one of the results there are, and it is about the
\* record, its lane and the candidate.
VerdictOn(record, candidate, r) ==
  /\ r \in Results
  /\ r.kind = "result" =>
       /\ r.certified <=> Provable(record, candidate)
       /\ r.certified <=> r.status = "proven"
       /\ r.failure = "corrupt_artifact" <=> record \notin Registry
       /\ r.failure = "unsupported" <=>
            record \in Registry /\ Directed(record) \notin DOMAIN Lanes \cup DOMAIN PaperRadii

\* The registry tells its rows from everything else by all their fields.
LEMMA TrustedIsRegistered ==
  ASSUME NEW record
  PROVE  record \in Trusted(Directed(record)) <=> record \in Registry
BY DEF Trusted

\* What stands in the way of a replay: nothing exactly for the rows of reviewed
\* lanes, a damaged artifact exactly for what is no row.
LEMMA BlockerExact ==
  ASSUME NEW record
  PROVE  /\ Blocker(record) \in {"none", "unsupported", "corrupt_artifact"}
         /\ Blocker(record) = "corrupt_artifact" <=> record \notin Registry
         /\ Blocker(record) = "none" <=>
              record \in Registry /\ Directed(record) \in DOMAIN Lanes
         /\ record \in Registry /\ Directed(record) \notin DOMAIN Lanes =>
              record.certificate = None
<1>1. ASSUME record \in Registry, Directed(record) \notin DOMAIN Lanes
      PROVE  record.certificate = None
  <2>1. PICK row \in Rows : record = RecordOf(row)
    BY <1>1 DEF Registry
  <2>2. Directed(record) = Directed(row)
    BY <2>1 DEF RecordOf, Directed
  <2> QED BY <1>1, <2>1, <2>2 DEF RecordOf
<1>2. CertificateAgrees(record) => Directed(record) \in DOMAIN Lanes
  BY DEF CertificateAgrees
<1>3. record \in Registry /\ Directed(record) \in DOMAIN Lanes =>
        record.certificate # None /\ CertificateAgrees(record)
  BY GenuineAgrees
<1>4. Blocker(record) =
        IF record.certificate = None
        THEN IF record \in Registry THEN "unsupported" ELSE "corrupt_artifact"
        ELSE IF CertificateAgrees(record) /\ record \in Registry THEN "none" ELSE "corrupt_artifact"
  BY TrustedIsRegistered DEF Blocker, UncertifiedBlocker
<1> QED BY <1>1, <1>2, <1>3, <1>4

\* A chain yields what it is asked for exactly when every step of it passes.
LEMMA ChainVerdict ==
  ASSUME NEW direction, NEW passing \in {"proven", "symbolic_replay_only"}, NEW limit, NEW declared
  PROVE  LET r == RunChain(direction, passing, limit, declared)
         IN /\ r \in Results
            /\ r.kind = "result" =>
                 /\ r.failure = None
                 /\ r.certified <=> r.status = "proven"
                 /\ r.certified <=> passing = "proven" /\ \A n \in DOMAIN Chain[direction] : Chain[direction][n]
BY DEF RunChain, Raised, Result, Results

\* A candidate that is not the exact radius is turned away before the chain runs.
LEMMA CandidateVerdict ==
  ASSUME NEW given, NEW exact, NEW run \in Results, run.kind = "result" => run.failure = None
  PROVE  LET r == WithCandidate(given, exact, run)
         IN /\ r \in Results
            /\ Same(given, exact) => r = run
            /\ ~Same(given, exact) /\ r.kind = "result" =>
                 ~r.certified /\ r.status # "proven" 
            /\ r.kind = "result" => r.failure \in {None, "invalid_input"}
BY DEF WithCandidate, Failed, Raised, Result, Results, FailureStates, Same, Parses

\* The verdict of every replay of a record is right.
LEMMA ReplayVerdict ==
  ASSUME NEW record, NEW candidate, NEW limit
  PROVE  VerdictOn(record, candidate, ReplayRecord(record, candidate, limit))
<1> DEFINE direction == Directed(record)
           blocker == Blocker(record)
           r == ReplayRecord(record, candidate, limit)
           paper == PaperRadii[direction]
           Given(own) == IF candidate # None THEN candidate ELSE own
           run == RunChain(direction, "proven", limit, record.certificate.steps)
           symbolic == RunChain(direction, "symbolic_replay_only", limit, 0)
<1>0. None \notin {"invalid_input", "unsupported", "corrupt_artifact"}
  BY NothingAssumption DEF FailureStates
<1>1. CASE blocker = "unsupported" /\ direction \in DOMAIN PaperRadii
  <2>1. r = WithCandidate(Given(paper), paper, symbolic)
    BY <1>1 DEF ReplayRecord
  <2>2. symbolic \in Results /\ (symbolic.kind = "result" =>
          symbolic.failure = None /\ ~symbolic.certified /\ symbolic.status # "proven")
    BY ChainVerdict
  <2>3. r \in Results /\ (r.kind = "result" =>
          ~r.certified /\ r.status # "proven" /\ r.failure \in {None, "invalid_input"})
    <3> HIDE DEF r, symbolic, paper, Given
    <3>1. Same(Given(paper), paper) \/ ~Same(Given(paper), paper)
      OBVIOUS
    <3> QED BY <2>1, <2>2, <3>1, CandidateVerdict
  <2>4. ~Provable(record, candidate) /\ record \in Registry
    BY <1>1, BlockerExact DEF Provable
  <2> HIDE DEF r
  <2>5. VerdictOn(record, candidate, r)
    BY <1>0, <1>1, <2>3, <2>4 DEF VerdictOn
  <2> QED BY <2>5 DEF r
<1>2. CASE blocker = "unsupported" /\ direction \notin DOMAIN PaperRadii
  <2>1. r = Failed("unsupported", "not_replayable")
    BY <1>2 DEF ReplayRecord
  <2>2. r \in Results /\ r.certified = FALSE /\ r.status = "not_replayable" /\ r.failure = "unsupported"
    BY <2>1 DEF Failed, Result, Results, FailureStates
  <2>3. ~Provable(record, candidate) /\ record \in Registry /\ direction \notin DOMAIN Lanes
    BY <1>2, BlockerExact DEF Provable
  <2> HIDE DEF r
  <2>4. VerdictOn(record, candidate, r)
    BY <1>2, <2>2, <2>3 DEF VerdictOn
  <2> QED BY <2>4 DEF r
<1>3. CASE blocker = "corrupt_artifact"
  <2>1. r = Failed("corrupt_artifact", "corrupt_artifact")
    BY <1>3 DEF ReplayRecord
  <2>2. /\ r \in Results /\ r.certified = FALSE /\ r.status = "corrupt_artifact"
        /\ r.failure = "corrupt_artifact"
    BY <2>1 DEF Failed, Result, Results, FailureStates
  <2>3. ~Provable(record, candidate) /\ record \notin Registry
    BY <1>3, BlockerExact DEF Provable
  <2> HIDE DEF r
  <2>4. VerdictOn(record, candidate, r)
    BY <2>2, <2>3 DEF VerdictOn
  <2> QED BY <2>4 DEF r
<1>4. CASE blocker = "none"
  <2>1. r = WithCandidate(Given(record.exact), record.certificate.exact, run)
    BY <1>4 DEF ReplayRecord
  <2>2. record \in Registry /\ direction \in DOMAIN Lanes
    BY <1>4, BlockerExact
  <2>3. record.certificate.exact = Lanes[direction].exact
    BY <2>2, GenuineAgrees
  <2>4. Given(record.exact) = Candidate(record, candidate)
    BY DEF Candidate
  <2>5. run \in Results /\ (run.kind = "result" =>
          /\ run.failure = None
          /\ run.certified <=> run.status = "proven"
          /\ run.certified <=> \A n \in DOMAIN Chain[direction] : Chain[direction][n])
    <3> HIDE DEF direction
    <3> QED BY ChainVerdict
  <2> DEFINE same == Same(Candidate(record, candidate), Lanes[direction].exact)
  <2>6. /\ r \in Results
        /\ same => r = run
        /\ ~same /\ r.kind = "result" => ~r.certified /\ r.status # "proven"
        /\ r.kind = "result" => r.failure \in {None, "invalid_input"}
    <3> HIDE DEF r, run, Given
    <3> QED BY <2>1, <2>3, <2>4, <2>5, CandidateVerdict
  <2>7. Provable(record, candidate) <=> same /\ \A n \in DOMAIN Chain[direction] : Chain[direction][n]
    BY <2>2 DEF Provable
  <2> DEFINE passes == \A n \in DOMAIN Chain[direction] : Chain[direction][n]
             proved == Provable(record, candidate)
  <2>8. /\ run.kind = "result" => run.certified <=> passes
        /\ proved <=> same /\ passes
    BY <2>5, <2>7
  <2> HIDE DEF r, run, same, passes, proved
  <2>9. VerdictOn(record, candidate, r)
    <3>1. CASE same
      <4>1. r.kind = "result" =>
              /\ r.certified <=> proved
              /\ r.certified <=> r.status = "proven"
              /\ r.failure \notin {"corrupt_artifact", "unsupported"}
        BY <1>0, <2>5, <2>6, <2>8, <3>1
      <4> QED BY <2>2, <2>6, <4>1 DEF VerdictOn, proved
    <3>2. CASE ~same
      <4>1. r.kind = "result" =>
              /\ ~r.certified /\ ~proved /\ r.status # "proven"
              /\ r.failure \notin {"corrupt_artifact", "unsupported"}
        BY <1>0, <2>6, <2>8, <3>2
      <4> QED BY <2>2, <2>6, <4>1 DEF VerdictOn, proved
    <3> QED BY <3>1, <3>2
  <2> QED BY <2>9 DEF r
<1> QED BY <1>1, <1>2, <1>3, <1>4, BlockerExact

-----------------------------------------------------------------------------
(* Radius replay: every answer is such a verdict. *)

\* What may be answered to a replay that was asked for.
AnswerTo(given, candidate, r) ==
  /\ r \in Results
  /\ r.kind = "result" =>
       \/ AsRecord(given) = None /\ r = Failed("invalid_input", "invalid_input")
       \/ AsRecord(given) # None /\ VerdictOn(AsRecord(given), candidate, r)

ReplayInv == request # None => AnswerTo(request.given, request.candidate, result)

\* Replay answers so, whatever it is given.
LEMMA ReplayAnswers ==
  ASSUME NEW given, NEW candidate, NEW limit
  PROVE  AnswerTo(given, candidate, Replay(given, candidate, limit))
<1> DEFINE record == AsRecord(given)
           r == Replay(given, candidate, limit)
<1>1. /\ Failed("invalid_input", "invalid_input") \in Results
      /\ \A e \in {"ResourceLimitError", "InvalidInputError", "RuntimeError"} :
           Raised(e) \in Results /\ Raised(e).kind = "raised"
  BY DEF Failed, Result, Raised, Results, FailureStates
<1>2. VerdictOn(record, candidate, ReplayRecord(record, candidate, limit))
  BY ReplayVerdict
<1>3. ReplayRecord(record, candidate, limit) \in Results
  BY <1>2 DEF VerdictOn
<1>4. \/ \E e \in {"ResourceLimitError", "InvalidInputError", "RuntimeError"} : r = Raised(e)
      \/ record = None /\ r = Failed("invalid_input", "invalid_input")
      \/ record # None /\ r = ReplayRecord(record, candidate, limit)
  BY DEF Replay
<1> HIDE DEF r, record
<1>5. AnswerTo(given, candidate, r)
  BY <1>1, <1>2, <1>3, <1>4 DEF AnswerTo, record
<1> QED BY <1>5 DEF r

\* An answer that was given keeps the registry from being asked again.
LEMMA AnsweredOnce ==
  ReplayInv /\ result = None => request = None
BY NothingAssumption DEF ReplayInv, AnswerTo

\* Every step of the radius registry keeps the answers right.
LEMMA LookupAnswers ==
  ASSUME ReplayInv, NEW direction, Lookup(direction)
  PROVE  ReplayInv'
<1>1. result = None /\ UNCHANGED request
  BY DEF Lookup, Find
<1> QED BY <1>1, AnsweredOnce DEF ReplayInv

\* So does a replay that is asked for by its direction.
LEMMA VerifyAnswers ==
  ASSUME ReplayInv, NEW direction, NEW candidate, NEW limit, Verify(direction, candidate, limit)
  PROVE  ReplayInv'
<1>1. request = None
  BY AnsweredOnce DEF Verify, Find
<1>2. \/ UNCHANGED request
      \/ \E r \in Trusted(direction) :
           /\ request' = [given |-> r, candidate |-> candidate, limit |-> limit]
           /\ result' = Replay(r, candidate, limit)
  BY DEF Verify, Find
<1>3. ASSUME NEW r, request' = [given |-> r, candidate |-> candidate, limit |-> limit],
             result' = Replay(r, candidate, limit)
      PROVE  ReplayInv'
  <2>1. AnswerTo(r, candidate, result')
    BY <1>3, ReplayAnswers
  <2>2. request'.given = r /\ request'.candidate = candidate
    BY <1>3
  <2> QED BY <2>1, <2>2 DEF ReplayInv
<1> QED BY <1>1, <1>2, <1>3 DEF ReplayInv

\* And what the holder of a record does with it.
LEMMA HeldAnswers ==
  ASSUME ReplayInv,
         \/ Serialize \/ Alter \/ Lose \/ Restart
         \/ \E candidate \in Candidates, limit \in StepLimits : ReplayHeld(candidate, limit)
  PROVE  ReplayInv'
<1>1. CASE Serialize \/ Alter \/ Lose \/ Restart
  <2>1. UNCHANGED <<request, result>>
    BY <1>1 DEF Serialize, Alter, Lose, Restart, Changed
  <2> QED BY <2>1 DEF ReplayInv
<1>2. ASSUME NEW candidate \in Candidates, NEW limit \in StepLimits, ReplayHeld(candidate, limit)
      PROVE  ReplayInv'
  <2>1. AnswerTo(held, candidate, result')
    BY <1>2, ReplayAnswers DEF ReplayHeld
  <2>2. request'.given = held /\ request'.candidate = candidate
    BY <1>2 DEF ReplayHeld
  <2> QED BY <2>1, <2>2 DEF ReplayInv
<1> QED BY <1>1, <1>2

\* Every step of the library and of the command keeps the answers right.
LEMMA StepAnswers ==
  ReplayInv /\ [Next]_<<dagVars, contractVars, cliVars>> => ReplayInv'
<1> SUFFICES ASSUME ReplayInv, [Next]_<<dagVars, contractVars, cliVars>> PROVE ReplayInv'
  OBVIOUS
<1>1. CASE UNCHANGED radiusVars
  BY <1>1 DEF ReplayInv, radiusVars
<1>2. CASE LibraryStep
  <2>1. CASE RadiusStep
    BY <2>1, LookupAnswers, VerifyAnswers, HeldAnswers DEF RadiusStep
  <2>2. CASE UNCHANGED radiusVars
    BY <1>1, <2>2
  <2> QED BY <1>2, <2>1, <2>2 DEF LibraryStep
<1>3. CASE CommandStep
  <2>1. CASE Parse \/ RunArtifact \/ Emit \/ RunOther \/ Report
    BY <1>1, <2>1 DEF Parse, RunArtifact, Emit, RunOther, Report
  <2>2. CASE RunWalkthrough
    BY <2>2, VerifyAnswers DEF RunWalkthrough
  <2>3. ASSUME NEW direction, NEW candidate, NEW limit, RunReplay(direction, candidate, limit)
        PROVE  ReplayInv'
    BY <2>3, VerifyAnswers DEF RunReplay
  <2>4. ASSUME NEW direction, RunRadius(direction) PROVE ReplayInv'
    BY <2>4, LookupAnswers DEF RunRadius
  <2>5. ASSUME NEW class, NEW name, CallArtifact(class, name) PROVE ReplayInv'
    BY <1>1, <2>5 DEF CallArtifact
  <2> QED BY <1>3, <2>1, <2>2, <2>3, <2>4, <2>5 DEF CommandStep
<1> QED BY <1>1, <1>2, <1>3 DEF Next, cliVars

\* No replay has been asked for at first.
LEMMA InitAnswers == Init => ReplayInv
BY DEF Init, CliIdle, RadiusIdle, RadiusInit, CommandInit, ReplayInv

\* A replay proves exactly the reviewed lanes, and tells a row without a
\* certificate from a record that is no row, whatever the holder of a record did
\* to it (radii.py 1176-1264, its docstring 1184-1195).
THEOREM ReplaysFailClosed == Spec => []ReplayFailsClosed
<1>1. ReplayInv => ReplayFailsClosed
  <2> SUFFICES ASSUME ReplayInv, request # None, result.kind = "result"
               PROVE  ReplayFailsClosed
    BY DEF ReplayFailsClosed
  <2> DEFINE record == AsRecord(request.given)
  <2>1. CASE record = None /\ result = Failed("invalid_input", "invalid_input")
    <3>1. /\ result.certified = FALSE /\ result.status = "invalid_input"
          /\ result.failure = "invalid_input"
      BY <2>1 DEF Failed, Result
    <3> QED BY <2>1, <3>1 DEF ReplayFailsClosed
  <2>2. CASE record # None /\ VerdictOn(record, request.candidate, result)
    <3> HIDE DEF record
    <3>1. /\ result.certified <=> Provable(record, request.candidate)
          /\ result.certified <=> result.status = "proven"
          /\ result.failure = "corrupt_artifact" <=> record \notin Registry
          /\ result.failure = "unsupported" <=>
               record \in Registry /\ Directed(record) \notin DOMAIN Lanes \cup DOMAIN PaperRadii
      BY <2>2 DEF VerdictOn
    <3> QED BY <2>2, <3>1 DEF ReplayFailsClosed, Provable, Candidate, record
  <2> QED BY <2>1, <2>2 DEF ReplayInv, AnswerTo
<1> QED BY <1>1, InitAnswers, StepAnswers, PTL DEF Spec

-----------------------------------------------------------------------------
(* Results: what is accepted is true. *)

Types == {"generator_series", "fekete_szego", "counterexample_verification"}
Fields == {"type", "inputs", "exact", "dag", "legacy", "evidence", "computational", "failure",
           "assumptions", "report", "provenance", "catalog", "source"}

InputsOf(type) ==
  CASE type = "generator_series" -> {"generator", "order"}
    [] type = "fekete_szego" -> {"generator", "mu"}
    [] OTHER -> {"property", "point"}
ExactOf(type) ==
  CASE type = "generator_series" -> {"formula", "coefficients"}
    [] type = "fekete_szego" -> {"formula", "b1", "b2", "value"}
    [] OTHER -> {"point", "interval", "threshold"}
LegacyOf(type) ==
  InputsOf(type) \cup ExactOf(type)
    \cup (IF type = "counterexample_verification" THEN {"certified", "direction"} ELSE {})

\* A payload has its fields, however it is rewritten.
Shaped(p) ==
  /\ DOMAIN p = Fields /\ p.type \in Types
  /\ DOMAIN p.inputs = InputsOf(p.type)
  /\ DOMAIN p.exact = ExactOf(p.type) /\ DOMAIN p.dag = ExactOf(p.type)
  /\ DOMAIN p.legacy = LegacyOf(p.type)

PayloadInv ==
  /\ edits \in Nat
  /\ rpc \in {"built", "accepted"} => Shaped(payload)
  /\ rpc = "accepted" \/ (rpc = "built" /\ edits = 0) => Accepted(payload)

\* What the validator accepts states the truth.
LEMMA AcceptedStatesTruth ==
  ASSUME NEW p, Shaped(p), Accepted(p)
  PROVE  IF p.report.success
         THEN /\ StatesTruth(p) /\ p.failure = Nothing
              /\ p.provenance = "built_in" /\ "generator" \in DOMAIN p.legacy =>
                   \E k \in DOMAIN Builtin :
                     p.legacy.generator = <<k>> /\ p.legacy.formula = Builtin[k]
         ELSE {p.evidence, p.computational} = {p.failure} /\ p.failure # Nothing
<1>1. CASE ~p.report.success
  BY <1>1 DEF Accepted, FailureOK
<1>2. CASE p.report.success
  <2>1. p.failure = Nothing /\ p.dag = p.exact
    BY <1>2 DEF Accepted, FailureOK, AuthoritativeOK
  <2>2. /\ \A k \in DOMAIN p.legacy : k \in DOMAIN p.inputs => p.legacy[k] = p.inputs[k]
        /\ \A k \in DOMAIN p.legacy : k \in DOMAIN p.exact => p.legacy[k] = p.exact[k]
    BY DEF Accepted, OperationOK, RepeatsAgree
  <2>3. CASE p.type = "generator_series"
    <3>1. /\ p.legacy.generator = p.inputs.generator /\ p.legacy.order = p.inputs.order
          /\ p.legacy.formula = p.dag.formula /\ p.legacy.coefficients = p.dag.coefficients
      BY <2>1, <2>2, <2>3 DEF Shaped, InputsOf, ExactOf, LegacyOf
    <3>2. GeneratorOK(p) /\ SeriesOK(p)
      BY <1>2, <2>3 DEF Accepted, AuthoritativeOK
    <3> QED BY <1>2, <2>1, <2>3, <3>1, <3>2 DEF GeneratorOK, SeriesOK, StatesTruth
  <2>4. CASE p.type = "fekete_szego"
    <3>1. /\ p.legacy.generator = p.inputs.generator /\ p.legacy.mu = p.inputs.mu
          /\ p.legacy.formula = p.dag.formula /\ p.legacy.value = p.dag.value
      BY <2>1, <2>2, <2>4 DEF Shaped, InputsOf, ExactOf, LegacyOf
    <3>2. GeneratorOK(p) /\ FeketeOK(p)
      BY <1>2, <2>4 DEF Accepted, AuthoritativeOK
    <3> QED BY <1>2, <2>1, <2>4, <3>1, <3>2 DEF GeneratorOK, FeketeOK, StatesTruth
  <2>5. CASE p.type = "counterexample_verification"
    <3>1. p.legacy.point = p.inputs.point /\ p.legacy.interval = p.dag.interval
      BY <2>1, <2>2, <2>5 DEF Shaped, InputsOf, ExactOf, LegacyOf
    <3>2. WitnessOK(p)
      BY <1>2, <2>5 DEF Accepted, AuthoritativeOK
    <3>3. "generator" \notin DOMAIN p.legacy
      BY <2>5 DEF Shaped, InputsOf, ExactOf, LegacyOf
    <3> QED BY <1>2, <2>1, <2>5, <3>1, <3>2, <3>3 DEF WitnessOK, StatesTruth
  <2> QED BY <2>3, <2>4, <2>5 DEF Shaped, Types
<1> QED BY <1>1, <1>2

\* A payload is built with the fields of its type.
LEMMA BuiltShaped ==
  ASSUME NEW a, a.type \in Types
  PROVE  Shaped(Build(a))
<1> DEFINE p == Build(a)
<1>1. /\ DOMAIN p = Fields /\ p.type = a.type /\ p.inputs = Inputs(a)
      /\ p.exact = Exact(a) /\ p.dag = Exact(a) /\ p.legacy = Legacy(a)
  BY DEF Build, Fields
<1>2. /\ DOMAIN Inputs(a) = InputsOf(a.type) /\ DOMAIN Exact(a) = ExactOf(a.type)
      /\ DOMAIN Legacy(a) = LegacyOf(a.type)
  <2>1. CASE a.type = "generator_series"
    BY <2>1 DEF Inputs, Exact, Legacy, InputsOf, ExactOf, LegacyOf
  <2>2. CASE a.type = "fekete_szego"
    BY <2>2 DEF Inputs, Exact, Legacy, InputsOf, ExactOf, LegacyOf
  <2>3. CASE a.type = "counterexample_verification"
    BY <2>3 DEF Inputs, Exact, Legacy, InputsOf, ExactOf, LegacyOf
  <2> QED BY <2>1, <2>2, <2>3 DEF Types
<1> HIDE DEF p
<1>3. Shaped(p)
  BY <1>1, <1>2 DEF Shaped
<1> QED BY <1>3 DEF p

\* Replacing a value in some places keeps the fields.
LEMMA PutShaped ==
  ASSUME NEW p, Shaped(p), NEW places, NEW k, NEW v
  PROVE  Shaped(Put(p, places, k, v))
<1> DEFINE at(q, place) == IF place \in places /\ k \in DOMAIN q[place]
                           THEN [q EXCEPT ![place][k] = v] ELSE q
<1>1. ASSUME NEW q, Shaped(q), NEW place \in Place
      PROVE  Shaped(at(q, place))
  <2> DEFINE r == [q EXCEPT ![place][k] = v]
  <2>1. place \in Fields \ {"type"}
    BY DEF Place, Fields
  <2>2. /\ DOMAIN r = Fields /\ r.type = q.type
        /\ \A x \in Place : DOMAIN r[x] = DOMAIN q[x]
    BY <1>1, <2>1 DEF Shaped, Fields, Place
  <2>3. /\ DOMAIN r.inputs = DOMAIN q.inputs /\ DOMAIN r.exact = DOMAIN q.exact
        /\ DOMAIN r.dag = DOMAIN q.dag /\ DOMAIN r.legacy = DOMAIN q.legacy
    BY <2>2 DEF Place
  <2> HIDE DEF r
  <2>4. Shaped(r)
    BY <1>1, <2>2, <2>3 DEF Shaped
  <2> QED BY <1>1, <2>4 DEF r
<1>2. Put(p, places, k, v) = at(at(at(at(p, "inputs"), "exact"), "dag"), "legacy")
  BY DEF Put
<1> HIDE DEF at
<1>3. Shaped(at(p, "inputs"))
  BY <1>1 DEF Place
<1>4. Shaped(at(at(p, "inputs"), "exact"))
  BY <1>1, <1>3 DEF Place
<1>5. Shaped(at(at(at(p, "inputs"), "exact"), "dag"))
  BY <1>1, <1>4 DEF Place
<1>6. Shaped(at(at(at(at(p, "inputs"), "exact"), "dag"), "legacy"))
  BY <1>1, <1>5 DEF Place
<1> QED BY <1>2, <1>6

\* No rewriting adds or removes a field.
LEMMA RewrittenShaped ==
  ASSUME NEW p, Shaped(p), NEW q \in Rewritten(p)
  PROVE  Shaped(q)
<1>1. CASE q \in Restated(p)
  <2>1. PICK k \in DOMAIN p.legacy : q \in {Put(p, places, k, v) : v \in Others(p, k),
                                          places \in {Place} \cup {{place} : place \in Place}}
    BY <1>1 DEF Restated
  <2>2. PICK v, places : q = Put(p, places, k, v)
    BY <2>1
  <2> QED BY <2>2, PutShaped
<1>2. ASSUME DOMAIN q = DOMAIN p, q.type = p.type, q.inputs = p.inputs, q.exact = p.exact,
             q.dag = p.dag, q.legacy = p.legacy
      PROVE  Shaped(q)
  BY <1>2 DEF Shaped
<1>3. Fields = {"type", "inputs", "exact", "dag", "legacy"} \cup
        {"evidence", "computational", "failure", "assumptions", "report", "provenance", "catalog", "source"}
  BY DEF Fields
<1>4. CASE q \in Reclaimed(p)
  <2>1. /\ DOMAIN q = DOMAIN p /\ q.type = p.type /\ q.inputs = p.inputs /\ q.exact = p.exact
        /\ q.dag = p.dag /\ q.legacy = p.legacy
    BY <1>3, <1>4 DEF Shaped, Reclaimed
  <2> QED BY <1>2, <2>1
<1>5. ASSUME NEW x, q = [p EXCEPT !.report = x]
      PROVE  Shaped(q)
  <2>1. /\ DOMAIN q = DOMAIN p /\ q.type = p.type /\ q.inputs = p.inputs /\ q.exact = p.exact
        /\ q.dag = p.dag /\ q.legacy = p.legacy
    BY <1>3, <1>5 DEF Shaped
  <2> QED BY <1>2, <2>1
<1>6. CASE q \in Reassessed(p)
  <2>1. CASE q = [p EXCEPT !.report.success = ~@]
    <3>1. q = [p EXCEPT !.report = [p.report EXCEPT !.success = ~@]]
      BY <2>1
    <3> QED BY <1>5, <3>1
  <2>2. CASE \E checks : q = [p EXCEPT !.report = Reported(checks)]
    BY <1>5, <2>2
  <2> QED BY <1>6, <2>1, <2>2 DEF Reassessed
<1> QED BY <1>1, <1>4, <1>6 DEF Rewritten

\* A result object an operation or a caller made.
Constructed(a) ==
  \/ /\ a.type = "generator_series" /\ a.generator \in Generators
  \/ /\ a.type = "fekete_szego" /\ a.generator \in Generators
  \/ /\ a.type = "counterexample_verification"
     /\ Enclosure[a.property, a.point] # Nothing /\ a.threshold = Threshold(a.property)

\* What the results are between the steps.
ResultInv ==
  /\ rpc \in {"idle", "asked"} => answer = Nothing
  /\ rpc = "returned" => Constructed(answer)
  /\ rpc = "asked" => question \in Questions
  /\ PayloadInv
  /\ ComputedResultsSerialise

\* A report keeps its checks, and its success is what they say.
LEMMA ReportedIs ==
  ASSUME NEW checks
  PROVE  Reported(checks).checks = checks /\ Reported(checks).success = Passed(checks)
BY DEF Reported

\* A report's success is a Boolean and follows from its checks.
LEMMA ReportedFollows ==
  ASSUME NEW checks
  PROVE  LET r == Reported(checks)
         IN /\ r.checks = checks /\ r.success \in BOOLEAN
            /\ r.success => \A n \in DOMAIN checks : checks[n].required => checks[n].status = "pass"
<1> DEFINE r == Reported(checks)
<1>1. r.checks = checks /\ r.success = Passed(checks)
  BY DEF Reported
<1>2. /\ Passed(checks) \in BOOLEAN
      /\ Passed(checks) =>
           \A n \in DOMAIN checks : checks[n].required => checks[n].status = "pass"
  BY DEF Passed, RequiredOf
<1> HIDE DEF r
<1>3. /\ r.checks = checks /\ r.success \in BOOLEAN
      /\ r.success => \A n \in DOMAIN checks : checks[n].required => checks[n].status = "pass"
  BY <1>1, <1>2
<1> QED BY <1>3 DEF r

\* The generator of a result is the catalog's when it says so.
LEMMA GeneratorKnown ==
  ASSUME NEW g \in Generators
  PROVE  /\ g.own \in BOOLEAN
         /\ g.own => \E k \in DOMAIN Builtin : Identity(g) = <<k>> /\ g.phi = Builtin[k]
<1>1. CASE g \in Catalogued
  <2>1. PICK k \in DOMAIN Builtin : g = [key |-> k, phi |-> Builtin[k], own |-> TRUE]
    BY <1>1 DEF Catalogued
  <2>2. g.own = TRUE /\ g.key = k /\ g.phi = Builtin[k]
    BY <2>1
  <2> QED BY <2>2 DEF Identity
<1>2. CASE g \in Callers
  <2>1. g.own = FALSE
    BY <1>2 DEF Callers
  <2> QED BY <2>1
<1> QED BY <1>1, <1>2 DEF Generators

\* A payload that was built repeats its facts as they are.
LEMMA BuiltRepeats ==
  ASSUME NEW a, a.type \in Types
  PROVE  RepeatsAgree(Build(a))
<1> DEFINE p == Build(a)
<1>1. p.inputs = Inputs(a) /\ p.exact = Exact(a) /\ p.legacy = Legacy(a)
  BY DEF Build
<1>2. \A k \in DOMAIN Legacy(a) :
        /\ k \in DOMAIN Inputs(a) => Legacy(a)[k] = Inputs(a)[k]
        /\ k \in DOMAIN Exact(a) => Legacy(a)[k] = Exact(a)[k]
  <2>1. CASE a.type = "generator_series"
    BY <2>1 DEF Inputs, Exact, Legacy
  <2>2. CASE a.type = "fekete_szego"
    BY <2>2 DEF Inputs, Exact, Legacy
  <2>3. CASE a.type = "counterexample_verification"
    BY <2>3 DEF Inputs, Exact, Legacy
  <2> QED BY <2>1, <2>2, <2>3 DEF Types
<1> HIDE DEF p
<1>3. RepeatsAgree(p)
  BY <1>1, <1>2 DEF RepeatsAgree
<1> QED BY <1>3 DEF p

\* The reports name their checks, which are all required.
LEMMA ReportNames ==
  ASSUME NEW a, a.type \in Types
  PROVE  /\ DOMAIN ReportOf(a).checks = CheckNames(a.type)
         /\ \A n \in DOMAIN ReportOf(a).checks : ReportOf(a).checks[n].required
         /\ ReportOf(a).checks # <<>> /\ ReportOf(a) = Reported(ReportOf(a).checks)
<1>1. CASE a.type = "generator_series"
  <2> DEFINE checks == [generator_normalization |-> Checked(Normalized(a.generator.phi)),
               exact_taylor_coefficients |->
                 Checked(/\ Normalized(a.generator.phi)
                         /\ a.coefficients = Taylor(a.generator.phi, a.order))]
  <2>1. ReportOf(a) = Reported(checks)
    BY <1>1 DEF ReportOf
  <2>2. /\ DOMAIN checks = CheckNames(a.type) /\ "generator_normalization" \in DOMAIN checks
        /\ \A n \in DOMAIN checks : checks[n].required
    BY <1>1 DEF CheckNames, Checked, Check
  <2> HIDE DEF checks
  <2>3. checks # <<>>
    BY <2>2
  <2> QED BY <2>1, <2>2, <2>3, ReportedFollows
<1>2. CASE a.type = "fekete_szego"
  <2> DEFINE phi == a.generator.phi
             checks == [generator_normalization |-> Checked(Normalized(phi)),
               generator_taylor_coefficients |-> Checked(a.b1 = B1(phi) /\ a.b2 = B2(phi)),
               positive_real_first_coefficient |-> Checked(B1(phi) > 0),
               real_second_coefficient |-> Checked(TRUE),
               exact_functional_value |->
                 Checked(B1(phi) # 0 /\ a.value = Functional(phi, a.mu))]
  <2>1. ReportOf(a) = Reported(checks)
    BY <1>2 DEF ReportOf
  <2>2. /\ DOMAIN checks = CheckNames(a.type) /\ "generator_normalization" \in DOMAIN checks
        /\ \A n \in DOMAIN checks : checks[n].required
    BY <1>2 DEF CheckNames, Checked, Check
  <2> HIDE DEF checks
  <2>3. checks # <<>>
    BY <2>2
  <2> QED BY <2>1, <2>2, <2>3, ReportedFollows
<1>3. CASE a.type = "counterexample_verification"
  <2> DEFINE checks == [interval_is_ordered |-> Checked(TRUE),
                        classification_matches_interval |-> Checked(TRUE)]
  <2>1. ReportOf(a) = Reported(checks)
    BY <1>3 DEF ReportOf
  <2>2. /\ DOMAIN checks = CheckNames(a.type) /\ "interval_is_ordered" \in DOMAIN checks
        /\ \A n \in DOMAIN checks : checks[n].required
    BY <1>3 DEF CheckNames, Checked, Check
  <2> HIDE DEF checks
  <2>3. checks # <<>>
    BY <2>2
  <2> QED BY <2>1, <2>2, <2>3, ReportedFollows
<1> QED BY <1>1, <1>2, <1>3 DEF Types

\* The report of a witness passes.
LEMMA WitnessReport ==
  ASSUME NEW a, a.type = "counterexample_verification"
  PROVE  ReportOf(a).success
<1> DEFINE checks == [interval_is_ordered |-> Checked(TRUE),
                      classification_matches_interval |-> Checked(TRUE)]
<1>1. ReportOf(a) = Reported(checks)
  BY DEF ReportOf
<1>2. /\ DOMAIN checks = {"interval_is_ordered", "classification_matches_interval"}
      /\ \A n \in DOMAIN checks : checks[n].required
  BY DEF Checked, Check
<1>3. \A n \in DOMAIN checks : checks[n].status = "pass"
  BY DEF Checked, Check
<1> HIDE DEF checks
<1>4. RequiredOf(checks) = DOMAIN checks
  BY <1>2 DEF RequiredOf
<1>5. Passed(checks)
  BY <1>2, <1>3, <1>4 DEF Passed
<1>6. Reported(checks).success
  BY <1>5, ReportedIs
<1> QED BY <1>1, <1>6

\* A computed result, and any other as a failure, gives a payload that the
\* validator accepts.
LEMMA BuiltAccepted ==
  ASSUME NEW a, Constructed(a),
         a.type = "counterexample_verification" =>
           /\ a.interval = Enclosure[a.property, a.point]
           /\ a.certified = Decides(a.property, a.interval)
  PROVE  Accepted(Build(a))
<1> DEFINE p == Build(a)
           own == a.type # "counterexample_verification" /\ a.generator.own
           report == ReportOf(a)
<1>0. a.type \in Types
  BY DEF Constructed, Types
<1>1. /\ p.type = a.type /\ p.inputs = Inputs(a) /\ p.exact = Exact(a) /\ p.dag = Exact(a)
      /\ p.legacy = Legacy(a) /\ p.report = report /\ p.assumptions = Assumptions(a.type)
      /\ p.evidence = IF report.success THEN IntendedEvidence(a.type) ELSE "unresolved"
      /\ p.computational = p.evidence
      /\ p.failure = IF report.success THEN Nothing ELSE "unresolved"
      /\ p.provenance = IF own THEN "built_in" ELSE "caller_supplied"
      /\ p.catalog = IF own THEN "package" ELSE "user-supplied"
      /\ p.source = IF own THEN "package" ELSE "caller-supplied"
  BY DEF Build, Failure
<1>2. RepeatsAgree(p)
  BY <1>0, BuiltRepeats
<1> HIDE DEF p
<1>3. /\ DOMAIN report.checks = CheckNames(a.type)
      /\ \A n \in DOMAIN report.checks : report.checks[n].required
      /\ report.checks # <<>> /\ report = Reported(report.checks)
      /\ report.success \in BOOLEAN
      /\ report.success => \A n \in DOMAIN report.checks : report.checks[n].status = "pass"
  <2> DEFINE checks == report.checks
  <2>1. /\ DOMAIN checks = CheckNames(a.type)
        /\ \A n \in DOMAIN checks : checks[n].required
        /\ checks # <<>> /\ report = Reported(checks)
    BY <1>0, ReportNames
  <2> HIDE DEF checks, report
  <2>2. /\ report.success \in BOOLEAN
        /\ report.success =>
             \A n \in DOMAIN checks : checks[n].required => checks[n].status = "pass"
    BY <2>1, ReportedFollows
  <2>3. report.success => \A n \in DOMAIN checks : checks[n].status = "pass"
    BY <2>1, <2>2
  <2> QED BY <2>1, <2>2, <2>3 DEF checks
<1>4. a.type = "counterexample_verification" => report.success
  BY WitnessReport
<1>5. AuthoritativeOK(p)
  <2> SUFFICES ASSUME report.success PROVE AuthoritativeOK(p)
    BY <1>1 DEF AuthoritativeOK
  <2>1. own \in BOOLEAN
    BY GeneratorKnown DEF Constructed
  <2>2. CASE a.type = "generator_series"
    <3>1. /\ p.inputs.generator = Identity(a.generator) /\ p.inputs.order = a.order
          /\ p.dag.formula = a.generator.phi /\ p.dag.coefficients = a.coefficients
      BY <1>1, <2>2 DEF Inputs, Exact
    <3>2. Checked(/\ Normalized(a.generator.phi)
                  /\ a.coefficients = Taylor(a.generator.phi, a.order)).status = "pass"
      BY <1>3, <2>2 DEF ReportOf, Reported, CheckNames
    <3>3. Normalized(a.generator.phi) /\ a.coefficients = Taylor(a.generator.phi, a.order)
      BY <3>2 DEF Checked, Check
    <3>4. p.provenance = "built_in" => a.generator.own
      BY <1>1, <2>2
    <3>5. a.generator \in Generators
      BY <2>2 DEF Constructed
    <3>6. GeneratorOK(p) /\ SeriesOK(p)
      BY <3>1, <3>3, <3>4, <3>5, GeneratorKnown DEF GeneratorOK, SeriesOK
    <3> QED BY <1>1, <2>2, <3>6 DEF AuthoritativeOK
  <2>3. CASE a.type = "fekete_szego"
    <3> DEFINE phi == a.generator.phi
    <3>1. /\ p.inputs.generator = Identity(a.generator) /\ p.inputs.mu = a.mu
          /\ p.dag.formula = phi /\ p.dag.b1 = a.b1 /\ p.dag.b2 = a.b2 /\ p.dag.value = a.value
      BY <1>1, <2>3 DEF Inputs, Exact
    <3>2. /\ Checked(Normalized(phi)).status = "pass"
          /\ Checked(a.b1 = B1(phi) /\ a.b2 = B2(phi)).status = "pass"
          /\ Checked(B1(phi) > 0).status = "pass"
          /\ Checked(B1(phi) # 0 /\ a.value = Functional(phi, a.mu)).status = "pass"
      BY <1>3, <2>3 DEF ReportOf, Reported, CheckNames
    <3>3. /\ Normalized(phi) /\ a.b1 = B1(phi) /\ a.b2 = B2(phi) /\ B1(phi) > 0
          /\ a.value = Functional(phi, a.mu)
      BY <3>2 DEF Checked, Check
    <3>4. p.provenance = "built_in" => a.generator.own
      BY <1>1, <2>3
    <3>5. a.generator \in Generators
      BY <2>3 DEF Constructed
    <3>6. GeneratorOK(p) /\ FeketeOK(p)
      BY <3>1, <3>3, <3>4, <3>5, GeneratorKnown DEF GeneratorOK, FeketeOK
    <3> QED BY <1>1, <2>3, <3>6 DEF AuthoritativeOK
  <2>4. CASE a.type = "counterexample_verification"
    <3>1. /\ p.inputs.point = a.point /\ p.dag.point = a.point /\ p.dag.interval = a.interval
          /\ p.dag.threshold = a.threshold /\ p.legacy.property = a.property
          /\ p.legacy.certified = a.certified
          /\ p.legacy.direction = Direction(a.property, a.certified)
      <4>1. p.inputs = Inputs(a) /\ p.dag = Exact(a) /\ p.legacy = Legacy(a)
        BY <1>1
      <4>2. /\ Inputs(a).point = a.point /\ Exact(a).point = a.point
            /\ Exact(a).interval = a.interval /\ Exact(a).threshold = a.threshold
        BY <2>4 DEF Inputs, Exact
      <4>3. /\ Legacy(a).property = a.property /\ Legacy(a).certified = a.certified
            /\ Legacy(a).direction = Direction(a.property, a.certified)
        BY <2>4 DEF Legacy
      <4> QED BY <4>1, <4>2, <4>3
    <3>2. Enclosure[a.property, a.point] # Nothing /\ a.threshold = Threshold(a.property)
      BY <2>4 DEF Constructed
    <3>3. WitnessOK(p)
      BY <2>4, <3>1, <3>2 DEF WitnessOK
    <3> QED BY <1>1, <2>4, <3>3 DEF AuthoritativeOK
  <2> QED BY <1>0, <2>2, <2>3, <2>4 DEF Types
<1>6. ReportOK(p)
  BY <1>1, <1>3 DEF ReportOK
<1>7. ProvenanceOK(p)
  BY <1>1 DEF ProvenanceOK
<1>8. OperationOK(p)
  BY <1>1, <1>2, <1>3, <1>4, <1>7 DEF OperationOK
<1>9. FailureOK(p)
  BY <1>1, <1>3, NullAssumption DEF FailureOK
<1>10. Accepted(p)
  BY <1>1, <1>5, <1>6, <1>8, <1>9 DEF Accepted
<1> QED BY <1>10 DEF p

\* An operation that gives up has returned nothing.
LEMMA RaiseKeeps ==
  ASSUME ResultInv, rpc = "asked", Raise
  PROVE  ResultInv'
BY DEF ResultInv, PayloadInv, ComputedResultsSerialise, Raise

\* An operation that returns, returns what the type of its question says.
LEMMA ReturnKeeps ==
  ASSUME ResultInv, NEW a, Constructed(a), Return(a)
  PROVE  ResultInv'
BY DEF ResultInv, PayloadInv, ComputedResultsSerialise, Return

\* Series and functionals of a generator are results.
LEMMA GeneratorConstructs ==
  ASSUME NEW g \in Generators
  PROVE  /\ \A n, c : Constructed(SeriesOf(g, n, c))
         /\ \A mu, b1, b2, v : Constructed(FeketeOf(g, mu, b1, b2, v))
BY DEF Constructed, SeriesOf, FeketeOf

\* A witness whose enclosure is resolved is a result.
LEMMA WitnessConstructs ==
  ASSUME NEW q, NEW point, Enclosure[q, point] # Nothing
  PROVE  \A i, c : Constructed(WitnessOf(q, point, i, c))
BY DEF Constructed, WitnessOf

\* A question about a generator names one.
LEMMA QuestionNames ==
  ASSUME question \in Questions, question.type \in {"generator_series", "fekete_szego"}
  PROVE  question.generator \in Generators
BY DEF Questions

\* The operations, and a caller's own constructions, return results or raise.
LEMMA OperationKeeps ==
  ASSUME ResultInv, GeneratorSeries \/ FeketeSzego \/ VerifyCounterexample \/ Construct
  PROVE  ResultInv'
<1>1. rpc = "asked" /\ question \in Questions
  BY DEF ResultInv, GeneratorSeries, FeketeSzego, VerifyCounterexample, Construct
<1>2. CASE GeneratorSeries
  <2>1. Constructed(SeriesOf(question.generator, question.order,
                             Taylor(question.generator.phi, question.order)))
    BY <1>1, <1>2, QuestionNames, GeneratorConstructs DEF GeneratorSeries
  <2> QED BY <1>1, <1>2, <2>1, RaiseKeeps, ReturnKeeps DEF GeneratorSeries
<1>3. CASE FeketeSzego
  <2> DEFINE phi == question.generator.phi
             r == FeketeOf(question.generator, question.mu, B1(phi), B2(phi),
                           Functional(phi, question.mu))
  <2>1. Constructed(r)
    BY <1>1, <1>3, QuestionNames, GeneratorConstructs DEF FeketeSzego
  <2>2. Raise \/ Return(r)
    BY <1>3 DEF FeketeSzego
  <2> HIDE DEF r
  <2> QED BY <1>1, <2>1, <2>2, RaiseKeeps, ReturnKeeps
<1>4. CASE VerifyCounterexample
  <2> DEFINE interval == Enclosure[question.property, question.point]
             r == WitnessOf(question.property, question.point, interval,
                            Decides(question.property, interval))
  <2>1. Raise \/ (interval # Nothing /\ Return(r))
    BY <1>4 DEF VerifyCounterexample
  <2>2. interval # Nothing => Constructed(r)
    BY WitnessConstructs
  <2> HIDE DEF r, interval
  <2> QED BY <1>1, <2>1, <2>2, RaiseKeeps, ReturnKeeps
<1>5. CASE Construct
  <2>1. PICK r : Constructed(r) /\ Return(r)
    <3>1. CASE question.type = "generator_series"
      <4>1. PICK c : Return(SeriesOf(question.generator, question.order, c))
        BY <1>5, <3>1 DEF Construct
      <4> QED BY <1>1, <3>1, <4>1, QuestionNames, GeneratorConstructs
    <3>2. CASE question.type = "fekete_szego"
      <4>1. PICK b1, b2, v : Return(FeketeOf(question.generator, question.mu, b1, b2, v))
        BY <1>5, <3>2 DEF Construct
      <4> QED BY <1>1, <3>2, <4>1, QuestionNames, GeneratorConstructs
    <3>3. CASE question.type = "counterexample_verification"
      <4>1. /\ Enclosure[question.property, question.point] # Nothing
            /\ \E i, c : Return(WitnessOf(question.property, question.point, i, c))
        BY <1>5, <3>3 DEF Construct
      <4> QED BY <4>1, WitnessConstructs
    <3> QED BY <1>5, <3>1, <3>2, <3>3 DEF Construct
  <2> QED BY <2>1, ReturnKeeps
<1> QED BY <1>2, <1>3, <1>4, <1>5

\* to_dict raises only for results that are not what was computed.
LEMMA ToDictKeeps ==
  ASSUME ResultInv, ToDict
  PROVE  ResultInv'
<1>1. rpc = "returned" /\ Constructed(answer) /\ answer.type \in Types
  BY DEF ResultInv, ToDict, Constructed, Types
<1>2. CASE Raise
  <2>1. \/ answer.type = "fekete_szego" /\ ~Normalized(answer.generator.phi)
        \/ ~Accepted(Build(answer))
        \/ rpc' = "built"
    BY DEF ToDict
  <2>2. rpc' = "raised" /\ answer' = answer /\ edits' = edits
    BY <1>2 DEF Raise
  <2>3. ComputedResultsSerialise'
    BY <1>1, <2>1, <2>2, BuiltAccepted DEF ComputedResultsSerialise
  <2> QED BY <2>2, <2>3 DEF ResultInv, PayloadInv
<1>3. CASE /\ Accepted(Build(answer)) /\ payload' = Build(answer) /\ rpc' = "built"
           /\ UNCHANGED <<question, answer, edits>>
  <2>1. Accepted(payload') /\ Shaped(payload')
    BY <1>1, <1>3, BuiltShaped
  <2>2. PayloadInv'
    BY <1>3, <2>1 DEF ResultInv, PayloadInv, Accepted, Shaped
  <2> QED BY <1>3, <2>2 DEF ResultInv, ComputedResultsSerialise
<1> QED BY <1>2, <1>3 DEF ToDict

\* Every step keeps the results as they must be.
LEMMA StepResults ==
  ASSUME ResultInv, [Next]_<<dagVars, contractVars, cliVars>>
  PROVE  ResultInv'
<1>1. CASE UNCHANGED contractVars
  BY <1>1 DEF ResultInv, PayloadInv, ComputedResultsSerialise, contractVars
<1>2. CASE ContractStep
  <2>1. CASE Rewrite
    <3>1. Shaped(payload)
      BY <2>1 DEF ResultInv, PayloadInv, Rewrite
    <3>2. Shaped(payload')
      BY <2>1, <3>1, RewrittenShaped DEF Rewrite
    <3>3. rpc = "built" /\ rpc' = "built" /\ edits' \in Nat /\ edits' # 0
      BY <2>1 DEF ResultInv, PayloadInv, Rewrite
    <3>4. PayloadInv'
      BY <3>2, <3>3 DEF PayloadInv
    <3> QED BY <3>3, <3>4 DEF ResultInv, ComputedResultsSerialise
  <2>2. CASE Validate
    <3>1. /\ rpc = "built" /\ UNCHANGED <<question, answer, payload, edits>>
          /\ rpc' = "refused" \/ (rpc' = "accepted" /\ Accepted(payload))
      BY <2>2 DEF Validate
    <3>2. PayloadInv'
      BY <3>1 DEF ResultInv, PayloadInv
    <3> QED BY <3>1, <3>2 DEF ResultInv, ComputedResultsSerialise
  <2> QED BY <1>2, <2>1, <2>2, OperationKeeps, ToDictKeeps DEF ContractStep
<1> QED BY <1>1, <1>2 DEF Next, contractVars

\* At first nothing was computed.
LEMMA InitResults ==
  ASSUME Init
  PROVE  ResultInv
<1>1. /\ answer = Nothing /\ edits = 0
      /\ rpc = "idle" \/ (rpc = "asked" /\ question \in Questions)
  <2>1. ContractIdle \/ ContractInit
    BY DEF Init
  <2> QED BY <2>1 DEF ContractIdle, ContractInit
<1>2. PayloadInv
  BY <1>1 DEF PayloadInv
<1> QED BY <1>1, <1>2 DEF ResultInv, ComputedResultsSerialise

\* However a payload was rewritten, one that is accepted as a success states
\* true values, and the catalog's generator where it names one as built in;
\* one accepted as a failure claims no evidence (contracts.py 380-669, 786-1009,
\* 1300-1491).
THEOREM AcceptedResultsTrue == Spec => []AcceptedIsTrue
<1>1. ResultInv => AcceptedIsTrue
  BY AcceptedStatesTruth DEF ResultInv, PayloadInv, AcceptedIsTrue
<1> QED BY <1>1, InitResults, StepResults, PTL DEF Spec

\* to_dict serialises every result an operation computed, and every other one
\* as a failure, except a functional of an unnormalized generator and a witness
\* that is not what verify_counterexample computes (coefficients.py 100-152,
\* fekete_szego.py 107-244, counterexamples.py 48-129).
THEOREM ResultsSerialise == Spec => []ComputedResultsSerialise
<1>1. ResultInv => ComputedResultsSerialise
  BY DEF ResultInv
<1> QED BY <1>1, InitResults, StepResults, PTL DEF Spec

-----------------------------------------------------------------------------
(* Expression DAGs. *)

\* A DAG that is received, or none, is where the proofs about DAGs begin.
LEMMA InitDag == Init => DagInv
<1>1. CASE DagInit
  BY <1>1 DEF DagInit, DagInv
<1>2. CASE DagIdle
  BY <1>2 DEF DagIdle, DagInv
<1> QED BY <1>1, <1>2 DEF Init

\* The verdict on every DAG is right: an accepted one is acyclic and hangs
\* together below its roots, a refused one has a fault or a path longer than
\* the limit, and decode, which has no limit, goes no deeper than visit and
\* meets no cycle (contracts.py 1183-1223, 1253-1290).
THEOREM DagVerdicts == Spec => []DagVerdictExact
<1>1. DagInv /\ [Next]_<<dagVars, contractVars, cliVars>> => DagInv'
  <2> SUFFICES ASSUME DagInv, [Next]_<<dagVars, contractVars, cliVars>> PROVE DagInv'
    OBVIOUS
  <2>1. DagStep \/ UNCHANGED dagVars
    BY DEF Next
  <2> QED BY <2>1, StepDag
<1> QED BY <1>1, InitDag, InvVerdict, PTL DEF Spec

-----------------------------------------------------------------------------
(* schur.py: the member that a sequence of gammas describes. *)

\* A sum of nothing.
LEMMA EmptySum ==
  ASSUME NEW f, DOMAIN f = {}
  PROVE  SumFunction(f) = 0
<1>1. PICK D : D = {}
  OBVIOUS
<1>2. IsFiniteSet(D)
  BY <1>1, FS_EmptySet
<1>3. PICK h : h[{}] = 0 /\ SumFunction(f) = h[D]
  BY <1>1, <1>2, SumSplits
<1> QED BY <1>1, <1>3

\* The first coefficients of a product.
LEMMA Convolutions ==
  ASSUME NEW k \in 1..3, NEW s, NEW t, \A j \in 1..(k - 1) : s[j] \in Int /\ t[j] \in Int
  PROVE  /\ k = 1 => Convolved(s, t, k) = 0
         /\ k = 2 => Convolved(s, t, k) = s[1] * t[1]
         /\ k = 3 => Convolved(s, t, k) = s[1] * t[2] + s[2] * t[1]
<1> DEFINE f == [j \in 1..(k - 1) |-> s[j] * t[k - j]]
<1>1. Convolved(s, t, k) = SumFunction(f)
  BY DEF Convolved
<1>2. DOMAIN f = 1..(k - 1) /\ \A j \in 1..(k - 1) : f[j] = s[j] * t[k - j] /\ f[j] \in Int
  <2>1. \A j \in 1..(k - 1) : k - j \in 1..(k - 1)
    OBVIOUS
  <2>2. \A j \in 1..(k - 1) : s[j] * t[k - j] \in Int
    BY <2>1
  <2> QED BY <2>2
<1> HIDE DEF f
<1>3. CASE k = 1
  <2>1. DOMAIN f = {}
    BY <1>2, <1>3
  <2> QED BY <1>1, <1>3, <2>1, EmptySum
<1>4. CASE k = 2
  <2>1. k - 1 = 1 /\ 1 \in 1..(k - 1) /\ k - 1 \in 1..3
    BY <1>4
  <2>2. SumFunction(f) = f[1]
    BY <1>2, <2>1, SmallSums
  <2> QED BY <1>1, <1>2, <1>4, <2>1, <2>2
<1>5. CASE k = 3
  <2>1. k - 1 = 2 /\ 1 \in 1..(k - 1) /\ 2 \in 1..(k - 1) /\ k - 1 \in 1..3 /\ k - 2 = 1
    BY <1>5
  <2>2. SumFunction(f) = f[1] + f[2]
    BY <1>2, <2>1, SmallSums
  <2>3. f[1] = s[1] * t[2] /\ f[2] = s[2] * t[1]
    BY <1>2, <1>5, <2>1
  <2> QED BY <1>1, <1>5, <2>2, <2>3
<1> QED BY <1>3, <1>4, <1>5

\* Dividing (g + z tail) by (1 + g z tail).
LEMMA Unfolded ==
  ASSUME NEW g \in Int, NEW t \in [1..3 -> Int]
  PROVE  /\ Unfold(g, t) \in [1..3 -> Int] /\ Unfold(g, t)[1] = g
         /\ Unfold(g, t)[2] = t[1] - g * (t[1] * g)
         /\ Unfold(g, t)[3] = t[2] - g * (t[1] * Unfold(g, t)[2] + t[2] * g)
<1> DEFINE Rec(c0) == c0 = [k \in 1..3 |-> IF k = 1 THEN g ELSE t[k - 1] - g * Convolved(t, c0, k)]
           second == t[1] - g * (t[1] * g)
           third == t[2] - g * (t[1] * second + t[2] * g)
           cc == CHOOSE c0 : Rec(c0)
<1>0. t[1] \in Int /\ t[2] \in Int
  OBVIOUS
<1>1. second \in Int /\ third \in Int
  <2>1. second \in Int
    BY <1>0
  <2> HIDE DEF second
  <2> QED BY <1>0, <2>1
<1> HIDE DEF second, third
<1>2. ASSUME NEW c, \A k \in 1..3 : c[k] = IF k = 1 THEN g ELSE t[k - 1] - g * Convolved(t, c, k)
      PROVE  c[1] = g /\ c[2] = second /\ c[3] = third
  <2>1. c[1] = g
    BY <1>2
  <2>2. Convolved(t, c, 2) = t[1] * c[1]
    <3>1. \A j \in 1..(2 - 1) : t[j] \in Int /\ c[j] \in Int
      BY <1>0, <2>1
    <3> QED BY <3>1, Convolutions
  <2>3. c[2] = second
    <3>1. c[2] = t[2 - 1] - g * Convolved(t, c, 2)
      BY <1>2
    <3> QED BY <2>1, <2>2, <3>1 DEF second
  <2>4. Convolved(t, c, 3) = t[1] * c[2] + t[2] * c[1]
    <3>1. \A j \in 1..(3 - 1) : t[j] \in Int /\ c[j] \in Int
      BY <1>0, <1>1, <2>1, <2>3
    <3> QED BY <3>1, Convolutions
  <2>5. c[3] = third
    <3>1. c[3] = t[3 - 1] - g * Convolved(t, c, 3)
      BY <1>2
    <3> QED BY <2>1, <2>3, <2>4, <3>1 DEF third
  <2> QED BY <2>1, <2>3, <2>5
<1>3. \E c : Rec(c)
  <2> DEFINE w == [k \in 1..3 |-> IF k = 1 THEN g ELSE IF k = 2 THEN second ELSE third]
  <2>1. w[1] = g /\ w[2] = second /\ w[3] = third /\ DOMAIN w = 1..3
    OBVIOUS
  <2> HIDE DEF w
  <2>2. Convolved(t, w, 2) = t[1] * g
    <3>1. \A j \in 1..(2 - 1) : t[j] \in Int /\ w[j] \in Int
      BY <1>0, <2>1
    <3> QED BY <2>1, <3>1, Convolutions
  <2>3. Convolved(t, w, 3) = t[1] * second + t[2] * g
    <3>1. \A j \in 1..(3 - 1) : t[j] \in Int /\ w[j] \in Int
      BY <1>0, <1>1, <2>1
    <3> QED BY <2>1, <3>1, Convolutions
  <2>4. \A k \in 1..3 : w[k] = IF k = 1 THEN g ELSE t[k - 1] - g * Convolved(t, w, k)
    <3>1. w[2] = t[2 - 1] - g * Convolved(t, w, 2)
      BY <2>1, <2>2 DEF second
    <3>2. w[3] = t[3 - 1] - g * Convolved(t, w, 3)
      BY <2>1, <2>3 DEF third
    <3> QED BY <2>1, <3>1, <3>2
  <2>5. w = [k \in 1..3 |-> w[k]]
    BY DEF w
  <2>6. Rec(w)
    BY <2>4, <2>5
  <2> QED BY <2>6
<1>4. Rec(cc)
  <2> HIDE DEF Rec
  <2> QED BY <1>3
<1>5. Unfold(g, t) = cc
  BY DEF Unfold, Order
<1> HIDE DEF cc
<1>6. \A k \in 1..3 : cc[k] = IF k = 1 THEN g ELSE t[k - 1] - g * Convolved(t, cc, k)
  BY <1>4
<1>7. cc[1] = g /\ cc[2] = second /\ cc[3] = third
  BY <1>2, <1>6
<1>8. cc \in [1..3 -> Int]
  <2>1. \A k \in 1..3 : cc[k] \in Int
    BY <1>1, <1>7
  <2>2. cc = [k \in 1..3 |-> cc[k]]
    BY <1>4
  <2> QED BY <2>1, <2>2
<1> QED BY <1>5, <1>7, <1>8 DEF second, third

\* A gamma that is 1 or -1 ends the series; 0 shifts it.
LEMMA UnfoldSign ==
  ASSUME NEW g \in {-1, 0, 1}, NEW t \in [1..3 -> Int]
  PROVE  /\ Unfold(g, t) \in [1..3 -> Int] /\ Unfold(g, t)[1] = g
         /\ Unfold(g, t)[2] = IF g = 0 THEN t[1] ELSE 0
         /\ Unfold(g, t)[3] = IF g = 0 THEN t[2] ELSE 0
<1>1. g \in Int /\ t[1] \in Int /\ t[2] \in Int
  OBVIOUS
<1>2. PICK c \in [1..3 -> Int] : /\ c = Unfold(g, t) /\ c[1] = g /\ c[2] = t[1] - g * (t[1] * g)
                                 /\ c[3] = t[2] - g * (t[1] * c[2] + t[2] * g)
  BY <1>1, Unfolded
<1>3. CASE g = 0
  <2>1. c[2] = t[1]
    BY <1>1, <1>2, <1>3
  <2>2. c[3] = t[2]
    BY <1>1, <1>2, <1>3, <2>1
  <2> QED BY <1>2, <1>3, <2>1, <2>2
<1>4. CASE g = 1
  <2>1. c[2] = 0
    BY <1>1, <1>2, <1>4
  <2>2. c[3] = 0
    BY <1>1, <1>2, <1>4, <2>1
  <2> QED BY <1>2, <1>4, <2>1, <2>2
<1>5. CASE g = -1
  <2>1. c[2] = 0
    BY <1>1, <1>2, <1>5
  <2>2. c[3] = 0
    BY <1>1, <1>2, <1>5, <2>1
  <2> QED BY <1>2, <1>5, <2>1, <2>2
<1> QED BY <1>3, <1>4, <1>5

\* The first of a set of places.
LEMMA FirstPlace ==
  ASSUME NEW n \in Nat, NEW s \in SUBSET (1..n), s # {}
  PROVE  Min(s) \in s /\ \A i \in s : Min(s) <= i
<1>1. s \in SUBSET Nat
  OBVIOUS
<1>2. \E m \in s : \A i \in s : m <= i
  BY <1>1, LeastNatural
<1> QED BY <1>2 DEF Min

\* Places from i on.
LEMMA LaterPlaces ==
  ASSUME NEW n \in Nat, NEW i \in 1..n
  PROVE  i..n # {} /\ i..n \in SUBSET (1..n) /\ Min(i..n) = i /\ (i..n) \ {i} = (i + 1)..n
<1>1. i \in i..n /\ i..n \in SUBSET (1..n)
  OBVIOUS
<1>2. PICK m : m = Min(i..n) /\ m \in i..n /\ m <= i
  BY <1>1, FirstPlace
<1>3. m = i
  BY <1>2
<1> QED BY <1>1, <1>2, <1>3

\* The Schwarz function is unfolded once for each gamma, from the last one.
LEMMA OmegaUnfolds ==
  ASSUME NEW gammas \in Seq({-1, 0, 1})
  PROVE  \E tail : /\ Omega(gammas) = tail[1]
                   /\ \A i \in Nat \ {0} :
                        /\ tail[i] \in [1..3 -> Int]
                        /\ i <= Len(gammas) => tail[i] = Unfold(gammas[i], tail[i + 1])
                        /\ i > Len(gammas) => tail[i] = [k \in 1..3 |-> 0]
<1> DEFINE n == Len(gammas)
           D == 1..n
           zero == [k \in 1..3 |-> 0]
           V == [1..3 -> Int]
           first == [s \in SUBSET D |-> Min(s)]
           step == [e \in D \X V |-> Unfold(gammas[e[1]], e[2])]
           Rec(h0) == h0 = [s \in SUBSET D |-> IF s = {} THEN zero
                              ELSE Unfold(gammas[Min(s)], h0[s \ {Min(s)}])]
           hh == CHOOSE h0 : Rec(h0)
<1>0. n \in Nat /\ DOMAIN gammas = D /\ zero \in V
      /\ \A i \in D : gammas[i] \in {-1, 0, 1}
  OBVIOUS
<1>1. IsFiniteSet(D)
  BY <1>0, FS_Interval
<1>2. \A s \in SUBSET D : s # {} => first[s] = Min(s) /\ first[s] \in s
  BY <1>0, FirstPlace
<1>3. step \in [D \X V -> V]
  <2> HIDE DEF V, D
  <2>1. ASSUME NEW e \in D \X V PROVE Unfold(gammas[e[1]], e[2]) \in V
    <3>1. gammas[e[1]] \in {-1, 0, 1} /\ e[2] \in V
      BY <1>0
    <3> QED BY <3>1, UnfoldSign DEF V
  <2> QED BY <2>1
<1>4. \A i \in D, t \in V : step[<<i, t>>] = Unfold(gammas[i], t)
  <2> HIDE DEF V, D
  <2> QED OBVIOUS
<1> HIDE DEF zero, V, first, step
<1>5. PICK h : Folding(h, D, zero, first, step)
  <2> HIDE DEF D
  <2>1. zero \in V
    BY <1>0
  <2> QED BY <1>1, <1>2, <1>3, <2>1, FoldsExist
<1>6. \A s \in SUBSET D : /\ s = {} => h[s] = zero
                          /\ s # {} => h[s] = step[<<first[s], h[s \ {first[s]}]>>]
  BY <1>5 DEF Folding
<1>7. \A s \in SUBSET D : s # {} => s \ {first[s]} \in SUBSET D /\ first[s] \in D
  BY <1>2
<1>8. \A s \in SUBSET D : h[s] \in V
  <2>1. h[{}] = zero /\ zero \in V
    BY <1>0, <1>6
  <2>2. \A s \in SUBSET D : s # {} /\ h[s \ {first[s]}] \in V
                             => h[s] = step[<<first[s], h[s \ {first[s]}]>>]
    BY <1>6
  <2>3. \A s \in SUBSET D : s # {} => first[s] \in s
    BY <1>2
  <2> HIDE DEF D
  <2>4. Stepping(h, D, V, zero, first, step)
    BY <1>3, <2>1, <2>2, <2>3 DEF Stepping
  <2> QED BY <1>1, <2>4, FoldsTyped
<1>9. Rec(h)
  <2> DEFINE Stepped(s) == IF s = {} THEN zero ELSE step[<<first[s], h[s \ {first[s]}]>>]
             Unfolds(s) == IF s = {} THEN zero ELSE Unfold(gammas[Min(s)], h[s \ {Min(s)}])
  <2>1. ASSUME NEW s \in SUBSET D PROVE Stepped(s) = Unfolds(s)
    BY <1>2, <1>4, <1>7, <1>8
  <2>2. h = [s \in SUBSET D |-> Stepped(s)]
    BY <1>5 DEF Folding
  <2> HIDE DEF Stepped, Unfolds, D
  <2>3. h = [s \in SUBSET D |-> Unfolds(s)]
    BY <2>1, <2>2
  <2> QED BY <2>3 DEF Unfolds
<1>10. Rec(hh)
  <2> HIDE DEF Rec
  <2> QED BY <1>9
<1>11. Omega(gammas) = hh[D]
  BY <1>0 DEF Omega, FoldRight, MapThenFoldSet, zero, Order
<1> HIDE DEF hh
<1>12. \A s \in SUBSET D : hh[s] = IF s = {} THEN zero ELSE Unfold(gammas[Min(s)], hh[s \ {Min(s)}])
  BY <1>10
<1>13. \A s \in SUBSET D : hh[s] \in V
  <2>1. hh[{}] = zero /\ zero \in V
    BY <1>0, <1>12
  <2>2. \A s \in SUBSET D : s # {} /\ hh[s \ {first[s]}] \in V
                             => hh[s] = step[<<first[s], hh[s \ {first[s]}]>>]
    BY <1>2, <1>4, <1>7, <1>12
  <2>3. \A s \in SUBSET D : s # {} => first[s] \in s
    BY <1>2
  <2> HIDE DEF D, Rec
  <2>4. Stepping(hh, D, V, zero, first, step)
    BY <1>3, <2>1, <2>2, <2>3 DEF Stepping
  <2> QED BY <1>1, <2>4, FoldsTyped
<1> DEFINE tail == [i \in Nat |-> hh[i..n]]
<1>14. \A i \in Nat : tail[i] = hh[i..n]
  OBVIOUS
<1>15. D = 1..n
  OBVIOUS
<1> HIDE DEF tail, D, n, Rec
<1>16. ASSUME NEW i \in Nat \ {0}
       PROVE  /\ tail[i] \in V
              /\ i <= n => tail[i] = Unfold(gammas[i], tail[i + 1])
              /\ i > n => tail[i] = zero
  <2>1. i..n \in SUBSET D /\ tail[i] = hh[i..n] /\ tail[i + 1] = hh[(i + 1)..n]
    BY <1>0, <1>14, <1>15
  <2>2. ASSUME i <= n PROVE tail[i] = Unfold(gammas[i], tail[i + 1])
    <3>1. i \in 1..n
      BY <1>0, <2>2
    <3>2. i..n # {} /\ Min(i..n) = i /\ (i..n) \ {i} = (i + 1)..n
      BY <1>0, <3>1, LaterPlaces
    <3> QED BY <1>12, <2>1, <3>2
  <2>3. ASSUME i > n PROVE tail[i] = zero
    <3>1. i..n = {}
      BY <1>0, <2>3
    <3> QED BY <1>12, <2>1, <3>1
  <2> QED BY <1>13, <2>1, <2>2, <2>3
<1>17. Omega(gammas) = tail[1]
  BY <1>11, <1>14, <1>15
<1> QED BY <1>16, <1>17 DEF V, zero, n

\* The Schwarz function: a power of z, after its first gamma that is not 0.
LEMMA OmegaFirst ==
  ASSUME NEW gammas \in Seq({-1, 0, 1}),
         NEW G, \A i \in 1..3 : G[i] = IF i <= Len(gammas) THEN gammas[i] ELSE 0,
         NEW w, w = Omega(gammas)
  PROVE  /\ w \in [1..3 -> Int] /\ w[1] = G[1]
         /\ w[2] = IF G[1] = 0 THEN G[2] ELSE 0
         /\ w[3] = IF G[1] = 0 /\ G[2] = 0 THEN G[3] ELSE 0
<1> DEFINE n == Len(gammas)
<1>1. n \in Nat /\ \A i \in 1..n : gammas[i] \in {-1, 0, 1}
  OBVIOUS
<1>2. PICK tail : /\ Omega(gammas) = tail[1]
                  /\ \A i \in Nat \ {0} :
                       /\ tail[i] \in [1..3 -> Int]
                       /\ i <= n => tail[i] = Unfold(gammas[i], tail[i + 1])
                       /\ i > n => tail[i] = [k \in 1..3 |-> 0]
  BY OmegaUnfolds
<1> HIDE DEF n
<1>3. ASSUME NEW i \in 1..3
      PROVE  /\ tail[i] \in [1..3 -> Int] /\ tail[i][1] = G[i]
             /\ tail[i][2] = IF G[i] = 0 THEN tail[i + 1][1] ELSE 0
             /\ tail[i][3] = IF G[i] = 0 THEN tail[i + 1][2] ELSE 0
  <2>0. i \in Nat \ {0} /\ i + 1 \in Nat \ {0}
    OBVIOUS
  <2>1. tail[i] \in [1..3 -> Int] /\ tail[i + 1] \in [1..3 -> Int]
    BY <1>2, <2>0
  <2>2. CASE i <= n
    <3>1. gammas[i] \in {-1, 0, 1} /\ G[i] = gammas[i]
      BY <1>1, <2>2 DEF n
    <3>2. tail[i] = Unfold(gammas[i], tail[i + 1])
      BY <1>2, <2>0, <2>2
    <3> DEFINE t == tail[i + 1]
               u == Unfold(gammas[i], t)
    <3>3. u[1] = gammas[i] /\ u[2] = (IF gammas[i] = 0 THEN t[1] ELSE 0)
          /\ u[3] = (IF gammas[i] = 0 THEN t[2] ELSE 0)
      BY <2>1, <3>1, UnfoldSign
    <3>4. tail[i] = u
      BY <3>2
    <3> HIDE DEF u
    <3> QED BY <2>1, <3>1, <3>3, <3>4
  <2>3. CASE i > n
    <3>1. G[i] = 0
      BY <1>1, <2>3 DEF n
    <3>2. i + 1 > n
      BY <1>1, <2>3
    <3>3. tail[i] = [k \in 1..3 |-> 0] /\ tail[i + 1] = [k \in 1..3 |-> 0]
      BY <1>2, <2>0, <2>3, <3>2
    <3> QED BY <2>1, <3>1, <3>3
  <2> QED BY <1>1, <2>2, <2>3
<1>4. tail[2][1] = G[2] /\ tail[2][2] = (IF G[2] = 0 THEN tail[3][1] ELSE 0) /\ tail[3][1] = G[3]
  BY <1>3
<1>5. /\ tail[1] \in [1..3 -> Int] /\ tail[1][1] = G[1]
      /\ tail[1][2] = (IF G[1] = 0 THEN tail[2][1] ELSE 0)
      /\ tail[1][3] = (IF G[1] = 0 THEN tail[2][2] ELSE 0)
  BY <1>3
<1> QED BY <1>2, <1>4, <1>5

\* The powers of a series.
LEMMA PowersFirst ==
  ASSUME NEW w \in [1..3 -> Int], NEW p, p = Powers(w)
  PROVE  /\ p[1][1] = w[1] /\ p[1][2] = w[2] /\ p[1][3] = w[3]
         /\ p[2][1] = 0 /\ p[2][2] = w[1] * w[1] /\ p[2][3] = w[1] * w[2] + w[2] * w[1]
         /\ p[3][1] = 0 /\ p[3][2] = 0 /\ p[3][3] = (w[1] * w[1]) * w[1]
<1> DEFINE Row(q, j) == [k \in 1..3 |-> IF j = 1 THEN w[k] ELSE Convolved(q[j - 1], w, k)]
           Rec(q0) == q0 = [j \in 1..3 |-> Row(q0, j)]
           cc == CHOOSE q0 : Rec(q0)
<1>0. w[1] \in Int /\ w[2] \in Int /\ w[3] \in Int
  OBVIOUS
<1>1. \E q : Rec(q)
  <2> DEFINE one == [k \in 1..3 |-> w[k]]
             two == [k \in 1..3 |-> Convolved(one, w, k)]
             three == [k \in 1..3 |-> Convolved(two, w, k)]
             all == [j \in 1..3 |-> IF j = 1 THEN one ELSE IF j = 2 THEN two ELSE three]
  <2>1. all[1] = one /\ all[2] = two
    OBVIOUS
  <2>2. Row(all, 1) = one
    OBVIOUS
  <2>3. Row(all, 2) = two
    <3> HIDE DEF all, one
    <3>1. all[2 - 1] = one
      BY <2>1
    <3> QED BY <3>1
  <2>4. Row(all, 3) = three
    <3> HIDE DEF all, two
    <3>1. all[3 - 1] = two
      BY <2>1
    <3> QED BY <3>1
  <2> HIDE DEF one, two, three, Row
  <2>5. \A j \in 1..3 : (IF j = 1 THEN one ELSE IF j = 2 THEN two ELSE three) = Row(all, j)
    BY <2>2, <2>3, <2>4
  <2>6. all = [j \in 1..3 |-> Row(all, j)]
    <3>1. \A j \in 1..3 : all[j] = Row(all, j)
      BY <2>5
    <3>2. all = [j \in 1..3 |-> all[j]]
      OBVIOUS
    <3> HIDE DEF all
    <3> QED BY <3>1, <3>2
  <2> QED BY <2>6
<1>2. Rec(cc)
  <2> HIDE DEF Rec
  <2> QED BY <1>1
<1>3. p = cc
  BY DEF Powers, Order
<1>4. \A j \in 1..3 : p[j] = Row(p, j)
  <2> HIDE DEF cc, Row
  <2> QED BY <1>2, <1>3
<1> HIDE DEF cc, Rec
<1>5. ASSUME NEW k \in 1..3
      PROVE  p[1][k] = w[k] /\ p[2][k] = Convolved(p[1], w, k) /\ p[3][k] = Convolved(p[2], w, k)
  <2>1. p[1] = Row(p, 1) /\ p[2] = Row(p, 2) /\ p[3] = Row(p, 3)
    <3> HIDE DEF Row
    <3> QED BY <1>4
  <2>2. Row(p, 1)[k] = w[k] /\ Row(p, 2)[k] = Convolved(p[2 - 1], w, k)
        /\ Row(p, 3)[k] = Convolved(p[3 - 1], w, k)
    OBVIOUS
  <2> HIDE DEF Row
  <2> QED BY <2>1, <2>2
<1>6. p[1][1] = w[1] /\ p[1][2] = w[2] /\ p[1][3] = w[3]
  BY <1>5
<1>7. p[2][1] = 0 /\ p[2][2] = w[1] * w[1] /\ p[2][3] = w[1] * w[2] + w[2] * w[1]
  <2>1. \A j \in 1..3 : p[1][j] \in Int /\ w[j] \in Int
    BY <1>0, <1>6
  <2> DEFINE u == p[1]
  <2>2. \A j \in 1..3 : u[j] \in Int /\ w[j] \in Int
    BY <2>1
  <2> HIDE DEF u
  <2>3. \A k \in 1..3 : \A j \in 1..(k - 1) : u[j] \in Int /\ w[j] \in Int
    BY <2>2
  <2>4. Convolved(u, w, 1) = 0 /\ Convolved(u, w, 2) = u[1] * w[1]
        /\ Convolved(u, w, 3) = u[1] * w[2] + u[2] * w[1]
    <3>1. 1 \in 1..3 /\ 2 \in 1..3 /\ 3 \in 1..3
      OBVIOUS
    <3> QED BY <2>3, <3>1, Convolutions
  <2>5. p[2][1] = Convolved(u, w, 1) /\ p[2][2] = Convolved(u, w, 2) /\ p[2][3] = Convolved(u, w, 3)
    BY <1>5 DEF u
  <2>6. u[1] = w[1] /\ u[2] = w[2]
    BY <1>6 DEF u
  <2> QED BY <2>4, <2>5, <2>6
<1>8. p[3][1] = 0 /\ p[3][2] = 0 /\ p[3][3] = (w[1] * w[1]) * w[1]
  <2> DEFINE u == p[2]
  <2>2. \A j \in 1..3 : u[j] \in Int /\ w[j] \in Int
    BY <1>0, <1>7
  <2>6. u[1] = 0 /\ u[2] = w[1] * w[1] /\ w[1] * w[1] \in Int
    BY <1>0, <1>7
  <2>5. p[3][1] = Convolved(u, w, 1) /\ p[3][2] = Convolved(u, w, 2) /\ p[3][3] = Convolved(u, w, 3)
    BY <1>5
  <2> HIDE DEF u
  <2>3. \A k \in 1..3 : \A j \in 1..(k - 1) : u[j] \in Int /\ w[j] \in Int
    BY <2>2
  <2>4. Convolved(u, w, 1) = 0 /\ Convolved(u, w, 2) = u[1] * w[1]
        /\ Convolved(u, w, 3) = u[1] * w[2] + u[2] * w[1]
    <3>1. 1 \in 1..3 /\ 2 \in 1..3 /\ 3 \in 1..3
      OBVIOUS
    <3> QED BY <2>3, <3>1, Convolutions
  <2>7. u[1] * w[1] = 0 /\ u[1] * w[2] = 0
    BY <1>0, <2>6
  <2>8. p[3][3] = 0 + u[2] * w[1] /\ u[2] * w[1] \in Int
    BY <1>0, <2>4, <2>5, <2>6, <2>7
  <2> QED BY <2>4, <2>5, <2>6, <2>7, <2>8
<1> QED BY <1>6, <1>7, <1>8

\* phi(w) - 1.
LEMMA SeriesFirst ==
  ASSUME NEW w \in [1..3 -> Int], NEW phi, \A j \in 1..3 : phi[j] \in Int,
         NEW q, q = Series(phi, Powers(w))
  PROVE  /\ q[1] = phi[1] * w[1]
         /\ q[2] = phi[1] * w[2] + phi[2] * (w[1] * w[1])
         /\ q[3] = phi[1] * w[3] + phi[2] * (w[1] * w[2] + w[2] * w[1])
                     + phi[3] * ((w[1] * w[1]) * w[1])
<1>1. PICK p : p = Powers(w)
  OBVIOUS
<1>2. /\ p[1][1] = w[1] /\ p[1][2] = w[2] /\ p[1][3] = w[3]
      /\ p[2][1] = 0 /\ p[2][2] = w[1] * w[1] /\ p[2][3] = w[1] * w[2] + w[2] * w[1]
      /\ p[3][1] = 0 /\ p[3][2] = 0 /\ p[3][3] = (w[1] * w[1]) * w[1]
  BY <1>1, PowersFirst
<1>3. w[1] \in Int /\ w[2] \in Int /\ w[3] \in Int /\ phi[1] \in Int /\ phi[2] \in Int /\ phi[3] \in Int
  OBVIOUS
<1>4. \A j \in 1..3, k \in 1..3 : p[j][k] \in Int
  BY <1>2, <1>3
<1>5. ASSUME NEW k \in 1..3 PROVE q[k] = phi[1] * p[1][k] + phi[2] * p[2][k] + phi[3] * p[3][k]
  <2> DEFINE f == [j \in 1..3 |-> phi[j] * p[j][k]]
  <2>1. q[k] = SumFunction(f)
    BY <1>1 DEF Series, Order
  <2>2. f[1] = phi[1] * p[1][k] /\ f[2] = phi[2] * p[2][k] /\ f[3] = phi[3] * p[3][k]
    OBVIOUS
  <2>3. DOMAIN f = 1..3 /\ \A j \in 1..3 : f[j] \in Int
    BY <1>4
  <2> HIDE DEF f
  <2>5. PICK n \in 1..3 : n = 3
    OBVIOUS
  <2>6. DOMAIN f = 1..n /\ \A j \in 1..n : f[j] \in Int
    BY <2>3, <2>5
  <2>4. SumFunction(f) = f[1] + f[2] + f[3]
    BY <2>5, <2>6, SmallSums
  <2> QED BY <2>1, <2>2, <2>4
<1>6. q[1] = phi[1] * w[1]
  <2>1. q[1] = phi[1] * w[1] + phi[2] * 0 + phi[3] * 0
    BY <1>2, <1>5
  <2> QED BY <1>3, <2>1
<1>7. q[2] = phi[1] * w[2] + phi[2] * (w[1] * w[1])
  <2>1. q[2] = phi[1] * w[2] + phi[2] * (w[1] * w[1]) + phi[3] * 0
    BY <1>2, <1>5
  <2> QED BY <1>3, <2>1
<1>8. q[3] = phi[1] * w[3] + phi[2] * (w[1] * w[2] + w[2] * w[1]) + phi[3] * ((w[1] * w[1]) * w[1])
  BY <1>2, <1>5
<1> QED BY <1>6, <1>7, <1>8

\* A step of the exponential.
LEMMA IntegratedFirst ==
  ASSUME NEW n \in 1..3, NEW q \in [1..3 -> Int], NEW e, \A k \in 0..(n - 1) : e[k] \in Int
  PROVE  /\ n = 1 => Integrated(q, e, n) = q[1] * e[0]
         /\ n = 2 => Integrated(q, e, n) = q[1] * e[1] + q[2] * e[0]
         /\ n = 3 => Integrated(q, e, n) = q[1] * e[2] + (q[2] * e[1]) * 2 + (q[3] * e[0]) * 2
<1> DEFINE f == [k \in 1..n |-> (q[k] * e[n - k]) * (Factorial(n - 1) \div Factorial(n - k))]
<1>1. Factorial(0) = 1 /\ Factorial(1) = 1 /\ Factorial(2) = 2
  BY DEF Factorial
<1>2. 1 \div 1 = 1 /\ 2 \div 2 = 1 /\ 2 \div 1 = 2
  OBVIOUS
<1>3. Integrated(q, e, n) = SumFunction(f) /\ DOMAIN f = 1..n
  BY DEF Integrated
<1>4. \A k \in 1..n : f[k] = (q[k] * e[n - k]) * (Factorial(n - 1) \div Factorial(n - k))
  OBVIOUS
<1>5. q[1] \in Int /\ q[2] \in Int /\ q[3] \in Int
  OBVIOUS
<1> HIDE DEF f
<1>6. CASE n = 1
  <2>1. e[0] \in Int
    BY <1>6
  <2>2. f[1] = (q[1] * e[1 - 1]) * (Factorial(1 - 1) \div Factorial(1 - 1))
    BY <1>4, <1>6
  <2>3. f[1] = q[1] * e[0] /\ f[1] \in Int
    BY <1>1, <1>2, <1>5, <2>1, <2>2
  <2>4. \A k \in 1..n : f[k] \in Int
    BY <1>6, <2>3
  <2>5. SumFunction(f) = f[1]
    BY <1>3, <1>6, <2>4, SmallSums
  <2> QED BY <1>3, <1>6, <2>3, <2>5
<1>7. CASE n = 2
  <2>1. e[0] \in Int /\ e[1] \in Int
    BY <1>7
  <2>2. /\ f[1] = (q[1] * e[2 - 1]) * (Factorial(2 - 1) \div Factorial(2 - 1))
        /\ f[2] = (q[2] * e[2 - 2]) * (Factorial(2 - 1) \div Factorial(2 - 2))
    BY <1>4, <1>7
  <2>3. f[1] = q[1] * e[1] /\ f[1] \in Int /\ f[2] = q[2] * e[0] /\ f[2] \in Int
    BY <1>1, <1>2, <1>5, <2>1, <2>2
  <2>4. \A k \in 1..n : f[k] \in Int
    BY <1>7, <2>3
  <2>5. SumFunction(f) = f[1] + f[2]
    BY <1>3, <1>7, <2>4, SmallSums
  <2> QED BY <1>3, <1>7, <2>3, <2>5
<1>8. CASE n = 3
  <2>1. e[0] \in Int /\ e[1] \in Int /\ e[2] \in Int
    BY <1>8
  <2>2. /\ f[1] = (q[1] * e[3 - 1]) * (Factorial(3 - 1) \div Factorial(3 - 1))
        /\ f[2] = (q[2] * e[3 - 2]) * (Factorial(3 - 1) \div Factorial(3 - 2))
        /\ f[3] = (q[3] * e[3 - 3]) * (Factorial(3 - 1) \div Factorial(3 - 3))
    BY <1>4, <1>8
  <2>3. /\ f[1] = q[1] * e[2] /\ f[1] \in Int
        /\ f[2] = (q[2] * e[1]) * 2 /\ f[2] \in Int
        /\ f[3] = (q[3] * e[0]) * 2 /\ f[3] \in Int
    BY <1>1, <1>2, <1>5, <2>1, <2>2
  <2>4. \A k \in 1..n : f[k] \in Int
    BY <1>8, <2>3
  <2>5. SumFunction(f) = f[1] + f[2] + f[3]
    BY <1>3, <1>8, <2>4, SmallSums
  <2> QED BY <1>3, <1>8, <2>3, <2>5
<1> QED BY <1>6, <1>7, <1>8

\* The exponential of the integral of q(z)/z, its n-th coefficient times n!.
LEMMA ExponentialFirst ==
  ASSUME NEW q \in [1..3 -> Int], NEW e, e = Exponential(q)
  PROVE  /\ e[1] = q[1] /\ e[2] = q[1] * q[1] + q[2]
         /\ e[3] = q[1] * (q[1] * q[1] + q[2]) + (q[2] * q[1]) * 2 + q[3] * 2
<1> DEFINE a2 == q[1] * q[1] + q[2]
           a3 == q[1] * a2 + (q[2] * q[1]) * 2 + q[3] * 2
           Rec(e0) == e0 = [n \in 0..3 |-> IF n = 0 THEN 1 ELSE Integrated(q, e0, n)]
           cc == CHOOSE e0 : Rec(e0)
<1>0. q[1] \in Int /\ q[2] \in Int /\ q[3] \in Int
  OBVIOUS
<1>1. a2 \in Int /\ a3 \in Int
  <2>1. a2 \in Int
    BY <1>0
  <2> HIDE DEF a2
  <2> QED BY <1>0, <2>1
<1> HIDE DEF a2, a3
<1>2. ASSUME NEW u, u[0] = 1 PROVE Integrated(q, u, 1) = q[1]
  <2>1. \A k \in 0..(1 - 1) : u[k] \in Int
    BY <1>2
  <2>2. Integrated(q, u, 1) = q[1] * u[0]
    BY <2>1, IntegratedFirst
  <2> QED BY <1>0, <1>2, <2>2
<1>3. ASSUME NEW u, u[0] = 1, u[1] = q[1] PROVE Integrated(q, u, 2) = a2
  <2>1. \A k \in 0..(2 - 1) : u[k] \in Int
    BY <1>0, <1>3
  <2>2. Integrated(q, u, 2) = q[1] * u[1] + q[2] * u[0]
    BY <2>1, IntegratedFirst
  <2> QED BY <1>0, <1>3, <2>2 DEF a2
<1>4. ASSUME NEW u, u[0] = 1, u[1] = q[1], u[2] = a2 PROVE Integrated(q, u, 3) = a3
  <2>1. \A k \in 0..(3 - 1) : u[k] \in Int
    BY <1>0, <1>1, <1>4
  <2>2. Integrated(q, u, 3) = q[1] * u[2] + (q[2] * u[1]) * 2 + (q[3] * u[0]) * 2
    BY <2>1, IntegratedFirst
  <2> QED BY <1>0, <1>4, <2>2 DEF a3
<1>5. \E u : Rec(u)
  <2> DEFINE u == [n \in 0..3 |-> IF n = 0 THEN 1 ELSE IF n = 1 THEN q[1] ELSE IF n = 2 THEN a2 ELSE a3]
  <2>1. u[0] = 1 /\ u[1] = q[1] /\ u[2] = a2 /\ u[3] = a3 /\ u = [n \in 0..3 |-> u[n]]
    OBVIOUS
  <2> HIDE DEF u
  <2>2. \A n \in 0..3 : u[n] = IF n = 0 THEN 1 ELSE Integrated(q, u, n)
    <3>1. Integrated(q, u, 1) = u[1] /\ Integrated(q, u, 2) = u[2] /\ Integrated(q, u, 3) = u[3]
      BY <1>2, <1>3, <1>4, <2>1
    <3> QED BY <2>1, <3>1
  <2>3. Rec(u)
    BY <2>1, <2>2
  <2> QED BY <2>3
<1>6. Rec(cc)
  <2> HIDE DEF Rec
  <2> QED BY <1>5
<1>7. e = cc
  BY DEF Exponential, Order
<1> HIDE DEF cc
<1>8. \A n \in 0..3 : e[n] = IF n = 0 THEN 1 ELSE Integrated(q, e, n)
  BY <1>6, <1>7
<1>9. e[0] = 1 /\ e[1] = Integrated(q, e, 1) /\ e[2] = Integrated(q, e, 2) /\ e[3] = Integrated(q, e, 3)
  BY <1>8
<1>10. e[1] = q[1]
  BY <1>2, <1>9
<1>11. e[2] = a2
  BY <1>3, <1>9, <1>10
<1>12. e[3] = a3
  BY <1>4, <1>9, <1>10, <1>11
<1> QED BY <1>10, <1>11, <1>12 DEF a2, a3

\* Small remainders and quotients.
LEMMA SmallQuotients ==
  /\ 1 % 1 = 0 /\ 2 % 1 = 0 /\ 3 % 1 = 0 /\ 1 \div 1 = 1 /\ 2 \div 1 = 2 /\ 3 \div 1 = 3
  /\ 1 % 2 = 1 /\ 2 % 2 = 0 /\ 3 % 2 = 1 /\ 2 \div 2 = 1
  /\ 1 % 3 = 1 /\ 2 % 3 = 2 /\ 3 % 3 = 0 /\ 3 \div 3 = 1
OBVIOUS

\* The coefficients of phi(w) - 1 where w is g z^j.
ExtremalSeries(phi, gammas, k) ==
  LET unit == {n \in DOMAIN gammas : gammas[n] # 0}
      j    == Min(unit)
  IN  IF unit # {} /\ k % j = 0
      THEN phi[k \div j] * (IF (k \div j) % 2 = 0 THEN 1 ELSE gammas[j]) ELSE 0

\* The first gamma that is not 0 decides.
LEMMA ClosedFirst ==
  ASSUME NEW gammas \in Seq({-1, 0, 1}),
         NEW G, \A i \in 1..3 : G[i] = IF i <= Len(gammas) THEN gammas[i] ELSE 0,
         NEW phi, \A j \in 1..3 : phi[j] \in Int
  PROVE  /\ G[1] # 0 => /\ ExtremalSeries(phi, gammas, 1) = phi[1] * G[1] /\ ExtremalSeries(phi, gammas, 2) = phi[2]
                        /\ ExtremalSeries(phi, gammas, 3) = phi[3] * G[1]
         /\ G[1] = 0 /\ G[2] # 0 => /\ ExtremalSeries(phi, gammas, 1) = 0
                                    /\ ExtremalSeries(phi, gammas, 2) = phi[1] * G[2]
                                    /\ ExtremalSeries(phi, gammas, 3) = 0
         /\ G[1] = 0 /\ G[2] = 0 => /\ ExtremalSeries(phi, gammas, 1) = 0 /\ ExtremalSeries(phi, gammas, 2) = 0
                                    /\ ExtremalSeries(phi, gammas, 3) = phi[1] * G[3]
<1> DEFINE n == Len(gammas)
           unit == {i \in DOMAIN gammas : gammas[i] # 0}
           j == Min(unit)
           C(k) == IF unit # {} /\ k % j = 0
                   THEN phi[k \div j] * (IF (k \div j) % 2 = 0 THEN 1 ELSE gammas[j]) ELSE 0
<1>1. /\ n \in Nat /\ unit \in SUBSET (1..n)
      /\ \A i \in 1..n : i \in unit <=> gammas[i] # 0
      /\ \A i \in 1..n : gammas[i] \in {-1, 0, 1}
  OBVIOUS
<1>2. unit # {} => j \in unit /\ j \in 1..n /\ \A i \in unit : j <= i
  <2> HIDE DEF unit
  <2> QED BY <1>1, FirstPlace
<1>3. \A k \in 1..3 : ExtremalSeries(phi, gammas, k) = C(k)
  BY DEF ExtremalSeries
<1>4. \A i \in 1..3 : G[i] # 0 => i \in unit /\ gammas[i] = G[i]
  BY <1>1
<1>5. \A i \in unit : i \in 1..3 => G[i] # 0
  BY <1>1
<1>6. phi[1] \in Int /\ phi[2] \in Int /\ phi[3] \in Int
  OBVIOUS
<1> HIDE DEF unit, j
<1>7. CASE G[1] # 0
  <2>1. 1 \in unit /\ gammas[1] = G[1]
    BY <1>4, <1>7
  <2>2. j = 1 /\ unit # {}
    BY <1>1, <1>2, <2>1
  <2>3. C(1) = phi[1] * G[1] /\ C(3) = phi[3] * G[1]
    BY <2>1, <2>2, SmallQuotients
  <2>4. C(2) = phi[2]
    BY <1>6, <2>2, SmallQuotients
  <2> HIDE DEF C
  <2> QED BY <1>3, <1>7, <2>3, <2>4
<1>8. CASE G[1] = 0 /\ G[2] # 0
  <2>1. 2 \in unit /\ gammas[2] = G[2]
    BY <1>4, <1>8
  <2>2. j = 2 /\ unit # {}
    <3>1. j \in 1..n /\ j <= 2
      BY <1>2, <2>1
    <3>2. j # 1
      BY <1>2, <1>5, <1>8, <2>1
    <3> QED BY <1>1, <2>1, <3>1, <3>2
  <2>3. C(2) = phi[1] * G[2]
    BY <2>1, <2>2, SmallQuotients
  <2>4. C(1) = 0 /\ C(3) = 0
    BY <2>2, SmallQuotients
  <2> HIDE DEF C
  <2> QED BY <1>3, <1>8, <2>3, <2>4
<1>9. CASE G[1] = 0 /\ G[2] = 0 /\ G[3] # 0
  <2>1. 3 \in unit /\ gammas[3] = G[3]
    BY <1>4, <1>9
  <2>2. j = 3 /\ unit # {}
    <3>1. j \in 1..n /\ j <= 3
      BY <1>2, <2>1
    <3>2. j # 1 /\ j # 2
      BY <1>2, <1>5, <1>9, <2>1
    <3> QED BY <1>1, <2>1, <3>1, <3>2
  <2>3. C(3) = phi[1] * G[3]
    BY <2>1, <2>2, SmallQuotients
  <2>4. C(1) = 0 /\ C(2) = 0
    BY <2>2, SmallQuotients
  <2> HIDE DEF C
  <2> QED BY <1>3, <1>9, <2>3, <2>4
<1>10. CASE G[1] = 0 /\ G[2] = 0 /\ G[3] = 0
  <2>1. ASSUME unit # {} PROVE \A k \in 1..3 : k % j # 0
    <3>1. j \in Nat /\ j \notin 1..3 /\ j # 0
      BY <1>1, <1>2, <1>5, <1>10, <2>1
    <3>2. j \in Nat \ {0} /\ 1 \in 1..j /\ 2 \in 1..j /\ 3 \in 1..j /\ j # 1 /\ j # 2 /\ j # 3
      BY <3>1
    <3>3. 1 % j = 1 /\ 2 % j = 2 /\ 3 % j = 3
      BY <3>2, Remainders
    <3> QED BY <3>3
  <2>2. C(1) = 0 /\ C(2) = 0 /\ C(3) = 0
    BY <2>1
  <2>3. phi[1] * G[3] = 0
    BY <1>6, <1>10
  <2> HIDE DEF C
  <2> QED BY <1>3, <1>10, <2>2, <2>3
<1> QED BY <1>7, <1>8, <1>9, <1>10

\* The member that the code computes is the extremal member in closed form.
LEMMA MemberExtremal ==
  ASSUME NEW gammas \in Seq({-1, 0, 1}), NEW phi, \A j \in 1..3 : phi[j] \in Int,
         NEW e, e = Member(phi, gammas), NEW x, x = ExtremalMember(phi, gammas)
  PROVE  e[1] = x[1] /\ e[2] = x[2] /\ e[3] = x[3]
<1> DEFINE G == [i \in 1..3 |-> IF i <= Len(gammas) THEN gammas[i] ELSE 0]
           w == Omega(gammas)
           q == Series(phi, Powers(w))
           C(k) == ExtremalSeries(phi, gammas, k)
<1>1. \A i \in 1..3 : G[i] = (IF i <= Len(gammas) THEN gammas[i] ELSE 0) /\ G[i] \in {-1, 0, 1}
  OBVIOUS
<1> HIDE DEF G
<1>2. /\ w \in [1..3 -> Int] /\ w[1] = G[1]
      /\ w[2] = (IF G[1] = 0 THEN G[2] ELSE 0)
      /\ w[3] = (IF G[1] = 0 /\ G[2] = 0 THEN G[3] ELSE 0)
  BY <1>1, OmegaFirst
<1> HIDE DEF w
<1>3. /\ q[1] = phi[1] * w[1]
      /\ q[2] = phi[1] * w[2] + phi[2] * (w[1] * w[1])
      /\ q[3] = phi[1] * w[3] + phi[2] * (w[1] * w[2] + w[2] * w[1]) + phi[3] * ((w[1] * w[1]) * w[1])
  BY <1>2, SeriesFirst
<1>4. q \in [1..3 -> Int]
  <2>1. phi[1] \in Int /\ phi[2] \in Int /\ phi[3] \in Int /\ w[1] \in Int /\ w[2] \in Int /\ w[3] \in Int
    BY <1>2
  <2>2. q[1] \in Int /\ q[2] \in Int /\ q[3] \in Int
    <3> HIDE DEF q
    <3>1. w[1] * w[1] \in Int /\ w[1] * w[2] \in Int /\ w[2] * w[1] \in Int
      BY <2>1
    <3>2. (w[1] * w[1]) * w[1] \in Int /\ w[1] * w[2] + w[2] * w[1] \in Int
      BY <2>1, <3>1
    <3>3. /\ phi[1] * w[1] \in Int /\ phi[1] * w[2] \in Int /\ phi[1] * w[3] \in Int
          /\ phi[2] * (w[1] * w[1]) \in Int /\ phi[2] * (w[1] * w[2] + w[2] * w[1]) \in Int
          /\ phi[3] * ((w[1] * w[1]) * w[1]) \in Int
      <4>1. \A u, v \in Int : u * v \in Int
        OBVIOUS
      <4>2. PICK a \in Int, b \in Int, c \in Int :
              a = w[1] * w[1] /\ b = w[1] * w[2] + w[2] * w[1] /\ c = (w[1] * w[1]) * w[1]
        BY <3>1, <3>2
      <4>3. phi[2] * a \in Int /\ phi[2] * b \in Int /\ phi[3] * c \in Int
        BY <2>1, <4>1
      <4>4. phi[1] * w[1] \in Int /\ phi[1] * w[2] \in Int /\ phi[1] * w[3] \in Int
        BY <2>1, <4>1
      <4> QED BY <4>2, <4>3, <4>4
    <3> QED BY <1>3, <3>3
  <2>3. \E f : q = [k \in 1..3 |-> f[k]]
    <3>1. q = [k \in 1..3 |-> SumFunction([j \in 1..3 |-> phi[j] * Powers(w)[j][k]])]
      BY DEF Series, Order
    <3>2. q = [k \in 1..3 |-> q[k]]
      BY <3>1
    <3> QED BY <3>2
  <2> HIDE DEF q
  <2> QED BY <2>2, <2>3
<1> HIDE DEF q
<1>5. C(1) = q[1] /\ C(2) = q[2] /\ C(3) = q[3]
  <2>1. phi[1] \in Int /\ phi[2] \in Int /\ phi[3] \in Int
    OBVIOUS
  <2>2. /\ G[1] # 0 => C(1) = phi[1] * G[1] /\ C(2) = phi[2] /\ C(3) = phi[3] * G[1]
        /\ G[1] = 0 /\ G[2] # 0 => C(1) = 0 /\ C(2) = phi[1] * G[2] /\ C(3) = 0
        /\ G[1] = 0 /\ G[2] = 0 => C(1) = 0 /\ C(2) = 0 /\ C(3) = phi[1] * G[3]
    BY <1>1, ClosedFirst
  <2>3. G[1] \in {-1, 0, 1} /\ G[2] \in {-1, 0, 1} /\ G[3] \in {-1, 0, 1}
    BY <1>1
  <2> HIDE DEF C
  <2>4. CASE G[1] = 1
    <3>1. w[1] = 1 /\ w[2] = 0 /\ w[3] = 0
      BY <1>2, <2>4
    <3> QED BY <1>3, <2>1, <2>2, <2>4, <3>1
  <2>5. CASE G[1] = -1
    <3>1. w[1] = -1 /\ w[2] = 0 /\ w[3] = 0
      BY <1>2, <2>5
    <3> QED BY <1>3, <2>1, <2>2, <2>5, <3>1
  <2>6. CASE G[1] = 0 /\ G[2] # 0
    <3>1. w[1] = 0 /\ w[2] = G[2] /\ w[3] = 0 /\ G[2] \in Int
      BY <1>2, <2>3, <2>6
    <3>2. phi[1] * w[2] \in Int
      BY <2>1, <3>1
    <3> QED BY <1>3, <2>1, <2>2, <2>6, <3>1, <3>2
  <2>7. CASE G[1] = 0 /\ G[2] = 0
    <3>1. w[1] = 0 /\ w[2] = 0 /\ w[3] = G[3] /\ G[3] \in Int
      BY <1>2, <2>3, <2>7
    <3>2. phi[1] * w[3] \in Int
      BY <2>1, <3>1
    <3> QED BY <1>3, <2>1, <2>2, <2>7, <3>1, <3>2
  <2> QED BY <2>3, <2>4, <2>5, <2>6, <2>7
<1>6. /\ x[1] = C(1) /\ x[2] = C(1) * C(1) + C(2)
      /\ x[3] = C(1) * C(1) * C(1) + 3 * C(1) * C(2) + 2 * C(3)
  <2> DEFINE r == [k \in 1..3 |-> C(k)]
  <2>1. r[1] = C(1) /\ r[2] = C(2) /\ r[3] = C(3)
    <3> HIDE DEF C
    <3> QED OBVIOUS
  <2>2. x = <<r[1], r[1] * r[1] + r[2], r[1] * r[1] * r[1] + 3 * r[1] * r[2] + 2 * r[3]>>
    BY DEF ExtremalMember, ExtremalSeries, Order
  <2> HIDE DEF r, C
  <2> QED BY <2>1, <2>2
<1>7. PICK d : d = Exponential(q)
  OBVIOUS
<1>8. /\ d[1] = q[1] /\ d[2] = q[1] * q[1] + q[2]
      /\ d[3] = q[1] * (q[1] * q[1] + q[2]) + (q[2] * q[1]) * 2 + q[3] * 2
  BY <1>4, <1>7, ExponentialFirst
<1>9. e[1] = d[1] /\ e[2] = d[2] /\ e[3] = d[3]
  BY <1>7 DEF Member, Order, q, w
<1> HIDE DEF C
<1>10. q[1] \in Int /\ q[2] \in Int /\ q[3] \in Int
  BY <1>4
<1>11. q[1] * (q[1] * q[1] + q[2]) + (q[2] * q[1]) * 2 + q[3] * 2
         = q[1] * q[1] * q[1] + 3 * q[1] * q[2] + 2 * q[3]
  BY <1>10
<1> QED BY <1>5, <1>6, <1>8, <1>9, <1>11

-----------------------------------------------------------------------------
(* The replay of a certificate. *)

\* What verify_certificate reads, while a call lasts; what cannot be read is not
\* in memory.
CertInv ==
  /\ DOMAIN memory = Documents
  /\ \A d \in Documents : /\ memory[d] \notin {"missing", "undecodable"}
                          /\ memory[d] = "broken" => d = "references"
  /\ found # Unset => todo = <<>>
  /\ lookup # Unset /\ lookup.op = "certificate" => todo \in Seq({"certificates", "supplement", "classes"})
  /\ CertificateVerdictExact

\* A certificate is answered exactly when it can be replayed and is right; what is
\* refused is unresolved, unsupported or corrupt for a reason of its own.
LEMMA ReplayExact ==
  ASSUME NEW name \in DOMAIN Certificates, NEW c, c = Certificates[name],
         NEW f, f = ReplayCertificate(c)
  PROVE  \/ /\ Replayable(c) /\ Consistent(c)
            /\ f = Answer(IF c.proven THEN "proven_exact_under_declared_assumptions"
                                      ELSE "certified_enclosure")
         \/ /\ ~(Replayable(c) /\ Consistent(c))
            /\ \E x \in {"UnresolvedError", "UnsupportedError", "CorruptArtifactError"} :
                 /\ f = Refused(x)
                 /\ x = "UnresolvedError" =>
                      c.gammas = <<>> \/ Unset \in ToSet(c.gammas) \/ c.candidate.form = "none"
                 /\ x = "UnsupportedError" => c.functional.family \notin Families
                 /\ x = "CorruptArtifactError" => Replayable(c) /\ ~Consistent(c)
<1> DEFINE phi == ClassCoeffs[c.class]
           computed == ValueAt(c.functional, Member(phi, c.gammas))
           value == ValueAt(c.functional, ExtremalMember(phi, c.gammas))
           answered == Answer(IF c.proven THEN "proven_exact_under_declared_assumptions"
                                          ELSE "certified_enclosure")
           resolved == c.gammas # <<>> /\ Unset \notin ToSet(c.gammas)
           Ok == computed = c.candidate.value /\ computed <= c.bound /\ c.status = "PROVED"
<1>1. /\ \A n \in 1..3 : phi[n] \in Int
      /\ c.gammas \in Seq({-1, 0, 1, Unset})
      /\ c.candidate.form \in {"exact", "float", "none", "malformed"}
  BY StoreAssumption
<1>2. resolved => computed = value
  <2> SUFFICES ASSUME resolved PROVE computed = value
    OBVIOUS
  <2>1. c.gammas \in Seq({-1, 0, 1})
    <3>1. \A i \in 1..Len(c.gammas) : c.gammas[i] \in {-1, 0, 1, Unset} /\ c.gammas[i] # Unset
      BY <1>1 DEF ToSet
    <3>2. PICK g : g = c.gammas
      OBVIOUS
    <3>3. g \in Seq({-1, 0, 1, Unset}) /\ \A i \in 1..Len(g) : g[i] \in {-1, 0, 1}
      BY <1>1, <3>1, <3>2
    <3>4. g \in Seq({-1, 0, 1})
      BY <3>3
    <3> QED BY <3>2, <3>4
  <2> DEFINE e == Member(phi, c.gammas)
             x == ExtremalMember(phi, c.gammas)
  <2>2. e[1] = x[1] /\ e[2] = x[2] /\ e[3] = x[3]
    BY <1>1, <2>1, MemberExtremal
  <2> HIDE DEF e, x
  <2>3. ValueAt(c.functional, e) = ValueAt(c.functional, x)
    BY <2>2 DEF ValueAt
  <2> QED BY <2>3 DEF e, x
<1>3. f = IF ~resolved THEN Refused("UnresolvedError")
          ELSE IF c.functional.family \notin Families THEN Refused("UnsupportedError")
          ELSE IF c.bound = Unset THEN Refused("CorruptArtifactError")
          ELSE IF c.candidate.form = "malformed" THEN Refused("CorruptArtifactError")
          ELSE IF c.candidate.form = "none" THEN Refused("UnresolvedError")
          ELSE IF Ok THEN answered ELSE Refused("CorruptArtifactError")
  BY DEF ReplayCertificate
<1>4. Replayable(c) <=> resolved /\ c.functional.family \in Families
  BY DEF Replayable
<1>5. Consistent(c) <=> /\ c.status = "PROVED" /\ c.candidate.form \in {"exact", "float"}
                        /\ c.bound # Unset /\ value = c.candidate.value /\ value <= c.bound
  BY DEF Consistent
<1>6. ~resolved <=> c.gammas = <<>> \/ Unset \in ToSet(c.gammas)
  OBVIOUS
<1> HIDE DEF computed, resolved, answered, value
<1>7. CASE ~resolved
  BY <1>3, <1>4, <1>6, <1>7
<1>8. CASE resolved /\ c.functional.family \notin Families
  BY <1>3, <1>4, <1>8
<1>9. CASE resolved /\ c.functional.family \in Families
  <2>1. Replayable(c)
    BY <1>4, <1>9
  <2>2. CASE c.bound = Unset \/ c.candidate.form = "malformed"
    BY <1>3, <1>5, <1>9, <2>1, <2>2
  <2>3. CASE c.bound # Unset /\ c.candidate.form = "none"
    BY <1>3, <1>5, <1>9, <2>3
  <2>4. CASE c.bound # Unset /\ c.candidate.form \in {"exact", "float"}
    <3>1. Ok <=> Consistent(c)
      BY <1>2, <1>5, <1>9, <2>4
    <3>2. f = IF Ok THEN answered ELSE Refused("CorruptArtifactError")
      BY <1>3, <1>9, <2>4
    <3> QED BY <2>1, <3>1, <3>2 DEF answered
  <2> QED BY <1>1, <2>2, <2>3, <2>4
<1> QED BY <1>7, <1>8, <1>9

\* The store is used through its own actions only.
LEMMA StoreMoves ==
  ASSUME [Next]_<<dagVars, contractVars, cliVars>>
  PROVE  \/ UNCHANGED storeVars
         \/ \E op, class, name : Call(op, class, name)
         \/ Read \/ Conclude \/ Reinstall
<1>1. CASE UNCHANGED cliVars
  BY <1>1 DEF cliVars
<1>2. CASE LibraryStep
  BY <1>2 DEF LibraryStep, StoreStep
<1>3. CASE CommandStep
  BY <1>3 DEF CommandStep, Parse, Finish, RunReplay, RunWalkthrough, RunRadius, RunOther, Report, Emit,
              CallArtifact, RunArtifact, HandledAs, storeVars
<1> QED BY <1>1, <1>2, <1>3 DEF Next, cliVars

\* Nothing was called at first.
LEMMA InitCert == Init => CertInv
<1>1. Init => StoreInit \/ StoreIdle
  BY DEF Init, CliIdle, CommandInit
<1>2. StoreInit \/ StoreIdle => /\ todo = <<>> /\ lookup = Unset /\ found = Unset
                               /\ memory = [d \in Documents |-> "none"]
  BY DEF StoreInit, StoreIdle
<1> QED BY <1>1, <1>2 DEF CertInv, CertificateVerdictExact

\* A call begins with the corpus and its classes to read.
LEMMA CallCert ==
  ASSUME CertInv, NEW op, NEW class, NEW name, Call(op, class, name)
  PROVE  CertInv'
<1>1. lookup'.op = op /\ todo' \in Reads(op, class) /\ found' = Unset /\ memory' = memory
  BY DEF Call
<1>2. ASSUME op = "certificate" PROVE todo' \in Seq({"certificates", "supplement", "classes"})
  <2>1. todo' = <<"certificates", "supplement">> \o <<"classes">>
    BY <1>1, <1>2 DEF Reads
  <2>2. /\ <<"certificates", "supplement">> \in Seq({"certificates", "supplement", "classes"})
        /\ <<"classes">> \in Seq({"certificates", "supplement", "classes"})
    OBVIOUS
  <2> QED BY <2>1, <2>2
<1> QED BY <1>1, <1>2 DEF CertInv, CertificateVerdictExact

\* A document is read that a lookup needs; one that cannot be is damaged.
LEMMA ReadCert ==
  ASSUME CertInv, Read
  PROVE  CertInv'
<1> DEFINE d == Head(todo)
           kept == IF \/ Content(d) \in {"missing", "undecodable"}
                      \/ Content(d) = "broken" /\ d # "references"
                   THEN "none" ELSE Content(d)
<1>1. /\ todo # <<>> /\ found = Unset /\ disk' = disk /\ lookup' = lookup
      /\ memory' = [memory EXCEPT ![d] = kept]
  BY DEF Read, CertInv
<1>2. \/ Unreadable(d) # "none" /\ Stop(Unreadable(d))
      \/ Unreadable(d) = "none" /\ Unknown(d) /\ Stop("UnsupportedError")
      \/ todo' = Tail(todo) /\ UNCHANGED found
      \/ d = "reconciliation" /\ Stop("InvalidInputError")
  BY DEF Read
<1>3. /\ DOMAIN memory' = Documents
      /\ \A c \in Documents : /\ memory'[c] \notin {"missing", "undecodable"}
                              /\ memory'[c] = "broken" => c = "references"
  <2>1. kept \notin {"missing", "undecodable"} /\ (kept = "broken" => d = "references")
    OBVIOUS
  <2> HIDE DEF kept, d
  <2> QED BY <1>1, <2>1 DEF CertInv
<1>4. found' # Unset => todo' = <<>>
  BY <1>1, <1>2 DEF Stop
<1>5. CASE lookup = Unset \/ lookup.op # "certificate"
  BY <1>1, <1>3, <1>4, <1>5 DEF CertInv, CertificateVerdictExact
<1>6. CASE lookup # Unset /\ lookup.op = "certificate"
  <2>1. /\ todo \in Seq({"certificates", "supplement", "classes"})
        /\ d \in {"certificates", "supplement", "classes"} /\ Tail(todo) \in Seq({"certificates", "supplement", "classes"})
    BY <1>1, <1>6 DEF CertInv
  <2>2. CASE todo' = Tail(todo) /\ UNCHANGED found
    BY <1>1, <1>3, <2>1, <2>2 DEF CertInv, CertificateVerdictExact
  <2>3. ASSUME NEW x, Stop(x), x # "UnresolvedError",
               lookup.name \in DOMAIN Certificates =>
                 \E c \in Documents : disk'[c] # "good" \/ memory'[c] \notin {"good", "none"}
        PROVE  CertInv'
    <3>1. todo' = <<>> /\ found' = Refused(x)
      BY <2>3 DEF Stop
    <3>2. found'.kind = "raised" /\ found' # Refused("UnresolvedError")
      BY <2>3, <3>1 DEF Refused
    <3>3. CertificateVerdictExact'
      BY <1>1, <2>3, <3>2 DEF CertificateVerdictExact
    <3> QED BY <1>3, <3>1, <3>3 DEF CertInv
  <2>4. CASE Unreadable(d) # "none" /\ Stop(Unreadable(d))
    <3>1. d \in Documents
      BY <2>1 DEF Documents, Listed
    <3>2. Content(d) \in {"undecodable", "missing", "broken", "schema", "overlapping"}
          /\ Unreadable(d) # "UnresolvedError"
      BY <2>4 DEF Unreadable
    <3>3. disk'[d] # "good" \/ memory'[d] \notin {"good", "none"}
      <4>1. CASE memory[d] = "none"
        BY <1>1, <3>2, <4>1 DEF Content
      <4>2. CASE memory[d] # "none"
        <5>1. Content(d) = memory[d] /\ d # "references"
          BY <2>1, <4>2 DEF Content
        <5>2. memory[d] \in {"schema", "overlapping"}
          BY <3>1, <3>2, <5>1 DEF CertInv
        <5>3. memory'[d] = memory[d]
          <6>1. kept = memory[d]
            BY <5>1, <5>2
          <6> HIDE DEF kept
          <6> QED BY <1>1, <3>1, <6>1 DEF CertInv
        <5> QED BY <5>2, <5>3
      <4> QED BY <4>1, <4>2
    <3> HIDE DEF d
    <3> QED BY <2>3, <2>4, <3>1, <3>2, <3>3
  <2>5. CASE Unknown(d) /\ Stop("UnsupportedError")
    <3>1. lookup.name \notin DOMAIN Certificates
      BY <1>6, <2>1, <2>5 DEF Unknown, Named
    <3> QED BY <2>3, <2>5, <3>1
  <2> HIDE DEF d
  <2> QED BY <1>2, <2>1, <2>2, <2>4, <2>5
<1> QED BY <1>5, <1>6

\* A certificate that was read is replayed.
LEMMA ConcludeCert ==
  ASSUME CertInv, Conclude
  PROVE  CertInv'
<1>1. /\ lookup # Unset /\ todo = <<>> /\ lookup' = lookup /\ todo' = todo
      /\ disk' = disk /\ memory' = memory
  BY DEF Conclude
<1>2. CASE lookup.op # "certificate" \/ lookup.name \notin DOMAIN Certificates
  BY <1>1, <1>2 DEF CertInv, CertificateVerdictExact
<1>3. CASE lookup.op = "certificate" /\ lookup.name \in DOMAIN Certificates
  <2>1. PICK c : c = Certificates[lookup.name]
    OBVIOUS
  <2>2. found' = ReplayCertificate(c)
    BY <1>3, <2>1 DEF Conclude, Filtered
  <2>3. c.proven \in BOOLEAN
    BY <1>3, <2>1, StoreAssumption
  <2> DEFINE Verdict ==
        /\ found'.kind = "answer" => Replayable(c) /\ Consistent(c)
        /\ found'.kind = "answer" => (found'.value = "certified_enclosure" <=> ~c.proven)
        /\ ~(Replayable(c) /\ Consistent(c) /\ found'.kind = "raised")
        /\ found' = Refused("UnresolvedError") => ~Replayable(c) \/ c.candidate.form = "none"
  <2>4. Verdict
    <3>1. CASE /\ Replayable(c) /\ Consistent(c)
               /\ found' = Answer(IF c.proven THEN "proven_exact_under_declared_assumptions"
                                              ELSE "certified_enclosure")
      <4>1. CASE c.proven
        BY <3>1, <4>1 DEF Answer, Refused
      <4>2. CASE ~c.proven
        BY <3>1, <4>2 DEF Answer, Refused
      <4> QED BY <4>1, <4>2
    <3>2. ASSUME NEW x, found' = Refused(x), ~(Replayable(c) /\ Consistent(c)),
                 x = "UnresolvedError" =>
                   c.gammas = <<>> \/ Unset \in ToSet(c.gammas) \/ c.candidate.form = "none"
          PROVE  Verdict
      <4>1. found'.kind = "raised" /\ (found' = Refused("UnresolvedError") => x = "UnresolvedError")
        BY <3>2 DEF Refused
      <4>2. c.gammas = <<>> \/ Unset \in ToSet(c.gammas) => ~Replayable(c)
        BY DEF Replayable
      <4> QED BY <3>2, <4>1, <4>2
    <3> HIDE DEF Verdict
    <3>3. c = Certificates[lookup.name] /\ lookup.name \in DOMAIN Certificates
      BY <1>3, <2>1
    <3> QED BY <2>2, <3>1, <3>2, <3>3, ReplayExact
  <2>5. CertificateVerdictExact'
    BY <1>1, <2>1, <2>4 DEF CertificateVerdictExact, Replayable, Consistent
  <2> QED BY <1>1, <2>5 DEF CertInv
<1> QED BY <1>2, <1>3

\* Every step keeps the invariant.
LEMMA StepCert == CertInv /\ [Next]_<<dagVars, contractVars, cliVars>> => CertInv'
<1> SUFFICES ASSUME CertInv, [Next]_<<dagVars, contractVars, cliVars>> PROVE CertInv'
  OBVIOUS
<1>1. CASE UNCHANGED storeVars
  BY <1>1 DEF CertInv, CertificateVerdictExact, storeVars
<1>2. CASE Reinstall
  BY <1>2 DEF Reinstall, CertInv, CertificateVerdictExact
<1> QED BY <1>1, <1>2, StoreMoves, CallCert, ReadCert, ConcludeCert

\* A certificate replays exactly when its document says PROVED and the member its
\* gammas describe attains the declared candidate without exceeding the declared
\* bound, for every corpus of certificates, set of classes and damage to the
\* documents (artifacts.py 675-827; schur.py 76-233).
THEOREM CertificatesReplay == Spec => []CertificateVerdictExact
<1>1. CertInv => CertificateVerdictExact
  BY DEF CertInv
<1> QED BY <1>1, InitCert, StepCert, PTL DEF Spec

-----------------------------------------------------------------------------
(* The integrity check. *)

\* An integrity check reads the manifest and nothing else from memory.
DiskInv ==
  /\ lookup # Unset /\ lookup.op = "verify" => todo \in {<<>>, <<"manifest">>}
  /\ IntegrityOfDisk

\* A manifest that stops it is one that cannot be used.
LEMMA ReadDisk ==
  ASSUME CertInv, DiskInv, Read
  PROVE  DiskInv'
<1>1. todo # <<>> /\ found = Unset /\ disk' = disk /\ lookup' = lookup
  BY DEF Read, CertInv
<1>2. CASE lookup = Unset \/ lookup.op # "verify"
  BY <1>1, <1>2 DEF DiskInv, IntegrityOfDisk
<1>3. CASE lookup # Unset /\ lookup.op = "verify"
  <2>1. todo = <<"manifest">> /\ Head(todo) = "manifest" /\ Tail(todo) = <<>>
    <3>1. todo = <<"manifest">>
      BY <1>1, <1>3 DEF DiskInv
    <3>2. todo \in Seq({"manifest"}) /\ Len(todo) = 1
      BY <3>1
    <3>3. Tail(todo) \in Seq({"manifest"}) /\ Len(Tail(todo)) = 0
      BY <3>2
    <3> QED BY <3>1, <3>3
  <2>2. "manifest" \in Documents
    BY DEF Documents
  <2>3. memory'["manifest"] = IF Content("manifest") \in {"missing", "undecodable", "broken"}
                              THEN "none" ELSE Content("manifest")
    BY <2>1, <2>2 DEF Read, CertInv
  <2>4. \/ Unreadable("manifest") # "none" /\ found' = Refused(Unreadable("manifest")) /\ todo' = <<>>
        \/ todo' = <<>> /\ found' = found
    BY <2>1 DEF Read, Unknown, Stop
  <2>5. CASE todo' = <<>> /\ found' = found
    BY <1>1, <2>5 DEF DiskInv, IntegrityOfDisk
  <2>6. CASE Unreadable("manifest") # "none" /\ found' = Refused(Unreadable("manifest")) /\ todo' = <<>>
    <3>1. Content("manifest") \in {"missing", "undecodable", "broken", "schema"}
      BY <2>6 DEF Unreadable
    <3>2. memory["manifest"] \notin {"missing", "undecodable", "broken"}
      BY <2>2 DEF CertInv
    <3>3. Content("manifest")' \in {"missing", "undecodable", "broken", "schema"}
      BY <1>1, <2>3, <3>1, <3>2 DEF Content
    <3>4. found'.kind = "raised"
      BY <2>6 DEF Refused
    <3> QED BY <1>1, <2>6, <3>3, <3>4 DEF DiskInv, IntegrityOfDisk
  <2> QED BY <2>4, <2>5, <2>6
<1> QED BY <1>2, <1>3

\* Every step keeps the invariant.
LEMMA StepDisk ==
  ASSUME CertInv, DiskInv, [Next]_<<dagVars, contractVars, cliVars>>
  PROVE  DiskInv'
<1>1. CASE UNCHANGED storeVars
  BY <1>1 DEF DiskInv, IntegrityOfDisk, Content, storeVars
<1>2. CASE Reinstall
  BY <1>2 DEF Reinstall, DiskInv, IntegrityOfDisk
<1>3. ASSUME NEW op, NEW class, NEW name, Call(op, class, name) PROVE DiskInv'
  <2>1. lookup'.op = op /\ todo' \in Reads(op, class) /\ found' = Unset
    BY <1>3 DEF Call
  <2>2. op = "verify" => todo' \in {<<>>, <<"manifest">>}
    BY <2>1 DEF Reads
  <2> QED BY <2>1, <2>2 DEF DiskInv, IntegrityOfDisk
<1>4. CASE Conclude
  <2>1. todo = <<>> /\ todo' = todo /\ lookup' = lookup /\ disk' = disk
    BY <1>4 DEF Conclude
  <2>2. CASE lookup.op = "verify"
    <3>1. found' = IntegrityCheck
      BY <1>4, <2>2 DEF Conclude, Filtered
    <3>2. /\ found'.kind = "answer" => \A d \in Listed : disk[d] = "good"
          /\ found'.kind = "raised" => \E d \in Listed : disk[d] # "good"
      BY <3>1 DEF IntegrityCheck, Answer, Refused
    <3> QED BY <2>1, <3>2 DEF DiskInv, IntegrityOfDisk
  <2>3. CASE lookup.op # "verify"
    BY <2>1, <2>3 DEF DiskInv, IntegrityOfDisk
  <2> QED BY <2>2, <2>3
<1> QED BY <1>1, <1>2, <1>3, <1>4, ReadDisk, StoreMoves

\* The integrity check is about the files as they are on disk, whatever is cached
\* from before they were reinstalled or damaged, for every set of documents and
\* faults and every sequence of calls (artifacts.py 100-115, 234-291).
THEOREM IntegrityChecksDisk == Spec => []IntegrityOfDisk
<1>1. DiskInv => IntegrityOfDisk
  BY DEF DiskInv
<1>2. Init => DiskInv
  <2>1. Init => StoreInit \/ StoreIdle
    BY DEF Init, CliIdle, CommandInit
  <2> QED BY <2>1 DEF StoreInit, StoreIdle, DiskInv, IntegrityOfDisk
<1>3. CertInv /\ DiskInv /\ [Next]_<<dagVars, contractVars, cliVars>> => DiskInv'
  BY StepDisk
<1> QED BY <1>1, <1>2, <1>3, InitCert, StepCert, PTL DEF Spec

-----------------------------------------------------------------------------
(* The exit code of a command: what an outcome is reported as. *)

\* The exit code of an outcome.
CodeOf(o) ==
  IF o = Printed THEN 0
  ELSE IF o.kind = "structured" THEN ExitCode(o.state)
  ELSE IF o.exception \in Handled THEN ExitCode(FailureState(o.exception)) ELSE 1
States == {"invalid_input", "unsupported", "unresolved", "resource_limit", "corrupt_artifact"}

\* What an outcome is reported as has the cause documented for it.
OutcomeTrue ==
  /\ outcome = Printed \/ outcome.kind \in {"structured", "threw"}
  /\ outcome.kind = "structured" => outcome.state \in States
  /\ Cause(CodeOf(outcome))

\* Every failure has its own exit code, and none of them is 0.
LEMMA CodeOfState ==
  /\ ExitCode("invalid_input") = 2 /\ ExitCode("unsupported") = 3 /\ ExitCode("unresolved") = 4
  /\ ExitCode("resource_limit") = 5 /\ ExitCode("corrupt_artifact") = 6
BY DEF ExitCode

\* The exit codes of answers and structured failures.
LEMMA StructuredCode ==
  /\ CodeOf(Printed) = 0
  /\ \A s : CodeOf(Structured(s)) = ExitCode(s)
  /\ \A s : Structured(s).kind = "structured" /\ Structured(s).state = s /\ Structured(s) # Printed
BY DEF CodeOf, Printed, Structured

\* The exit codes of exceptions.
LEMMA ThrownCode ==
  ASSUME NEW x
  PROVE  /\ Threw(x).kind = "threw" /\ Threw(x).exception = x /\ Threw(x) # Printed
         /\ x \in {"InvalidInputError", "KeyError", "TypeError", "ValueError"} => CodeOf(Threw(x)) = 2
         /\ x \in {"UnsupportedError", "ImportError"} => CodeOf(Threw(x)) = 3
         /\ x = "UnresolvedError" => CodeOf(Threw(x)) = 4
         /\ x = "ResourceLimitError" => CodeOf(Threw(x)) = 5
         /\ x = "CorruptArtifactError" => CodeOf(Threw(x)) = 6
         /\ x \in {"OSError", "RuntimeError"} => CodeOf(Threw(x)) = 1
<1>1. Threw(x).kind = "threw" /\ Threw(x).exception = x /\ Threw(x) # Printed
  BY DEF Threw, Printed
<1>2. CodeOf(Threw(x)) = IF x \in Handled THEN ExitCode(FailureState(x)) ELSE 1
  BY <1>1 DEF CodeOf
<1>3. /\ x \in {"InvalidInputError", "KeyError", "TypeError", "ValueError"} => FailureState(x) = "invalid_input"
      /\ x \in {"UnsupportedError", "ImportError"} => FailureState(x) = "unsupported"
      /\ x = "UnresolvedError" => FailureState(x) = "unresolved"
      /\ x = "ResourceLimitError" => FailureState(x) = "resource_limit"
      /\ x = "CorruptArtifactError" => FailureState(x) = "corrupt_artifact"
  BY DEF FailureState
<1>4. /\ x \in {"InvalidInputError", "KeyError", "TypeError", "ValueError", "UnsupportedError", "ImportError",
                "UnresolvedError", "ResourceLimitError", "CorruptArtifactError"} => x \in Handled
      /\ x \in {"OSError", "RuntimeError"} => x \notin Handled
  BY DEF Handled
<1> QED BY <1>1, <1>2, <1>3, <1>4, CodeOfState

\* No failure is reported as an answer.
LEMMA FailureCode ==
  ASSUME OutcomeTrue, outcome # Printed
  PROVE  CodeOf(outcome) # 0
<1>1. CASE outcome.kind = "structured"
  <2>1. CodeOf(outcome) = ExitCode(outcome.state)
    BY <1>1 DEF CodeOf
  <2>2. outcome.state \in States
    BY <1>1 DEF OutcomeTrue
  <2> QED BY <2>1, <2>2, CodeOfState DEF States
<1>2. CASE outcome.kind = "threw" /\ outcome.exception \in Handled
  <2>1. CodeOf(outcome) = ExitCode(FailureState(outcome.exception))
    BY <1>2 DEF CodeOf
  <2>2. FailureState(outcome.exception) \in States
    BY DEF FailureState, States
  <2> QED BY <2>1, <2>2, CodeOfState DEF States
<1>3. CASE outcome.kind = "threw" /\ outcome.exception \notin Handled
  BY <1>3 DEF CodeOf
<1> QED BY <1>1, <1>2, <1>3 DEF OutcomeTrue

\* What main prints and exits with.
LEMMA ReportedAs ==
  ASSUME OutcomeTrue, Report
  PROVE  \/ exit' = CodeOf(outcome) /\ (exit' = 0 <=> stdout' \in {"record", "text"})
         \/ argv.reader = "gone" /\ exit' \in {1, 120} /\ stdout' \notin {"record", "text"}
<1>1. ASSUME NEW out, NEW err, NEW code, Finish(out, err, code)
      PROVE  \/ stdout' = out /\ exit' = code
             \/ argv.reader = "gone" /\ exit' \in {1, 120} /\ stdout' \notin {"record", "text"}
  BY <1>1 DEF Finish
<1>2. CASE outcome = Printed /\ Finish(IF argv.json # "none" THEN "record" ELSE "text", "", 0)
  <2>1. (IF argv.json # "none" THEN "record" ELSE "text") \in {"record", "text"}
    OBVIOUS
  <2> QED BY <1>1, <1>2, <2>1, StructuredCode
<1>3. ASSUME outcome # Printed, NEW out \in {"failure record", "error record", ""}, NEW err, NEW code,
             code = CodeOf(outcome), Finish(out, err, code)
      PROVE  \/ exit' = CodeOf(outcome) /\ (exit' = 0 <=> stdout' \in {"record", "text"})
             \/ argv.reader = "gone" /\ exit' \in {1, 120} /\ stdout' \notin {"record", "text"}
  <2>1. out \notin {"record", "text"} /\ code # 0
    BY <1>3, FailureCode
  <2> QED BY <1>1, <1>3, <2>1
<1>4. CASE outcome.kind = "structured"
  <2>1. outcome # Printed /\ CodeOf(outcome) = ExitCode(outcome.state)
    BY <1>4 DEF Printed, CodeOf
  <2>2. \/ Finish("failure record", "", ExitCode(outcome.state))
        \/ Finish("", "explanation", ExitCode(outcome.state))
    BY <1>4, <2>1 DEF Report
  <2> QED BY <1>3, <2>1, <2>2
<1>5. CASE outcome.kind = "threw" /\ outcome.exception \in Handled
  <2> DEFINE code == ExitCode(FailureState(outcome.exception))
  <2>1. outcome # Printed /\ CodeOf(outcome) = code
    BY <1>5 DEF Printed, CodeOf
  <2>2. Finish("error record", "", code) \/ Finish("", "explanation", code)
    BY <1>5, <2>1 DEF Report
  <2> HIDE DEF code
  <2> QED BY <1>3, <2>1, <2>2
<1>6. CASE outcome.kind = "threw" /\ outcome.exception \notin Handled /\ Finish("", "traceback", 1)
  <2>1. outcome.kind = "threw" /\ outcome.exception \notin Handled
    BY <1>6
  <2>2. outcome # Printed
    BY <2>1 DEF Printed
  <2>3. CodeOf(outcome) = 1
    BY <2>1, <2>2 DEF CodeOf
  <2> QED BY <1>3, <1>6, <2>2, <2>3
<1> QED BY <1>2, <1>4, <1>5, <1>6 DEF Report

\* What a lookup says of the documents lasts as long as they do.
LEMMA ArtifactLasts ==
  ASSUME disk' = disk, lookup' = lookup, NEW code, ArtifactCause(code)
  PROVE  ArtifactCause(code)'
<1>1. ReadLists' = ReadLists
  BY DEF ReadLists
<1>2. Reached' = Reached
  BY <1>1 DEF Reached
<1> QED BY <1>1, <1>2 DEF ArtifactCause, Usable, Spoiled

\* A cause lasts as long as what it speaks of.
LEMMA CauseLasts ==
  ASSUME UNCHANGED <<argv, outcome, radiusVars, storeVars>>, NEW code, Cause(code)
  PROVE  Cause(code)'
<1>1. /\ argv' = argv /\ outcome' = outcome /\ request' = request /\ held' = held /\ intact' = intact
      /\ disk' = disk /\ lookup' = lookup
  BY DEF radiusVars, storeVars
<1>2. ReplayCause(code) => ReplayCause(code)'
  BY <1>1 DEF ReplayCause, Established, TooLong, Offered, Supported, Asked
<1>3. ArtifactCause(code) => ArtifactCause(code)'
  BY <1>1, ArtifactLasts
<1>4. /\ RadiusCause(code) => RadiusCause(code)'
      /\ OtherCause(code) => OtherCause(code)'
  BY <1>1 DEF RadiusCause, OtherCause
<1> QED BY <1>1, <1>2, <1>3, <1>4 DEF Cause

\* And an outcome that is true of it.
LEMMA OutcomeLasts ==
  ASSUME UNCHANGED <<argv, outcome, radiusVars, storeVars>>, OutcomeTrue
  PROVE  OutcomeTrue' /\ CodeOf(outcome)' = CodeOf(outcome)
<1>1. outcome' = outcome /\ Cause(CodeOf(outcome))
  BY DEF OutcomeTrue
<1>2. PICK code : code = CodeOf(outcome)
  OBVIOUS
<1>3. Cause(code)'
  BY <1>1, <1>2, CauseLasts
<1>4. CodeOf(outcome)' = code
  BY <1>1, <1>2 DEF CodeOf
<1> QED BY <1>1, <1>2, <1>3, <1>4 DEF OutcomeTrue

\* A true outcome gives a truthful exit.
LEMMA ReportTells ==
  ASSUME OutcomeTrue, Report
  PROVE  ExitTellsTruth' /\ cpc' = "exited"
<1>1. cpc' = "exited" /\ UNCHANGED <<argv, outcome, radiusVars, storeVars>>
  BY DEF Report, Finish
<1>2. Cause(CodeOf(outcome))' /\ CodeOf(outcome)' = CodeOf(outcome)
  BY <1>1, OutcomeLasts DEF OutcomeTrue
<1>3. argv' = argv
  BY <1>1
<1> QED BY <1>1, <1>2, <1>3, ReportedAs DEF ExitTellsTruth

-----------------------------------------------------------------------------
(* The outcomes of the radius commands. *)

\* A record of the registry is what a replay of it is about.
LEMMA GivenIsRecord ==
  ASSUME NEW r \in Registry
  PROVE  r # None /\ AsRecord(r) = r
<1>1. PICK row \in Rows : r = RecordOf(row)
  BY DEF Registry
<1>2. "exact" \in DOMAIN r
  BY <1>1 DEF RecordOf
<1> QED BY <1>2, NothingAssumption DEF AsRecord, IsMapping

\* What a candidate and a chain may come to.
CandidateResult(given, exact, direction, passing, limit, declared, o) ==
  LET passes == Same(given, exact) /\ \A n \in DOMAIN Chain[direction] : Chain[direction][n] IN
  \/ ~Parses(given) /\ o = Failed("invalid_input", "invalid_input")
  \/ /\ o = Raised("ResourceLimitError")
     /\ given.form = "huge" \/ Len(Chain[direction]) > limit \/ declared > limit
  \/ ~passes /\ \E status : o = Result(status, FALSE, None)
  \/ passes /\ o = Result(passing, passing = "proven", None)

\* And that is all.
LEMMA CandidateResults ==
  ASSUME NEW given, NEW exact, NEW direction, NEW passing, NEW limit, NEW declared,
         NEW run, run = RunChain(direction, passing, limit, declared),
         NEW o, o = WithCandidate(given, exact, run)
  PROVE  CandidateResult(given, exact, direction, passing, limit, declared, o)
<1> DEFINE passes == \A n \in DOMAIN Chain[direction] : Chain[direction][n]
<1>1. \/ /\ run = Raised("ResourceLimitError")
         /\ Len(Chain[direction]) > limit \/ declared > limit
      \/ passes /\ run = Result(passing, passing = "proven", None)
      \/ ~passes /\ run = Result("unresolved", FALSE, None)
  BY DEF RunChain
<1>2. \/ ~Parses(given) /\ o = Failed("invalid_input", "invalid_input")
      \/ given.form = "huge" /\ o = Raised("ResourceLimitError")
      \/ ~Same(given, exact) /\ o = Result("candidate_mismatch", FALSE, None)
      \/ Same(given, exact) /\ o = run
  BY DEF WithCandidate, Parses
<1> QED BY <1>1, <1>2 DEF CandidateResult

\* What the replay of a row of the registry may come to, and why.
RowResult(direction, candidate, limit, o) ==
  LET supported == direction \in DOMAIN Lanes \cup DOMAIN PaperRadii
      offered ==
        IF candidate # None THEN candidate
        ELSE IF direction \in DOMAIN Lanes THEN Lanes[direction].exact ELSE PaperRadii[direction]
      established ==
        /\ direction \in DOMAIN Lanes
        /\ Same(offered, Lanes[direction].exact) /\ \A n \in DOMAIN Chain[direction] : Chain[direction][n]
  IN  \/ limit < 1 /\ o = Raised("InvalidInputError")
      \/ /\ o = Raised("ResourceLimitError")
         /\ \/ limit > MaxSteps
            \/ supported /\ (offered.form = "huge" \/ Len(Chain[direction]) > limit)
            \/ direction \in DOMAIN Lanes /\ Lanes[direction].steps > limit
      \/ ~supported /\ o = Failed("unsupported", "not_replayable")
      \/ supported /\ ~Parses(offered) /\ o = Failed("invalid_input", "invalid_input")
      \/ supported /\ ~established /\ \E status : o = Result(status, FALSE, None)
      \/ established /\ o = Result("proven", TRUE, None)

\* And that is all.
LEMMA RowReplay ==
  ASSUME NEW r \in Registry, NEW candidate, NEW limit \in Int, loaded \/ intact,
         NEW o, o = Replay(r, candidate, limit)
  PROVE  RowResult(Directed(r), candidate, limit, o)
<1> DEFINE direction == Directed(r)
           paper == PaperRadii[direction]
           lane == Lanes[direction]
           Given(own) == IF candidate # None THEN candidate ELSE own
<1>1. \/ limit < 1 /\ o = Raised("InvalidInputError")
      \/ limit > MaxSteps /\ o = Raised("ResourceLimitError")
      \/ limit >= 1 /\ o = ReplayRecord(r, candidate, limit)
  BY GivenIsRecord DEF Replay
<1>0. limit < 1 /\ o = Raised("InvalidInputError") => RowResult(direction, candidate, limit, o)
  BY DEF RowResult
<1>2. CASE direction \in DOMAIN Lanes /\ limit >= 1 /\ o = ReplayRecord(r, candidate, limit)
  <2>1. Blocker(r) = "none"
    BY <1>2, BlockerExact
  <2>2. r.exact = lane.exact /\ r.certificate.exact = lane.exact /\ r.certificate.steps = lane.steps
    BY <1>2, GenuineAgrees
  <2>3. o = WithCandidate(Given(lane.exact), lane.exact, RunChain(direction, "proven", limit, lane.steps))
    BY <1>2, <2>1, <2>2 DEF ReplayRecord
  <2>4. PICK given : given = Given(lane.exact)
    OBVIOUS
  <2>5. CandidateResult(given, lane.exact, direction, "proven", limit, lane.steps, o)
    <3> HIDE DEF direction, lane, Given
    <3> QED BY <2>3, <2>4, CandidateResults
  <2>6. given = IF candidate # None THEN candidate ELSE lane.exact
    BY <2>4
  <2> QED BY <1>2, <2>5, <2>6 DEF RowResult, CandidateResult
<1>3. CASE direction \in DOMAIN PaperRadii \ DOMAIN Lanes /\ limit >= 1 /\ o = ReplayRecord(r, candidate, limit)
  <2>1. Blocker(r) = "unsupported"
    BY <1>3, BlockerExact
  <2>2. o = WithCandidate(Given(paper), paper, RunChain(direction, "symbolic_replay_only", limit, 0))
    BY <1>3, <2>1 DEF ReplayRecord
  <2>3. PICK given : given = Given(paper)
    OBVIOUS
  <2>4. CandidateResult(given, paper, direction, "symbolic_replay_only", limit, 0, o)
    <3> HIDE DEF direction, paper, Given
    <3> QED BY <2>2, <2>3, CandidateResults
  <2>5. ~(0 > limit)
    BY <1>3
  <2>6. given = IF candidate # None THEN candidate ELSE paper
    BY <2>3
  <2> QED BY <1>3, <2>4, <2>5, <2>6 DEF RowResult, CandidateResult
<1>4. CASE direction \notin DOMAIN Lanes \cup DOMAIN PaperRadii /\ limit >= 1 /\ o = ReplayRecord(r, candidate, limit)
  <2>1. Blocker(r) = "unsupported"
    BY <1>4, BlockerExact
  <2>2. o = Failed("unsupported", "not_replayable")
    BY <1>4, <2>1 DEF ReplayRecord
  <2> QED BY <1>4, <2>2 DEF RowResult
<1> QED BY <1>0, <1>1, <1>2, <1>3, <1>4 DEF RowResult

\* A replay of a row that came to its end, and is reported by its result.
Replayed == request # None /\ RowResult(Asked, request.candidate, request.limit, result)
RowHandled ==
  /\ argv.command \in ReplayCommands \cup {"walkthrough"} /\ Replayed
  /\ outcome = OutcomeOf(result)
  /\ argv.command = "walkthrough" => result.kind = "raised" \/ result.certified

\* The cause of what it is reported as is what was asked and found.
LEMMA RowCause == RowHandled => OutcomeTrue
<1> SUFFICES ASSUME RowHandled PROVE OutcomeTrue
  OBVIOUS
<1>0. /\ argv.command \in ReplayCommands \cup {"walkthrough"} /\ request # None
      /\ RowResult(Asked, request.candidate, request.limit, result)
      /\ outcome = OutcomeOf(result)
      /\ argv.command = "walkthrough" => result.kind = "raised" \/ result.certified
  BY DEF RowHandled, Replayed
<1> USE <1>0
<1> DEFINE tour == argv.command = "walkthrough"
<1>1. \A code : ReplayCause(code) => Cause(code)
  BY DEF Cause
<1>2. None \notin {"invalid_input", "unsupported"}
  BY NothingAssumption DEF FailureStates
<1>3. ASSUME NEW x \in {"InvalidInputError", "ResourceLimitError"}, result = Raised(x),
             NEW code, code = CodeOf(Threw(x)), ReplayCause(code)
      PROVE  OutcomeTrue
  <2>1. outcome = Threw(x)
    BY <1>3 DEF OutcomeOf, Raised
  <2> QED BY <1>1, <1>3, <2>1, ThrownCode DEF OutcomeTrue
<1>4. ASSUME NEW s \in States, outcome = Structured(s), NEW code, code = ExitCode(s), ReplayCause(code)
      PROVE  OutcomeTrue
  BY <1>1, <1>4, StructuredCode DEF OutcomeTrue
<1>5. CASE request.limit < 1 /\ result = Raised("InvalidInputError")
  <2>1. ReplayCause(2)
    BY <1>5 DEF ReplayCause
  <2> QED BY <1>3, <1>5, <2>1, ThrownCode
<1>6. CASE /\ result = Raised("ResourceLimitError")
           /\ \/ request.limit > MaxSteps
              \/ Supported /\ (Offered.form = "huge" \/ Len(Chain[Asked]) > request.limit)
              \/ Asked \in DOMAIN Lanes /\ Lanes[Asked].steps > request.limit
  <2>1. ReplayCause(5)
    BY <1>6 DEF ReplayCause, TooLong
  <2> QED BY <1>3, <1>6, <2>1, ThrownCode
<1>7. CASE ~Supported /\ result = Failed("unsupported", "not_replayable")
  <2>1. outcome = Structured("unsupported") /\ ~tour
    BY <1>2, <1>7 DEF OutcomeOf, Failed, Result
  <2>2. ReplayCause(3)
    BY <1>7, <2>1 DEF ReplayCause
  <2> QED BY <1>4, <2>1, <2>2, CodeOfState DEF States
<1>8. CASE Supported /\ ~Parses(Offered) /\ result = Failed("invalid_input", "invalid_input")
  <2>1. outcome = Structured("invalid_input") /\ ~tour
    BY <1>2, <1>8 DEF OutcomeOf, Failed, Result
  <2>2. ReplayCause(2)
    BY <1>8, <2>1 DEF ReplayCause
  <2> QED BY <1>4, <2>1, <2>2, CodeOfState DEF States
<1>9. CASE Supported /\ ~Established /\ \E status : result = Result(status, FALSE, None)
  <2>1. outcome = Structured("unresolved")
    BY <1>9 DEF OutcomeOf, Result
  <2>2. ReplayCause(4)
    BY <1>9 DEF ReplayCause
  <2> QED BY <1>4, <2>1, <2>2, CodeOfState DEF States
<1>10. CASE Established /\ result = Result("proven", TRUE, None)
  <2>1. outcome = Printed
    BY <1>10 DEF OutcomeOf, Result
  <2>2. ReplayCause(0)
    BY <1>10 DEF ReplayCause
  <2> QED BY <1>1, <2>1, <2>2, StructuredCode DEF OutcomeTrue, Printed
<1> QED BY <1>5, <1>6, <1>7, <1>8, <1>9, <1>10 DEF RowResult, Supported, Offered, Established

\* So it is in the next state.
LEMMA RowCauseNext == RowHandled' => OutcomeTrue'
BY RowCause, PTL

\* A command that has not asked yet.
RadiusTrue == loaded = FALSE /\ held = None /\ request = None

\* A replay by direction: of its row, of a direction that has none, or of a package
\* that is damaged.
LEMMA VerifyFinds ==
  ASSUME RadiusTrue, NEW direction, NEW candidate, NEW limit, limit \in Int,
         candidate \in Candidates \cup {None}, limit \in StepLimits \cup {MaxSteps},
         Verify(direction, candidate, limit)
  PROVE  \/ Replayed'
         \/ (request = None /\ intact /\ result = Failed("invalid_input", "invalid_input"))'
         \/ (request = None /\ ~intact /\ result = Raised("RuntimeError"))'
<1>1. intact' = intact
  BY DEF Verify, Find
<1>2. ASSUME NEW r \in Trusted(direction), loaded \/ intact,
             request' = [given |-> r, candidate |-> candidate, limit |-> limit],
             result' = Replay(r, candidate, limit)
      PROVE  Replayed'
  <2>1. r \in Registry
    BY <1>2 DEF Trusted
  <2>2. request' \in ReplayRequests
    BY <1>2, <2>1 DEF ReplayRequests
  <2>3. request'.given = r /\ request'.candidate = candidate /\ request'.limit = limit
    BY <1>2
  <2>4. RowResult(Directed(r), candidate, limit, result')
    BY <1>2, <2>1, RowReplay
  <2>5. Asked' = Directed(r)
    BY <2>3 DEF Asked
  <2>6. RowResult(Asked, request.candidate, request.limit, result)'
    BY <2>3, <2>4, <2>5 DEF RowResult
  <2> QED BY <2>2, <2>6, NothingAssumption DEF Replayed
<1>3. CASE UNCHANGED request /\ result' = Failed("invalid_input", "invalid_input") /\ (loaded \/ intact)
  BY <1>1, <1>3 DEF RadiusTrue
<1>4. CASE UNCHANGED request /\ result' = Raised("RuntimeError") /\ ~(loaded \/ intact)
  BY <1>1, <1>4 DEF RadiusTrue
<1> QED BY <1>2, <1>3, <1>4 DEF Verify, Find

\* A replay handler ends with a true outcome.
LEMMA RunReplayTrue ==
  ASSUME RadiusTrue, NEW direction, NEW candidate \in Candidates, NEW limit \in StepLimits,
         RunReplay(direction, candidate, limit)
  PROVE  OutcomeTrue' /\ cpc' = "handled"
<1>1. /\ Verify(direction, candidate, limit) /\ cpc' = "handled" /\ argv' = argv
      /\ argv.command \in ReplayCommands
      /\ outcome' = IF argv.command = "radius-audit" /\ request' = None /\ result'.kind = "result"
                    THEN Threw("KeyError") ELSE OutcomeOf(result')
  BY DEF RunReplay, HandledAs, Handling
<1>2. argv.command # "walkthrough" /\ \A code : ReplayCause(code)' => Cause(code)'
  BY <1>1 DEF ReplayCommands, Cause
<1>3. CASE Replayed'
  <2>1. outcome' = OutcomeOf(result')
    BY <1>1, <1>3 DEF Replayed
  <2>2. OutcomeTrue'
    BY <1>1, <1>2, <1>3, <2>1, RowCauseNext DEF RowHandled
  <2> QED BY <1>1, <2>2
<1>4. CASE (request = None /\ intact /\ result = Failed("invalid_input", "invalid_input"))'
  <2>1. ReplayCause(2)'
    BY <1>1, <1>2, <1>4 DEF ReplayCause
  <2>2. OutcomeOf(result') = Structured("invalid_input")
    BY <1>4, NothingAssumption DEF OutcomeOf, Failed, Result, FailureStates
  <2>3. outcome' \in {Threw("KeyError"), Structured("invalid_input")}
    BY <1>1, <2>2
  <2>4. CodeOf(outcome)' = 2
    BY <2>3, ThrownCode, StructuredCode, CodeOfState
  <2>5. OutcomeTrue'
    BY <1>2, <2>1, <2>3, <2>4, ThrownCode, StructuredCode DEF OutcomeTrue, States
  <2> QED BY <1>1, <2>5
<1>5. CASE (request = None /\ ~intact /\ result = Raised("RuntimeError"))'
  <2>1. ReplayCause(1)'
    BY <1>5 DEF ReplayCause
  <2>2. outcome' = Threw("RuntimeError")
    BY <1>1, <1>5 DEF OutcomeOf, Raised
  <2>3. OutcomeTrue'
    BY <1>2, <2>1, <2>2, ThrownCode DEF OutcomeTrue
  <2> QED BY <1>1, <2>3
<1> QED BY <1>1, <1>3, <1>4, <1>5, LimitAssumption, VerifyFinds

\* So does the walkthrough.
LEMMA RunWalkthroughTrue ==
  ASSUME RadiusTrue, RunWalkthrough
  PROVE  OutcomeTrue' /\ cpc' = "handled"
<1>1. /\ Verify(Tour, None, MaxSteps) /\ cpc' = "handled" /\ argv' = argv
      /\ argv.command = "walkthrough"
      /\ outcome' = IF result'.kind = "raised" \/ result'.certified THEN OutcomeOf(result')
                    ELSE Threw("UnresolvedError")
  BY DEF RunWalkthrough, HandledAs, Handling
<1>2. \A code : ReplayCause(code)' => Cause(code)'
  BY <1>1 DEF Cause
<1>3. ASSUME ~Established', outcome' = Threw("UnresolvedError") PROVE OutcomeTrue'
  <2>1. ReplayCause(4)'
    BY <1>1, <1>3 DEF ReplayCause
  <2> QED BY <1>2, <1>3, <2>1, ThrownCode DEF OutcomeTrue
<1>4. CASE Replayed'
  <2>1. CASE result'.kind = "raised" \/ result'.certified
    <3>1. outcome' = OutcomeOf(result')
      BY <1>1, <2>1
    <3>2. OutcomeTrue'
      BY <1>1, <1>4, <2>1, <3>1, RowCauseNext DEF RowHandled
    <3> QED BY <1>1, <3>2
  <2>2. CASE ~(result'.kind = "raised" \/ result'.certified)
    <3>1. result' # Result("proven", TRUE, None)
      BY <2>2 DEF Result
    <3>2. \A x : result' # Raised(x)
      BY <2>2 DEF Raised
    <3>3. ~Established'
      BY <1>4, <3>1, <3>2, NothingAssumption
         DEF Replayed, RowResult, Established, Offered, Asked, Same, Failed
    <3> QED BY <1>1, <1>3, <2>2, <3>3
  <2> QED BY <2>1, <2>2
<1>5. CASE (request = None /\ intact /\ result = Failed("invalid_input", "invalid_input"))'
  <2>1. ~Established' /\ ~(result'.kind = "raised" \/ result'.certified)
    BY <1>5 DEF Established, Failed, Result
  <2> QED BY <1>1, <1>3, <2>1
<1>6. CASE (request = None /\ ~intact /\ result = Raised("RuntimeError"))'
  <2>1. ReplayCause(1)'
    BY <1>6 DEF ReplayCause
  <2>2. outcome' = Threw("RuntimeError")
    BY <1>1, <1>6 DEF OutcomeOf, Raised
  <2>3. OutcomeTrue'
    BY <1>2, <2>1, <2>2, ThrownCode DEF OutcomeTrue
  <2> QED BY <1>1, <2>3
<1> QED BY <1>1, <1>4, <1>5, <1>6, LimitAssumption, VerifyFinds

\* A row that is found is printed.
LEMMA RunRadiusTrue ==
  ASSUME RadiusTrue, NEW direction, RunRadius(direction)
  PROVE  OutcomeTrue' /\ cpc' = "handled"
<1>1. /\ Lookup(direction) /\ cpc' = "handled" /\ argv' = argv /\ argv.command = "radius"
      /\ outcome' = IF held' # None THEN Printed ELSE OutcomeOf(result')
  BY DEF RunRadius, HandledAs, Handling
<1>2. \A code : RadiusCause(code)' => Cause(code)'
  BY <1>1 DEF Cause, ReplayCommands, Operations
<1>3. \/ \E r \in Trusted(direction) : held' = r
      \/ held' = held /\ intact' /\ result' = Raised("KeyError")
      \/ held' = held /\ ~intact' /\ result' = Raised("RuntimeError")
  BY <1>1 DEF Lookup, Find, RadiusTrue
<1>4. CASE \E r \in Trusted(direction) : held' = r
  <2>1. held' # None
    BY <1>4, GivenIsRecord DEF Trusted
  <2>2. outcome' = Printed /\ RadiusCause(0)'
    BY <1>1, <2>1 DEF RadiusCause
  <2> QED BY <1>1, <1>2, <2>2, StructuredCode DEF OutcomeTrue, Printed
<1>5. ASSUME NEW x \in {"KeyError", "RuntimeError"}, held' = held, result' = Raised(x),
             RadiusCause(IF x = "KeyError" THEN 2 ELSE 1)'
      PROVE  OutcomeTrue'
  <2>1. outcome' = Threw(x)
    BY <1>1, <1>5 DEF OutcomeOf, Raised, RadiusTrue
  <2>2. CodeOf(outcome)' = IF x = "KeyError" THEN 2 ELSE 1
    BY <2>1, ThrownCode
  <2> QED BY <1>2, <1>5, <2>1, <2>2, ThrownCode DEF OutcomeTrue
<1>6. /\ held' = held /\ intact' => RadiusCause(2)'
      /\ held' = held /\ ~intact' => RadiusCause(1)'
  BY DEF RadiusCause, RadiusTrue
<1> QED BY <1>1, <1>3, <1>4, <1>5, <1>6

\* Of the other commands, every exception has the code that is documented for it.
LEMMA RunOtherTrue ==
  ASSUME RunOther
  PROVE  OutcomeTrue' /\ cpc' = "handled"
<1>1. /\ cpc' = "handled" /\ argv' = argv /\ argv.command \in DOMAIN Raises
      /\ \/ outcome' = Printed
         \/ \E x \in Raises[argv.command] : outcome' = Threw(x)
  BY DEF RunOther, HandledAs, Handling
<1>2. /\ argv.command \in {"catalog", "evidence", "snapshot", "plot", "lab"}
      /\ argv.command \notin ReplayCommands \cup Operations \cup {"walkthrough", "radius"}
  BY <1>1 DEF Raises, ReplayCommands, Operations
<1>3. \A code : OtherCause(code)' => Cause(code)'
  BY <1>1, <1>2 DEF Cause
<1>4. CASE outcome' = Printed
  <2>1. OtherCause(0)'
    BY <1>4 DEF OtherCause
  <2> QED BY <1>1, <1>3, <1>4, <2>1, StructuredCode DEF OutcomeTrue, Printed
<1>5. ASSUME NEW x \in Raises[argv.command], outcome' = Threw(x)
      PROVE  OutcomeTrue'
  <2>1. x \in {"InvalidInputError", "ResourceLimitError", "KeyError", "ValueError", "UnresolvedError",
               "TypeError", "CorruptArtifactError", "UnsupportedError", "OSError", "ImportError"}
    BY <1>2 DEF Raises, CatalogErrors, EvidenceErrors, SnapshotErrors, PlotErrors, LabErrors
  <2>2. \E code \in 1..6 : code = CodeOf(Threw(x)) /\ x \in Documented[code]
    <3>1. DOMAIN Documented = 1..6
      BY DEF Documented
    <3>2. /\ "OSError" \in Documented[1]
          /\ {"InvalidInputError", "KeyError", "TypeError", "ValueError"} \subseteq Documented[2]
          /\ {"UnsupportedError", "ImportError"} \subseteq Documented[3]
          /\ "UnresolvedError" \in Documented[4]
          /\ "ResourceLimitError" \in Documented[5]
          /\ "CorruptArtifactError" \in Documented[6]
      BY DEF Documented
    <3> QED BY <2>1, <3>2, ThrownCode
  <2>3. PICK code \in 1..6 : code = CodeOf(Threw(x)) /\ x \in Documented[code]
    BY <2>2
  <2>4. OtherCause(code)'
    <3>1. DOMAIN Documented = 1..6
      BY DEF Documented
    <3> QED BY <1>5, <2>3, <3>1 DEF OtherCause
  <2>5. CodeOf(outcome)' = code
    BY <1>5, <2>3 DEF CodeOf
  <2> QED BY <1>3, <1>5, <2>4, <2>5, ThrownCode DEF OutcomeTrue
<1> QED BY <1>1, <1>4, <1>5

-----------------------------------------------------------------------------
(* The documents a lookup reads. *)

\* The supplement is read right after the certificates it is merged with.
Paired(list) ==
  \A i \in DOMAIN list : list[i] = "certificates" => i + 1 \in DOMAIN list /\ list[i + 1] = "supplement"

\* Lists of documents one after the other.
LEMMA Joined ==
  ASSUME NEW S, NEW s \in Seq(S), NEW t \in Seq(S)
  PROVE  /\ s \o t \in Seq(S) /\ ToSet(s \o t) = ToSet(s) \cup ToSet(t)
         /\ Paired(s) /\ Paired(t) => Paired(s \o t)
<1> DEFINE u == s \o t
<1>1. /\ u \in Seq(S) /\ Len(u) = Len(s) + Len(t)
      /\ Len(s) \in Nat /\ Len(t) \in Nat /\ Len(u) \in Nat
      /\ DOMAIN s = 1..Len(s) /\ DOMAIN t = 1..Len(t) /\ DOMAIN u = 1..Len(u)
      /\ \A i \in 1..Len(s) : u[i] = s[i]
      /\ \A i \in 1..Len(t) : u[Len(s) + i] = t[i]
  OBVIOUS
<1> HIDE DEF u
<1>2. \A i \in 1..Len(u) : i \in 1..Len(s) \/ (i - Len(s) \in 1..Len(t) /\ u[i] = t[i - Len(s)])
  BY <1>1
<1>3. ToSet(u) = ToSet(s) \cup ToSet(t)
  <2>1. ToSet(u) \subseteq ToSet(s) \cup ToSet(t)
    BY <1>1, <1>2 DEF ToSet
  <2>2. ToSet(s) \subseteq ToSet(u)
    BY <1>1 DEF ToSet
  <2>3. ToSet(t) \subseteq ToSet(u)
    <3> SUFFICES ASSUME NEW i \in 1..Len(t) PROVE t[i] \in ToSet(u)
      BY <1>1 DEF ToSet
    <3>1. Len(s) + i \in 1..Len(u) /\ u[Len(s) + i] = t[i]
      BY <1>1
    <3> QED BY <1>1, <3>1 DEF ToSet
  <2> QED BY <2>1, <2>2, <2>3
<1>4. ASSUME Paired(s), Paired(t) PROVE Paired(u)
  <2> SUFFICES ASSUME NEW i \in 1..Len(u), u[i] = "certificates"
               PROVE  i + 1 \in 1..Len(u) /\ u[i + 1] = "supplement"
    BY <1>1 DEF Paired
  <2>1. CASE i \in 1..Len(s)
    <3>1. i + 1 \in 1..Len(s) /\ s[i + 1] = "supplement"
      BY <1>1, <1>4, <2>1 DEF Paired
    <3> QED BY <1>1, <3>1
  <2>2. CASE i - Len(s) \in 1..Len(t) /\ u[i] = t[i - Len(s)]
    <3>1. (i - Len(s)) + 1 \in 1..Len(t) /\ t[(i - Len(s)) + 1] = "supplement"
      BY <1>1, <1>4, <2>2 DEF Paired
    <3>2. u[Len(s) + ((i - Len(s)) + 1)] = "supplement" /\ Len(s) + ((i - Len(s)) + 1) = i + 1
      BY <1>1, <3>1
    <3> QED BY <1>1, <3>1, <3>2
  <2> QED BY <1>2, <2>1, <2>2
<1> QED BY <1>1, <1>3, <1>4 DEF u

\* What a list for an operation holds.
Suits(list, op) ==
  /\ list \in Seq(Documents) /\ Paired(list)
  /\ op \in Named => ToSet(list) = {"certificates", "supplement", "classes"}
  /\ "reconciliation" \in ToSet(list) => op = "reconciliation"

\* Every list that an operation may read.
LEMMA ReadsSuit ==
  ASSUME NEW op, NEW class, NEW list \in Reads(op, class)
  PROVE  Suits(list, op)
<1> DEFINE filter == IF class = Unset THEN <<>> ELSE <<"classes">>
           corpus == <<"certificates", "supplement">>
<1>1. {"bounds", "certificates", "classes", "supplement", "expansions", "open_problems",
       "reconciliation", "references", "manifest"} \subseteq Documents
  BY DEF Documents, Listed
<1>2. ASSUME NEW d \in Documents \ {"certificates"}
      PROVE  <<d>> \in Seq(Documents) /\ Paired(<<d>>) /\ ToSet(<<d>>) = {d}
  BY <1>2 DEF Paired, ToSet
<1>3. <<>> \in Seq(Documents) /\ Paired(<<>>) /\ ToSet(<<>>) = {}
  BY DEF Paired, ToSet
<1>4. corpus \in Seq(Documents) /\ Paired(corpus) /\ ToSet(corpus) = {"certificates", "supplement"}
  <2>1. corpus \in Seq(Documents)
    BY <1>1
  <2>2. Paired(corpus)
    BY DEF Paired
  <2>3. ToSet(corpus) = {"certificates", "supplement"}
    BY DEF ToSet
  <2> QED BY <2>1, <2>2, <2>3
<1>5. filter \in Seq(Documents) /\ Paired(filter) /\ ToSet(filter) \subseteq {"classes"}
  <2>1. "classes" \in Documents \ {"certificates"}
    BY <1>1
  <2> HIDE DEF Documents
  <2>2. CASE class = Unset
    BY <1>3, <2>2
  <2>3. CASE class # Unset
    BY <1>2, <2>1, <2>3
  <2> QED BY <2>2, <2>3
<1>6. \/ /\ op \notin Named
         /\ list \in {<<"classes">>, <<"supplement">>, <<"open_problems">>, <<"references">>, <<"manifest">>}
      \/ op \notin Named /\ list \in {<<"classes", "expansions">>, <<"classes", "bounds">>}
      \/ op \notin Named /\ list = (corpus \o <<"manifest">>) \o filter
      \/ list = corpus \o <<"classes">>
      \/ \E first \in {<<>>, <<"supplement">>} : list = (first \o corpus) \o <<"classes">>
      \/ op = "reconciliation" /\ \E more \in {<<>>, corpus} : list = (<<"reconciliation">> \o filter) \o more
  BY DEF Reads, Named
<1>7. "reconciliation" \notin Named
  BY DEF Named
<1>8. CASE /\ op \notin Named
           /\ list \in {<<"classes">>, <<"supplement">>, <<"open_problems">>, <<"references">>, <<"manifest">>}
  <2>1. PICK d \in {"classes", "supplement", "open_problems", "references", "manifest"} : list = <<d>>
    BY <1>8
  <2>2. d \in Documents \ {"certificates"} /\ d # "reconciliation"
    BY <1>1
  <2>3. list \in Seq(Documents) /\ Paired(list) /\ ToSet(list) = {d}
    BY <1>2, <2>1, <2>2
  <2> QED BY <1>8, <2>2, <2>3 DEF Suits
<1>9. CASE op \notin Named /\ list \in {<<"classes", "expansions">>, <<"classes", "bounds">>}
  <2>1. PICK d \in {"expansions", "bounds"} : list = <<"classes", d>>
    BY <1>9
  <2>2. list \in Seq(Documents)
    BY <1>1, <2>1
  <2>3. Paired(list)
    BY <2>1 DEF Paired
  <2>4. ToSet(list) = {"classes", d}
    BY <2>1 DEF ToSet
  <2> QED BY <1>9, <2>2, <2>3, <2>4 DEF Suits
<1> HIDE DEF corpus, filter
<1>10. ASSUME NEW s \in Seq(Documents), NEW t \in Seq(Documents), Paired(s), Paired(t)
       PROVE  s \o t \in Seq(Documents) /\ Paired(s \o t) /\ ToSet(s \o t) = ToSet(s) \cup ToSet(t)
  BY <1>10, Joined
<1>11. ASSUME NEW d \in {"manifest", "classes", "supplement", "reconciliation"}
       PROVE  <<d>> \in Seq(Documents) /\ Paired(<<d>>) /\ ToSet(<<d>>) = {d}
  BY <1>1, <1>2
<1>12. CASE op \notin Named /\ list = (corpus \o <<"manifest">>) \o filter
  <2>1. PICK s : s = corpus \o <<"manifest">>
    OBVIOUS
  <2>2. s \in Seq(Documents) /\ Paired(s) /\ ToSet(s) = ToSet(corpus) \cup ToSet(<<"manifest">>)
    <3>1. <<"manifest">> \in Seq(Documents) /\ Paired(<<"manifest">>)
      BY <1>11
    <3> QED BY <1>4, <1>10, <2>1, <3>1
  <2>3. list = s \o filter
    BY <1>12, <2>1
  <2>4. list \in Seq(Documents) /\ Paired(list) /\ ToSet(list) = ToSet(s) \cup ToSet(filter)
    BY <1>5, <1>10, <2>2, <2>3
  <2> QED BY <1>4, <1>5, <1>11, <1>12, <2>2, <2>4 DEF Suits
<1>13. CASE list = corpus \o <<"classes">>
  <2>1. <<"classes">> \in Seq(Documents) /\ Paired(<<"classes">>) /\ ToSet(<<"classes">>) = {"classes"}
    BY <1>11
  <2>2. list \in Seq(Documents) /\ Paired(list) /\ ToSet(list) = ToSet(corpus) \cup ToSet(<<"classes">>)
    BY <1>4, <1>10, <1>13, <2>1
  <2> QED BY <1>4, <2>1, <2>2 DEF Suits
<1>14. ASSUME NEW first \in {<<>>, <<"supplement">>}, list = (first \o corpus) \o <<"classes">>
       PROVE  Suits(list, op)
  <2>1. PICK s : s = first \o corpus
    OBVIOUS
  <2>2. first \in Seq(Documents) /\ Paired(first) /\ ToSet(first) \subseteq {"supplement"}
    BY <1>3, <1>11, <1>14
  <2>3. s \in Seq(Documents) /\ Paired(s) /\ ToSet(s) = {"certificates", "supplement"}
    BY <1>4, <1>10, <2>1, <2>2
  <2>4. list = s \o <<"classes">>
    BY <1>14, <2>1
  <2>5. <<"classes">> \in Seq(Documents) /\ Paired(<<"classes">>) /\ ToSet(<<"classes">>) = {"classes"}
    BY <1>11
  <2>6. list \in Seq(Documents) /\ Paired(list) /\ ToSet(list) = ToSet(s) \cup ToSet(<<"classes">>)
    BY <1>10, <2>3, <2>4, <2>5
  <2> QED BY <2>3, <2>5, <2>6 DEF Suits
<1>15. ASSUME op = "reconciliation", NEW more \in {<<>>, corpus},
              list = (<<"reconciliation">> \o filter) \o more
       PROVE  Suits(list, op)
  <2>1. PICK s : s = <<"reconciliation">> \o filter
    OBVIOUS
  <2>2. s \in Seq(Documents) /\ Paired(s)
    BY <1>5, <1>10, <1>11, <2>1
  <2>3. more \in Seq(Documents) /\ Paired(more)
    BY <1>3, <1>4, <1>15
  <2>4. list = s \o more
    BY <1>15, <2>1
  <2>5. list \in Seq(Documents) /\ Paired(list)
    BY <1>10, <2>2, <2>3, <2>4
  <2> QED BY <1>7, <1>15, <2>5 DEF Suits
<1> QED BY <1>6, <1>8, <1>9, <1>12, <1>13, <1>14, <1>15

-----------------------------------------------------------------------------
(* The outcomes of the artifact commands. *)

\* Of the documents it reads, a lookup can use those it is done with.
Underway(documents) ==
  /\ ToSet(todo) \subseteq documents
  /\ found = Unset \/ found.kind = "answer" =>
       /\ Usable(documents \ ToSet(todo))
       /\ lookup.op \in Named /\ "supplement" \notin ToSet(todo) => lookup.name \in DOMAIN Certificates

\* What it found is true of them.
FoundTrue ==
  \/ /\ found.kind = "answer"
     /\ lookup.op = "verify" => \A d \in Listed : disk[d] = "good"
     /\ lookup.op = "certificate" =>
          /\ lookup.name \in DOMAIN Certificates
          /\ Replayable(Certificates[lookup.name]) /\ Consistent(Certificates[lookup.name])
  \/ found.kind = "raised" /\ ArtifactCause(CodeOf(Threw(found.exception)))

\* A document in memory is what is on disk, and what the lookup of a command has
\* found is true of the documents.
StoreTrue ==
  /\ DOMAIN memory = Documents
  /\ \A d \in Documents : memory[d] \in {"none", disk[d]}
  /\ lookup # Unset \/ todo # <<>> \/ found # Unset =>
       /\ lookup.op = argv.command
       /\ todo \in Seq(Documents) /\ Paired(todo)
       /\ \E documents \in ReadLists : Underway(documents)
       /\ found # Unset => todo = <<>> /\ FoundTrue

\* What the documents of a lookup are.
LEMMA ListsSuit ==
  ASSUME NEW documents \in ReadLists
  PROVE  /\ documents \subseteq Documents /\ documents \subseteq Reached
         /\ lookup.op \in Named => documents = {"certificates", "supplement", "classes"}
         /\ "reconciliation" \in documents => lookup.op = "reconciliation"
<1>1. PICK list \in Reads(lookup.op, lookup.class) : documents = ToSet(list)
  BY DEF ReadLists
<1>2. Suits(list, lookup.op)
  BY ReadsSuit
<1>3. documents \subseteq Documents
  BY <1>1, <1>2 DEF Suits, ToSet
<1> QED BY <1>1, <1>2, <1>3 DEF Suits, Reached

\* The first document of a list, and the rest of it.
LEMMA Rest ==
  ASSUME NEW S, NEW list \in Seq(S), list # <<>>, Paired(list)
  PROVE  /\ Head(list) \in S /\ Head(list) \in ToSet(list)
         /\ Tail(list) \in Seq(S) /\ Paired(Tail(list))
         /\ ToSet(Tail(list)) \subseteq ToSet(list) /\ ToSet(list) \subseteq ToSet(Tail(list)) \cup {Head(list)}
         /\ Head(list) = "supplement" /\ "certificates" \in ToSet(list) => "supplement" \in ToSet(Tail(list))
<1> DEFINE tail == Tail(list)
<1>1. /\ tail \in Seq(S) /\ Len(tail) = Len(list) - 1 /\ Len(list) \in Nat \ {0}
      /\ DOMAIN list = 1..Len(list) /\ DOMAIN tail = 1..Len(tail)
      /\ Head(list) = list[1] /\ \A i \in 1..Len(tail) : tail[i] = list[i + 1]
  OBVIOUS
<1> HIDE DEF tail
<1>2. Head(list) \in S /\ Head(list) \in ToSet(list)
  BY <1>1 DEF ToSet
<1>3. \A i \in 1..Len(list) : i = 1 \/ (i - 1 \in 1..Len(tail) /\ tail[i - 1] = list[i])
  BY <1>1
<1>4. ToSet(tail) \subseteq ToSet(list)
  <2> SUFFICES ASSUME NEW i \in 1..Len(tail) PROVE tail[i] \in ToSet(list)
    BY <1>1 DEF ToSet
  <2>1. i + 1 \in 1..Len(list)
    BY <1>1
  <2> QED BY <1>1, <2>1 DEF ToSet
<1>5. ToSet(list) \subseteq ToSet(tail) \cup {Head(list)}
  <2> SUFFICES ASSUME NEW i \in 1..Len(list) PROVE list[i] \in ToSet(tail) \cup {Head(list)}
    BY <1>1 DEF ToSet
  <2>1. i = 1 \/ (i - 1 \in 1..Len(tail) /\ tail[i - 1] = list[i])
    BY <1>3
  <2>2. CASE i - 1 \in 1..Len(tail) /\ tail[i - 1] = list[i]
    <3>1. i - 1 \in DOMAIN tail
      BY <1>1, <2>2
    <3> QED BY <2>2, <3>1 DEF ToSet
  <2> QED BY <1>1, <2>1, <2>2
<1>6. Paired(tail)
  <2> SUFFICES ASSUME NEW i \in 1..Len(tail), tail[i] = "certificates"
               PROVE  i + 1 \in 1..Len(tail) /\ tail[i + 1] = "supplement"
    BY <1>1 DEF Paired
  <2>1. i + 1 \in 1..Len(list) /\ list[i + 1] = "certificates"
    BY <1>1
  <2>2. (i + 1) + 1 \in 1..Len(list) /\ list[(i + 1) + 1] = "supplement"
    BY <1>1, <2>1 DEF Paired
  <2> QED BY <1>1, <2>2
<1>7. ASSUME Head(list) = "supplement", "certificates" \in ToSet(list) PROVE "supplement" \in ToSet(tail)
  <2>1. PICK i \in 1..Len(list) : list[i] = "certificates"
    BY <1>1, <1>7 DEF ToSet
  <2>2. i # 1
    BY <1>1, <1>7, <2>1
  <2>3. i + 1 \in 1..Len(list) /\ list[i + 1] = "supplement"
    BY <1>1, <2>1 DEF Paired
  <2>4. i \in 1..Len(tail) /\ tail[i] = "supplement"
    BY <1>1, <2>2, <2>3
  <2> QED BY <1>1, <2>4 DEF ToSet
<1> QED BY <1>1, <1>2, <1>4, <1>5, <1>6, <1>7 DEF tail

\* Nothing is left to read.
LEMMA NothingLeft == <<>> \in Seq(Documents) /\ Paired(<<>>) /\ ToSet(<<>>) = {}
BY DEF Paired, ToSet

\* A refusal that has its cause keeps the store true.
LEMMA RefusedTrue ==
  ASSUME StoreTrue, lookup # Unset \/ todo # <<>>, UNCHANGED <<argv, disk, lookup>>, todo' = <<>>,
         DOMAIN memory' = Documents, \A d \in Documents : memory'[d] \in {"none", disk[d]},
         NEW x \in Exceptions, found' = Refused(x), ArtifactCause(CodeOf(Threw(x)))
  PROVE  StoreTrue'
<1>1. found'.kind = "raised" /\ found'.exception = x
  BY DEF Refused
<1>2. found' # Unset
  <2>1. Refused(x) \in [kind : {"raised"}, exception : Exceptions]
    BY DEF Refused
  <2> QED BY <2>1, StoreAssumption
<1>3. PICK documents \in ReadLists : TRUE
  BY DEF StoreTrue
<1>4. ReadLists' = ReadLists
  BY DEF ReadLists
<1>5. Underway(documents)'
  BY <1>1, <1>2, NothingLeft DEF Underway
<1>6. ArtifactCause(CodeOf(Threw(x)))'
  <2>1. PICK code : code = CodeOf(Threw(x))
    OBVIOUS
  <2>2. ArtifactCause(code)'
    BY <2>1, ArtifactLasts
  <2> QED BY <2>1, <2>2
<1>7. FoundTrue'
  BY <1>1, <1>6 DEF FoundTrue
<1>8. lookup'.op = argv'.command
  BY DEF StoreTrue
<1>9. \E l \in ReadLists' : Underway(l)'
  BY <1>3, <1>4, <1>5
<1> QED BY <1>7, <1>8, <1>9, NothingLeft DEF StoreTrue

\* A document that is read is what is on disk, and can be used.
LEMMA ReadableUsable ==
  ASSUME NEW d, Content(d) = disk[d]
  PROVE  /\ Unreadable(d) \in {"none", "ValueError", "CorruptArtifactError"}
         /\ Unreadable(d) = "ValueError" => disk[d] = "undecodable"
         /\ Unreadable(d) = "CorruptArtifactError" => Spoiled(d)
         /\ Unreadable(d) = "none" /\ (d = "supplement" /\ lookup.op # "table" => Merging) => Usable({d})
<1>1. PICK v : v = disk[d]
  OBVIOUS
<1>2. Content(d) = v
  BY <1>1
<1>3. CASE v = "undecodable"
  <2>1. Unreadable(d) = "ValueError"
    BY <1>2, <1>3 DEF Unreadable
  <2> QED BY <1>1, <1>3, <2>1
<1>4. CASE v = "missing" \/ (v \in {"broken", "schema"} /\ d # "references")
  <2>1. Unreadable(d) = "CorruptArtifactError"
    BY <1>2, <1>4 DEF Unreadable
  <2>2. Spoiled(d)
    BY <1>1, <1>4 DEF Spoiled
  <2> QED BY <2>1, <2>2
<1>5. CASE v = "overlapping" /\ d = "supplement"
  <2>1. Unreadable(d) = IF Merging THEN "CorruptArtifactError" ELSE "none"
    BY <1>2, <1>5 DEF Unreadable
  <2>2. Spoiled(d) <=> lookup.op # "table"
    BY <1>1, <1>5 DEF Spoiled
  <2>3. Merging => lookup.op # "table"
    BY DEF Merging
  <2>4. ~Spoiled(d) => Usable({d})
    BY <1>1, <1>5 DEF Usable
  <2> QED BY <1>5, <2>1, <2>2, <2>3, <2>4
<1>6. CASE /\ v \notin {"undecodable", "missing"} /\ (v \in {"broken", "schema"} => d = "references")
           /\ ~(v = "overlapping" /\ d = "supplement")
  <2>1. Unreadable(d) = "none"
    BY <1>2, <1>6 DEF Unreadable
  <2>2. Usable({d})
    BY <1>1, <1>6 DEF Spoiled, Usable
  <2> QED BY <2>1, <2>2
<1>7. \/ v = "undecodable"
      \/ v = "missing" \/ (v \in {"broken", "schema"} /\ d # "references")
      \/ v = "overlapping" /\ d = "supplement"
      \/ /\ v \notin {"undecodable", "missing"} /\ (v \in {"broken", "schema"} => d = "references")
         /\ ~(v = "overlapping" /\ d = "supplement")
  OBVIOUS
<1> QED BY <1>3, <1>4, <1>5, <1>6, <1>7

\* Reading a document keeps the store true.
LEMMA ReadTrue ==
  ASSUME StoreTrue, Read, UNCHANGED commandVars
  PROVE  StoreTrue'
<1>1. /\ argv' = argv /\ disk' = disk /\ lookup' = lookup /\ todo # <<>>
      /\ lookup.op = argv.command /\ todo \in Seq(Documents) /\ Paired(todo) /\ found = Unset
  BY DEF StoreTrue, Read, commandVars
<1>2. PICK documents \in ReadLists : Underway(documents)
  BY <1>1 DEF StoreTrue
<1>3. PICK d : d = Head(todo)
  OBVIOUS
<1>4. PICK rest : rest = Tail(todo)
  OBVIOUS
<1>5. /\ d \in Documents /\ d \in ToSet(todo) /\ rest \in Seq(Documents) /\ Paired(rest)
      /\ ToSet(rest) \subseteq ToSet(todo) /\ ToSet(todo) \subseteq ToSet(rest) \cup {d}
      /\ d = "supplement" /\ "certificates" \in ToSet(todo) => "supplement" \in ToSet(rest)
  BY <1>1, <1>3, <1>4, Rest
<1>6. /\ ToSet(todo) \subseteq documents /\ Usable(documents \ ToSet(todo))
      /\ lookup.op \in Named /\ "supplement" \notin ToSet(todo) => lookup.name \in DOMAIN Certificates
  BY <1>1, <1>2 DEF Underway
<1>7. /\ d \in Reached
      /\ lookup.op \in Named => documents = {"certificates", "supplement", "classes"}
      /\ d = "reconciliation" => lookup.op = "reconciliation"
  BY <1>5, <1>6, ListsSuit
<1>8. Content(d) = disk[d]
  BY <1>5 DEF StoreTrue, Content
<1>9. DOMAIN memory' = Documents /\ \A e \in Documents : memory'[e] \in {"none", disk[e]}
  BY <1>3, <1>5, <1>8 DEF StoreTrue, Read
<1>10. \/ /\ Unreadable(d) = "none" /\ ~Unknown(d)
          /\ todo' = rest /\ found' = found
       \/ Unreadable(d) # "none" /\ Stop(Unreadable(d))
       \/ Unreadable(d) = "none" /\ Unknown(d) /\ Stop("UnsupportedError")
       \/ Unreadable(d) = "none" /\ d = "reconciliation" /\ Stop("InvalidInputError")
  BY <1>3, <1>4 DEF Read
<1>11. ASSUME NEW x \in Exceptions, Stop(x), ArtifactCause(CodeOf(Threw(x)))
       PROVE  StoreTrue'
  BY <1>1, <1>9, <1>11, RefusedTrue DEF Stop
<1>12. CASE Unreadable(d) = "none" /\ ~Unknown(d) /\ todo' = rest /\ found' = found
  <2>1. ASSUME d \notin ToSet(rest) PROVE Usable({d})
    <3>1. d = "supplement" /\ lookup.op # "table" => Merging
      BY <1>5, <2>1 DEF Merging
    <3> QED BY <1>8, <1>12, <3>1, ReadableUsable
  <2>2. Usable(documents \ ToSet(rest))
    <3> SUFFICES ASSUME NEW e \in documents, e \notin ToSet(rest) PROVE Usable({e})
      BY DEF Usable
    <3>1. CASE e = d
      BY <2>1, <3>1
    <3>2. CASE e \notin ToSet(todo)
      BY <1>6, <3>2 DEF Usable
    <3> QED BY <1>5, <3>1, <3>2
  <2>3. ASSUME lookup.op \in Named, "supplement" \notin ToSet(rest) PROVE lookup.name \in DOMAIN Certificates
    <3>1. CASE d = "supplement"
      <4>1. Merging
        BY <1>5, <2>3, <3>1 DEF Merging, Named
      <4> QED BY <1>12, <2>3, <3>1, <4>1 DEF Unknown
    <3>2. CASE d # "supplement"
      BY <1>5, <1>6, <2>3, <3>2
    <3> QED BY <3>1, <3>2
  <2>4. ToSet(rest) \subseteq documents
    BY <1>5, <1>6
  <2>5. Usable(documents \ ToSet(rest))'
    BY <1>1, <1>4, <2>2 DEF Usable, Spoiled
  <2>6. Underway(documents)'
    BY <1>1, <1>12, <2>2, <2>3, <2>4 DEF Underway, Usable, Spoiled
  <2>7. ReadLists' = ReadLists
    BY <1>1 DEF ReadLists
  <2> QED BY <1>1, <1>2, <1>5, <1>9, <1>12, <2>6, <2>7 DEF StoreTrue
<1>13. CASE Unreadable(d) # "none" /\ Stop(Unreadable(d))
  <2>1. CASE Unreadable(d) = "ValueError"
    <3>1. disk[d] = "undecodable"
      BY <1>8, <2>1, ReadableUsable
    <3>2. ArtifactCause(2)
      BY <1>7, <3>1 DEF ArtifactCause
    <3> QED BY <1>11, <1>13, <2>1, <3>2, ThrownCode DEF Exceptions
  <2>2. CASE Unreadable(d) = "CorruptArtifactError"
    <3>1. Spoiled(d)
      BY <1>8, <2>2, ReadableUsable
    <3>2. ArtifactCause(6)
      BY <1>7, <3>1 DEF ArtifactCause
    <3> QED BY <1>11, <1>13, <2>2, <3>2, ThrownCode DEF Exceptions
  <2> QED BY <1>8, <1>13, <2>1, <2>2, ReadableUsable
<1>14. CASE Unreadable(d) = "none" /\ Unknown(d) /\ Stop("UnsupportedError")
  <2>1. CASE d = "classes" /\ lookup.op \notin Named /\ lookup.class \notin DOMAIN ClassCoeffs \cup {Unset}
    <3>1. Usable({"classes"})
      BY <1>8, <1>14, <2>1, ReadableUsable
    <3>2. ArtifactCause(3)
      BY <1>7, <2>1, <3>1 DEF ArtifactCause
    <3> QED BY <1>11, <1>14, <3>2, ThrownCode DEF Exceptions
  <2>2. CASE d \in {"expansions", "bounds"} /\ lookup.class \notin Bounded
    <3>1. \E e \in {"bounds", "expansions"} \cap Reached : Usable({e})
      BY <1>7, <1>8, <1>14, <2>2, ReadableUsable
    <3>2. ArtifactCause(3)
      BY <2>2, <3>1 DEF ArtifactCause
    <3> QED BY <1>11, <1>14, <3>2, ThrownCode DEF Exceptions
  <2>3. CASE /\ d = "supplement" /\ Merging /\ lookup.op \in Named
             /\ lookup.name \notin DOMAIN Certificates
    <3>1. Usable({"supplement"})
      BY <1>8, <1>14, <2>3, ReadableUsable
    <3>2. Usable({"certificates"})
      BY <1>6, <1>7, <2>3 DEF Merging, Usable
    <3>3. Usable({"certificates", "supplement"})
      BY <3>1, <3>2 DEF Usable
    <3>4. ArtifactCause(3)
      BY <2>3, <3>3 DEF ArtifactCause
    <3> QED BY <1>11, <1>14, <3>4, ThrownCode DEF Exceptions
  <2> QED BY <1>14, <2>1, <2>2, <2>3 DEF Unknown
<1>15. CASE Unreadable(d) = "none" /\ d = "reconciliation" /\ Stop("InvalidInputError")
  <2>1. Usable({"reconciliation"})
    BY <1>8, <1>15, ReadableUsable
  <2>2. ArtifactCause(2)
    BY <1>7, <1>15, <2>1 DEF ArtifactCause
  <2> QED BY <1>11, <1>15, <2>2, ThrownCode DEF Exceptions
<1> QED BY <1>10, <1>12, <1>13, <1>14, <1>15

\* So does the end of a lookup: the integrity check looks at the disk, and the
\* replay at the documents that were read.
LEMMA ConcludeTrue ==
  ASSUME StoreTrue, Conclude, UNCHANGED commandVars
  PROVE  StoreTrue'
<1>1. /\ argv' = argv /\ disk' = disk /\ lookup' = lookup /\ memory' = memory
      /\ lookup # Unset /\ todo = <<>> /\ todo' = <<>> /\ found = Unset
      /\ lookup.op = argv.command
      /\ DOMAIN memory' = Documents /\ \A d \in Documents : memory'[d] \in {"none", disk[d]}
  BY DEF StoreTrue, Conclude, commandVars
<1>2. PICK documents \in ReadLists : Underway(documents)
  BY <1>1 DEF StoreTrue
<1>3. Usable(documents) /\ (lookup.op \in Named => lookup.name \in DOMAIN Certificates)
  <2>1. documents \ ToSet(todo) = documents /\ "supplement" \notin ToSet(todo)
    BY <1>1, NothingLeft
  <2> QED BY <1>1, <1>2, <2>1 DEF Underway
<1>4. lookup.op \in Named => documents = {"certificates", "supplement", "classes"}
  BY ListsSuit
<1>5. ASSUME NEW x \in Exceptions, found' = Refused(x), ArtifactCause(CodeOf(Threw(x)))
      PROVE  StoreTrue'
  BY <1>1, <1>5, RefusedTrue
<1>6. ASSUME NEW v, found' = Answer(v),
             lookup.op = "verify" => \A d \in Listed : disk[d] = "good",
             lookup.op = "certificate" =>
               Replayable(Certificates[lookup.name]) /\ Consistent(Certificates[lookup.name])
      PROVE  StoreTrue'
  <2>1. found'.kind = "answer"
    BY <1>6 DEF Answer
  <2>2. Underway(documents)'
    <3>1. Usable(documents)'
      BY <1>1, <1>3 DEF Usable, Spoiled
    <3>2. ToSet(todo') = {}
      BY <1>1, NothingLeft
    <3>3. Usable(documents \ ToSet(todo))'
      BY <3>1, <3>2 DEF Usable
    <3> QED BY <1>1, <1>3, <3>2, <3>3 DEF Underway
  <2>3. FoundTrue'
    BY <1>1, <1>3, <1>6, <2>1 DEF FoundTrue, Replayable, Consistent, Named
  <2>4. ReadLists' = ReadLists
    BY <1>1 DEF ReadLists
  <2> QED BY <1>1, <1>2, <2>2, <2>3, <2>4, NothingLeft DEF StoreTrue
<1>7. CASE lookup.op = "verify" /\ found' = IntegrityCheck
  <2>1. CASE \A d \in Listed : disk[d] = "good"
    BY <1>6, <1>7, <2>1 DEF IntegrityCheck
  <2>2. CASE \E d \in Listed : disk[d] # "good"
    <3>1. ArtifactCause(6)
      BY <1>7, <2>2 DEF ArtifactCause
    <3>2. found' = Refused("CorruptArtifactError")
      BY <1>7, <2>2 DEF IntegrityCheck
    <3> QED BY <1>5, <3>1, <3>2, ThrownCode DEF Exceptions
  <2> QED BY <2>1, <2>2
<1>8. CASE lookup.op = "certificate" /\ found' = ReplayCertificate(Certificates[lookup.name])
  <2>1. PICK c : c = Certificates[lookup.name]
    OBVIOUS
  <2>2. /\ lookup.name \in DOMAIN Certificates /\ lookup.op \in Named
        /\ Usable({"certificates", "supplement", "classes"}) /\ Usable({"certificates", "supplement"})
    BY <1>3, <1>4, <1>8 DEF Named, Usable
  <2>3. CASE Replayable(c) /\ Consistent(c) /\ \E v : found' = Answer(v)
    BY <1>6, <1>8, <2>1, <2>3
  <2>4. ASSUME found' = Refused("UnresolvedError"),
               c.gammas = <<>> \/ Unset \in ToSet(c.gammas) \/ c.candidate.form = "none"
        PROVE  StoreTrue'
    <3>1. ArtifactCause(4)
      BY <1>8, <2>1, <2>2, <2>4 DEF ArtifactCause
    <3> QED BY <1>5, <2>4, <3>1, ThrownCode DEF Exceptions
  <2>5. ASSUME found' = Refused("UnsupportedError"), c.functional.family \notin Families
        PROVE  StoreTrue'
    <3>1. ArtifactCause(3)
      BY <1>8, <2>1, <2>2, <2>5 DEF ArtifactCause
    <3> QED BY <1>5, <2>5, <3>1, ThrownCode DEF Exceptions
  <2>6. ASSUME found' = Refused("CorruptArtifactError"), Replayable(c), ~Consistent(c)
        PROVE  StoreTrue'
    <3>1. ArtifactCause(6)
      BY <1>8, <2>1, <2>2, <2>6 DEF ArtifactCause
    <3> QED BY <1>5, <2>6, <3>1, ThrownCode DEF Exceptions
  <2>7. found' = ReplayCertificate(c)
    BY <1>8, <2>1
  <2>8. \/ Replayable(c) /\ Consistent(c) /\ \E v : found' = Answer(v)
        \/ /\ found' = Refused("UnresolvedError")
           /\ c.gammas = <<>> \/ Unset \in ToSet(c.gammas) \/ c.candidate.form = "none"
        \/ found' = Refused("UnsupportedError") /\ c.functional.family \notin Families
        \/ found' = Refused("CorruptArtifactError") /\ Replayable(c) /\ ~Consistent(c)
    BY <2>1, <2>2, <2>7, ReplayExact
  <2> QED BY <2>3, <2>4, <2>5, <2>6, <2>8
<1>9. CASE lookup.op \in {"proof"} \cup Filtered /\ found' = Refused("UnsupportedError")
           /\ (lookup.op = "proof" => Certificates[lookup.name].functional.family \notin Families)
  <2>1. Usable({"certificates", "supplement"}) \/ lookup.op \in Filtered
    BY <1>3, <1>4, <1>9 DEF Named, Usable
  <2>2. ArtifactCause(3)
    BY <1>3, <1>9, <2>1 DEF ArtifactCause, Named, Filtered
  <2> QED BY <1>5, <1>9, <2>2, ThrownCode DEF Exceptions
<1>10. CASE lookup.op \notin {"verify", "certificate"} /\ found' = Answer("record")
  BY <1>6, <1>10
<1>11. CASE lookup.op = "proof" /\ found' = IF Certificates[lookup.name].functional.family \in Families
                                            THEN Answer("record") ELSE Refused("UnsupportedError")
  BY <1>9, <1>10, <1>11
<1> QED BY <1>7, <1>8, <1>9, <1>10, <1>11 DEF Conclude, Filtered

\* And a call.
LEMMA CallTrue ==
  ASSUME StoreTrue, NEW class, NEW name, Call(argv.command, class, name), UNCHANGED commandVars
  PROVE  StoreTrue'
<1>1. /\ argv' = argv /\ disk' = disk /\ memory' = memory /\ found' = Unset
      /\ lookup'.op = argv.command /\ lookup'.class = class
      /\ todo' \in Reads(argv.command, class)
  BY DEF Call, commandVars
<1>2. Suits(todo', argv.command)
  BY <1>1, ReadsSuit
<1>3. PICK documents : documents = ToSet(todo')
  OBVIOUS
<1>4. documents \in ReadLists'
  BY <1>1, <1>3 DEF ReadLists
<1>5. Underway(documents)'
  <2>1. Usable(documents \ ToSet(todo))'
    BY <1>3 DEF Usable
  <2>2. argv.command \in Named => "supplement" \in documents
    BY <1>2, <1>3 DEF Suits
  <2> QED BY <1>1, <1>3, <2>1, <2>2 DEF Underway
<1>6. todo' \in Seq(Documents) /\ Paired(todo)'
  BY <1>2 DEF Suits, Paired
<1> QED BY <1>1, <1>4, <1>5, <1>6 DEF StoreTrue

\* What a lookup found is reported as it is.
LEMMA EmitTrue ==
  ASSUME StoreTrue, Emit
  PROVE  OutcomeTrue' /\ cpc' = "handled"
<1>1. /\ cpc' = "handled" /\ argv' = argv /\ disk' = disk /\ lookup' = lookup
      /\ argv.command \in Operations /\ found # Unset
  BY DEF Emit, HandledAs, Handling, storeVars
<1>2. lookup.op = argv.command /\ todo = <<>> /\ FoundTrue
  BY <1>1 DEF StoreTrue
<1>3. ASSUME NEW code, ArtifactCause(code) PROVE Cause(code)'
  <2>1. ArtifactCause(code)'
    BY <1>1, <1>3, ArtifactLasts
  <2>2. argv.command \notin ReplayCommands \cup {"walkthrough"}
    BY <1>1 DEF ReplayCommands, Operations
  <2> QED BY <1>1, <1>2, <2>1, <2>2 DEF Cause
<1>4. ASSUME NEW x, outcome' = Threw(x), ArtifactCause(CodeOf(Threw(x)))
      PROVE  OutcomeTrue'
  <2>1. PICK code : code = CodeOf(Threw(x))
    OBVIOUS
  <2>2. CodeOf(outcome)' = code
    BY <1>4, <2>1 DEF CodeOf
  <2>3. Cause(code)'
    BY <1>3, <1>4, <2>1
  <2>4. outcome'.kind = "threw"
    BY <1>4, ThrownCode
  <2> QED BY <2>2, <2>3, <2>4 DEF OutcomeTrue
<1>5. Content("manifest") = disk["manifest"] /\ "manifest" \in Reached
  <2>1. memory["manifest"] \in {"none", disk["manifest"]}
    BY DEF StoreTrue, Documents
  <2> QED BY <2>1 DEF Content, Reached
<1>6. CASE found.kind = "raised"
  <2>1. outcome' = Threw(found.exception)
    BY <1>6 DEF Emit, HandledAs
  <2>2. ArtifactCause(CodeOf(Threw(found.exception)))
    BY <1>2, <1>6 DEF FoundTrue
  <2> QED BY <1>1, <1>4, <2>1, <2>2
<1>7. CASE found.kind # "raised" /\ Unreadable("manifest") # "none"
  <2>1. outcome' = Threw(Unreadable("manifest"))
    BY <1>7 DEF Emit, HandledAs
  <2>2. CASE Unreadable("manifest") = "ValueError"
    <3>1. disk["manifest"] = "undecodable"
      BY <1>5, <2>2, ReadableUsable
    <3>2. ArtifactCause(2)
      BY <1>5, <3>1 DEF ArtifactCause
    <3> QED BY <1>1, <1>4, <2>1, <2>2, <3>2, ThrownCode
  <2>3. CASE Unreadable("manifest") = "CorruptArtifactError"
    <3>1. Spoiled("manifest")
      BY <1>5, <2>3, ReadableUsable
    <3>2. ArtifactCause(6)
      BY <1>5, <3>1 DEF ArtifactCause
    <3> QED BY <1>1, <1>4, <2>1, <2>3, <3>2, ThrownCode
  <2> QED BY <1>5, <1>7, <2>2, <2>3, ReadableUsable
<1>8. CASE found.kind # "raised" /\ Unreadable("manifest") = "none"
  <2>1. outcome' = Printed
    BY <1>8 DEF Emit, HandledAs
  <2>2. PICK documents \in ReadLists : Underway(documents)
    BY <1>1 DEF StoreTrue
  <2>3. Usable(documents)
    <3>1. documents \ ToSet(todo) = documents
      BY <1>2, NothingLeft
    <3> QED BY <1>2, <1>8, <2>2, <3>1 DEF Underway, FoundTrue
  <2>4. Usable({"manifest"})
    BY <1>5, <1>8, ReadableUsable
  <2>5. Usable(documents \cup {"manifest"})
    BY <2>3, <2>4 DEF Usable
  <2>6. ArtifactCause(0)
    <3>1. \E read \in ReadLists : Usable(read \cup {"manifest"})
      BY <2>2, <2>5
    <3>2. PICK certificate : certificate = Certificates[lookup.name]
      OBVIOUS
    <3>3. /\ lookup.op = "verify" => \A d \in Listed : disk[d] = "good"
          /\ lookup.op = "certificate" =>
               /\ lookup.name \in DOMAIN Certificates
               /\ Replayable(certificate) /\ Consistent(certificate)
      BY <1>2, <1>8, <3>2 DEF FoundTrue
    <3> QED BY <3>1, <3>2, <3>3 DEF ArtifactCause
  <2>7. Cause(0)' /\ CodeOf(outcome)' = 0
    BY <1>3, <2>1, <2>6 DEF CodeOf
  <2> QED BY <1>1, <2>1, <2>7 DEF OutcomeTrue, Printed
<1> QED BY <1>6, <1>7, <1>8

-----------------------------------------------------------------------------
(* Every command: a truthful exit. *)

\* The command knows what it reports.
ExitInv ==
  /\ cpc \in {"none", "radius", "store", "start", "handling", "handled", "exited"}
  /\ cpc \in {"start", "handling"} => StoreTrue /\ RadiusTrue
  /\ cpc = "handled" => OutcomeTrue
  /\ ExitTellsTruth

\* What it knows of the library lasts while nothing is called.
LEMMA IdleLasts ==
  ASSUME UNCHANGED <<argv, storeVars, radiusVars>>, StoreTrue, RadiusTrue
  PROVE  StoreTrue' /\ RadiusTrue'
<1>1. /\ argv' = argv /\ disk' = disk /\ memory' = memory /\ lookup' = lookup /\ todo' = todo
      /\ found' = found /\ loaded' = loaded /\ held' = held /\ request' = request
  BY DEF storeVars, radiusVars
<1>2. RadiusTrue'
  BY <1>1 DEF RadiusTrue
<1>3. CASE ~(lookup # Unset \/ todo # <<>> \/ found # Unset)
  BY <1>1, <1>2, <1>3 DEF StoreTrue
<1>4. CASE lookup # Unset \/ todo # <<>> \/ found # Unset
  <2>1. PICK documents \in ReadLists : Underway(documents)
    BY <1>4 DEF StoreTrue
  <2>2. documents \in ReadLists' /\ Underway(documents)'
    BY <1>1, <2>1 DEF ReadLists, Underway, Usable, Spoiled
  <2>3. found # Unset => FoundTrue'
    <3>1. ASSUME NEW x, ArtifactCause(CodeOf(Threw(x))) PROVE ArtifactCause(CodeOf(Threw(x)))'
      <4>1. PICK code : code = CodeOf(Threw(x))
        OBVIOUS
      <4>2. ArtifactCause(code)'
        BY <1>1, <3>1, <4>1, ArtifactLasts
      <4> QED BY <4>1, <4>2
    <3>2. found # Unset => FoundTrue
      BY DEF StoreTrue
    <3>3. CASE found.kind = "raised" /\ ArtifactCause(CodeOf(Threw(found.exception)))
      <4>1. ArtifactCause(CodeOf(Threw(found.exception)))'
        BY <1>1, <3>1, <3>3
      <4> QED BY <1>1, <3>3, <4>1 DEF FoundTrue
    <3>4. CASE /\ found.kind = "answer"
               /\ lookup.op = "verify" => \A d \in Listed : disk[d] = "good"
               /\ lookup.op = "certificate" =>
                    /\ lookup.name \in DOMAIN Certificates
                    /\ Replayable(Certificates[lookup.name]) /\ Consistent(Certificates[lookup.name])
      BY <1>1, <3>4 DEF FoundTrue, Replayable, Consistent
    <3> QED BY <3>2, <3>3, <3>4 DEF FoundTrue
  <2>4. Paired(todo)' /\ todo' \in Seq(Documents) /\ lookup'.op = argv'.command
    BY <1>1, <1>4 DEF StoreTrue, Paired
  <2>5. found' # Unset => todo' = <<>>
    BY <1>1, <1>4 DEF StoreTrue
  <2> QED BY <1>1, <1>2, <2>2, <2>3, <2>4, <2>5 DEF StoreTrue
<1> QED BY <1>3, <1>4

\* Arguments that are wrong, or ask for help, end the command before it begins.
LEMMA ParseTrue ==
  ASSUME ExitInv, Parse
  PROVE  ExitInv'
<1>1. cpc = "start" /\ UNCHANGED <<argv, storeVars, radiusVars>>
  BY DEF Parse, Finish
<1>2. CASE cpc' = "handling"
  <2>1. StoreTrue' /\ RadiusTrue'
    BY <1>1, IdleLasts DEF ExitInv
  <2> QED BY <1>2, <2>1 DEF ExitInv, ExitTellsTruth
<1>3. CASE argv.shape # "good" /\ cpc' = "exited"
  BY <1>1, <1>3 DEF ExitInv, ExitTellsTruth
<1> QED BY <1>2, <1>3 DEF Parse, Finish

\* Every step of a command keeps what it reports true.
LEMMA StepExit ==
  ASSUME ExitInv, [Next]_<<dagVars, contractVars, cliVars>>
  PROVE  ExitInv'
<1>1. CASE UNCHANGED cliVars
  <2>1. /\ cpc' = cpc /\ stdout' = stdout /\ exit' = exit
        /\ UNCHANGED <<argv, outcome, radiusVars, storeVars>>
    BY <1>1 DEF cliVars, commandVars
  <2>2. cpc' \in {"start", "handling"} => (StoreTrue /\ RadiusTrue)'
    BY <2>1, IdleLasts DEF ExitInv
  <2>3. cpc' = "handled" => OutcomeTrue'
    BY <2>1, OutcomeLasts DEF ExitInv
  <2>4. ExitTellsTruth'
    <3>1. Cause(exit) => Cause(exit)'
      <4>1. PICK code : code = exit
        OBVIOUS
      <4>2. Cause(code) => Cause(code)'
        BY <2>1, CauseLasts
      <4>3. code = exit'
        BY <2>1, <4>1
      <4> QED BY <4>1, <4>2, <4>3
    <3> QED BY <2>1, <3>1 DEF ExitInv, ExitTellsTruth
  <2> QED BY <2>1, <2>2, <2>3, <2>4 DEF ExitInv
<1>2. CASE LibraryStep
  BY <1>2 DEF LibraryStep, commandVars, ExitInv, ExitTellsTruth
<1>3. CASE CommandStep
  <2>1. ASSUME OutcomeTrue' /\ cpc' = "handled" PROVE ExitInv'
    BY <2>1 DEF ExitInv, ExitTellsTruth
  <2>2. ASSUME StoreTrue', RadiusTrue', cpc' = "handling" PROVE ExitInv'
    BY <2>2 DEF ExitInv, ExitTellsTruth
  <2>3. cpc = "handling" => StoreTrue /\ RadiusTrue
    BY DEF ExitInv
  <2>4. CASE Parse
    BY <2>4, ParseTrue
  <2>5. CASE RunArtifact
    <3>1. /\ UNCHANGED commandVars /\ (Read \/ Conclude)
          /\ cpc = "handling" /\ cpc' = cpc
          /\ loaded' = loaded /\ held' = held /\ request' = request
      BY <2>5 DEF RunArtifact, Handling, commandVars, radiusVars
    <3>2. RadiusTrue'
      BY <2>3, <3>1 DEF RadiusTrue
    <3> QED BY <2>2, <2>3, <3>1, <3>2, ReadTrue, ConcludeTrue
  <2>6. CASE Emit
    BY <2>1, <2>3, <2>6, EmitTrue DEF Emit, Handling
  <2>7. CASE RunWalkthrough
    BY <2>1, <2>3, <2>7, RunWalkthroughTrue DEF RunWalkthrough, Handling
  <2>8. CASE RunOther
    BY <2>1, <2>8, RunOtherTrue
  <2>9. CASE Report
    <3>1. OutcomeTrue
      BY <2>9 DEF ExitInv, Report
    <3> QED BY <2>9, <3>1, ReportTells DEF ExitInv
  <2>10. ASSUME NEW direction, NEW candidate \in Candidates, NEW limit \in StepLimits,
                RunReplay(direction, candidate, limit)
         PROVE  ExitInv'
    BY <2>1, <2>3, <2>10, RunReplayTrue DEF RunReplay, Handling
  <2>11. ASSUME NEW direction, RunRadius(direction) PROVE ExitInv'
    BY <2>1, <2>3, <2>11, RunRadiusTrue DEF RunRadius, Handling
  <2>12. ASSUME NEW class, NEW name, CallArtifact(class, name) PROVE ExitInv'
    <3>1. /\ Call(argv.command, class, name) /\ UNCHANGED commandVars
          /\ cpc = "handling" /\ cpc' = cpc
          /\ loaded' = loaded /\ held' = held /\ request' = request
      BY <2>12 DEF CallArtifact, Handling, commandVars, radiusVars
    <3>2. RadiusTrue'
      BY <2>3, <3>1 DEF RadiusTrue
    <3> QED BY <2>2, <2>3, <3>1, <3>2, CallTrue
  <2> QED BY <1>3, <2>4, <2>5, <2>6, <2>7, <2>8, <2>9, <2>10, <2>11, <2>12 DEF CommandStep
<1> QED BY <1>1, <1>2, <1>3 DEF Next, cliVars

\* At first a command has reported nothing and read nothing.
LEMMA InitExit ==
  ASSUME Init
  PROVE  ExitInv
<1>1. CASE CommandInit
  <2>1. cpc = "start" /\ (StoreInit \/ StoreIdle) /\ (RadiusInit \/ RadiusIdle)
    BY <1>1 DEF CommandInit
  <2>2. DOMAIN memory = Documents /\ \A d \in Documents : memory[d] = "none"
    BY <2>1 DEF StoreInit, StoreIdle
  <2>3. todo = <<>> /\ lookup = Unset /\ found = Unset
    BY <2>1 DEF StoreInit, StoreIdle
  <2>4. RadiusTrue
    BY <2>1 DEF RadiusInit, RadiusIdle, RadiusTrue
  <2> QED BY <2>1, <2>2, <2>3, <2>4 DEF ExitInv, StoreTrue, ExitTellsTruth
<1>2. CASE cpc \in {"none", "radius", "store"}
  BY <1>2 DEF ExitInv, ExitTellsTruth
<1> QED BY <1>1, <1>2 DEF Init, CliIdle, CommandIdle

\* Whoever reads only the exit code of gfa is not misled, with --json or without:
\* an answer is printed exactly with 0, and every code a command ends with has the
\* cause that is documented for it, for every corpus, registry and damage to them:
\* 0 that what was asked for was established from documents that can be used, 2
\* and 3 that it is malformed or unknown, 4 that the evidence does not suffice, 5
\* that it exceeds a limit, 6 that an artifact is damaged or disagrees with what
\* it claims (docs/RESULT_CONTRACT.md 80-86; cli.py 62-76, 2054-2124).
THEOREM ExitIsTruthful == Spec => []ExitTellsTruth
<1>1. ExitInv => ExitTellsTruth
  BY DEF ExitInv
<1>2. Init => ExitInv
  BY InitExit
<1>3. ExitInv /\ [Next]_<<dagVars, contractVars, cliVars>> => ExitInv'
  BY StepExit
<1> QED BY <1>1, <1>2, <1>3, PTL DEF Spec
=============================================================================
