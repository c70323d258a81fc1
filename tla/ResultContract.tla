---------------------------- MODULE ResultContract ----------------------------
(***************************************************************************)
(* Structured results (coefficients.py, fekete_szego.py, counterexamples.  *)
(* py) and their contract (contracts.py).  An operation computes a result  *)
(* or a caller constructs one; to_dict derives its evidence and builds the *)
(* payload, which validates itself; the payload is stored, passed on and   *)
(* perhaps rewritten, and whoever receives it validates it again.          *)
(*                                                                         *)
(* A generator is the triple of its first Taylor coefficients, whole       *)
(* numbers here; mu counts halves, and so does the functional's value.     *)
(* Types, unknown and missing keys, versions and bounds of the JSON are    *)
(* left out; exact displays stand for the printed expressions.             *)
(***************************************************************************)
EXTENDS Integers, Sequences, FiniteSets

CONSTANTS
  Nothing,        \* null; no payload yet
  Builtin,        \* the catalog: a function from keys to triples
  Supplied,       \* triples callers make generators of, under any key
  Orders, Mus,    \* the orders and the values of mu that are asked for
  MaxOrder,       \* MAX_TAYLOR_ORDER
  Points,         \* inputs of verify_counterexample
  Enclosure,      \* [property, point] -> the interval, Nothing if unresolved
  MaxEdits        \* bound: how often a payload is rewritten

\* None is no failure state.
ASSUME NullAssumption == Nothing # "unresolved"

VARIABLES
  rpc,        \* "asked", "returned", "built", "accepted", "refused", "raised"
  question,   \* the operation and its arguments
  answer,     \* the result object
  payload,    \* the JSON payload
  edits       \* how often it was rewritten

contractVars == <<rpc, question, answer, payload, edits>>

-----------------------------------------------------------------------------
(* Verification reports, as in AnalysisRecord *)

Check(status) == [status |-> status, required |-> TRUE]
Checked(ok) == Check(IF ok THEN "pass" ELSE "fail")
RequiredOf(checks) == {n \in DOMAIN checks : checks[n].required}
Passed(checks) ==
  RequiredOf(checks) # {} /\ \A n \in RequiredOf(checks) : checks[n].status = "pass"
Reported(checks) ==
  [checks |-> checks, success |-> Passed(checks),
   status |-> IF Passed(checks) THEN "passed"
              ELSE IF \E n \in RequiredOf(checks) : checks[n].status = "fail"
                   THEN "failed" ELSE "skipped"]

-----------------------------------------------------------------------------
(* Generators: catalog.py and taylor_coefficients *)

\* A generator object; the catalog's own objects are known by identity.
Catalogued == {[key |-> k, phi |-> Builtin[k], own |-> TRUE] : k \in DOMAIN Builtin}
Callers == {[key |-> k, phi |-> phi, own |-> FALSE] : k \in DOMAIN Builtin, phi \in Supplied}
Generators == Catalogued \cup Callers

\* generator_identity: a caller's key comes with the digest of the formula.
Identity(g) == IF g.own THEN <<g.key>> ELSE <<"user", g.key, g.phi>>

Normalized(phi) == phi[1] = 1
Taylor(phi, order) == [i \in 1..order |-> IF i < Len(phi) THEN phi[i + 1] ELSE 0]

B1(phi) == Taylor(phi, 2)[1]
B2(phi) == Taylor(phi, 2)[2]
Sign(n) == IF n < 0 THEN -1 ELSE 1
Modulus(n) == n * Sign(n)
Larger(m, n) == IF m < n THEN n ELSE m

\* Twice B1 * max(1, |B2/B1 + (1 - 2 mu) B1|) / 2.
Functional(phi, mu) ==
  Sign(B1(phi)) * Larger(Modulus(B1(phi)), Modulus(B2(phi) + (1 - mu) * B1(phi) * B1(phi)))

-----------------------------------------------------------------------------
(* The operations and the objects they return *)

Property == {"starlike", "becker_univalent"}
Threshold(property) == IF property = "starlike" THEN 0 ELSE 1

Decides(property, interval) ==
  IF property = "starlike" THEN interval[2] <= Threshold(property)
  ELSE interval[1] > Threshold(property)

Direction(property, certified) ==
  IF property = "starlike" THEN (IF certified THEN "disproves" ELSE "not_disproved")
  ELSE (IF certified THEN "violates_criterion" ELSE "not_violated")

SeriesOf(g, order, coefficients) ==
  [type |-> "generator_series", generator |-> g, order |-> order, coefficients |-> coefficients]
FeketeOf(g, mu, b1, b2, value) ==
  [type |-> "fekete_szego", generator |-> g, mu |-> mu, b1 |-> b1, b2 |-> b2, value |-> value]
WitnessOf(property, point, interval, certified) ==
  [type |-> "counterexample_verification", property |-> property, point |-> point,
   interval |-> interval, threshold |-> Threshold(property), certified |-> certified]

Questions ==
  [type : {"generator_series"}, generator : Generators, order : Orders]
  \cup [type : {"fekete_szego"}, generator : Generators, mu : Mus]
  \cup [type : {"counterexample_verification"}, property : Property, point : Points]

ContractInit ==
  /\ rpc = "asked" /\ question \in Questions
  /\ answer = Nothing /\ payload = Nothing /\ edits = 0

Return(object) == answer' = object /\ rpc' = "returned" /\ UNCHANGED <<question, payload, edits>>
Raise == rpc' = "raised" /\ UNCHANGED <<question, answer, payload, edits>>

\* generator_series
GeneratorSeries ==
  /\ rpc = "asked" /\ question.type = "generator_series"
  /\ LET phi == question.generator.phi
     IN IF question.order \notin 1..MaxOrder \/ ~Normalized(phi) THEN Raise
        ELSE Return(SeriesOf(question.generator, question.order, Taylor(phi, question.order)))

\* fekete_szego
FeketeSzego ==
  /\ rpc = "asked" /\ question.type = "fekete_szego"
  /\ LET phi == question.generator.phi
     IN IF ~Normalized(phi) \/ B1(phi) <= 0 THEN Raise
        ELSE Return(FeketeOf(question.generator, question.mu, B1(phi), B2(phi),
                             Functional(phi, question.mu)))

\* verify_counterexample
VerifyCounterexample ==
  /\ rpc = "asked" /\ question.type = "counterexample_verification"
  /\ LET interval == Enclosure[question.property, question.point]
     IN IF interval = Nothing THEN Raise
        ELSE Return(WitnessOf(question.property, question.point, interval,
                              Decides(question.property, interval)))

\* The frozen result classes are public: a caller constructs one with values
\* that need not be the computed ones.
Near(n) == {n, n + 1}
Construct ==
  /\ rpc = "asked"
  /\ \/ /\ question.type = "generator_series" /\ question.order \in 1..MaxOrder
        /\ \E c \in Near(B1(question.generator.phi)) :
             Return(SeriesOf(question.generator, question.order,
                             [Taylor(question.generator.phi, question.order) EXCEPT ![1] = c]))
     \/ /\ question.type = "fekete_szego"
        /\ LET phi == question.generator.phi
           IN \E b1 \in Near(B1(phi)), value \in Near(Functional(phi, question.mu)) :
                Return(FeketeOf(question.generator, question.mu, b1, B2(phi), value))
     \/ /\ question.type = "counterexample_verification"
        /\ LET interval == Enclosure[question.property, question.point]
           IN /\ interval # Nothing
              /\ \E lo \in Near(interval[1]), certified \in BOOLEAN :
                Return(WitnessOf(question.property, question.point,
                                 <<lo, interval[2]>>, certified))

-----------------------------------------------------------------------------
(* The payload: to_dict and build_result_payload *)

\* The verification reports; a witness reports two checks that always pass.
ReportOf(a) ==
  Reported(
    CASE a.type = "generator_series" ->
           [generator_normalization |-> Checked(Normalized(a.generator.phi)),
            exact_taylor_coefficients |->
              Checked(/\ Normalized(a.generator.phi)
                      /\ a.coefficients = Taylor(a.generator.phi, a.order))]
      [] a.type = "fekete_szego" ->
           LET phi == a.generator.phi
           IN [generator_normalization |-> Checked(Normalized(phi)),
               generator_taylor_coefficients |-> Checked(a.b1 = B1(phi) /\ a.b2 = B2(phi)),
               positive_real_first_coefficient |-> Checked(B1(phi) > 0),
               real_second_coefficient |-> Checked(TRUE),
               exact_functional_value |->
                 Checked(B1(phi) # 0 /\ a.value = Functional(phi, a.mu))]
      [] OTHER ->
           [interval_is_ordered |-> Checked(TRUE),
            classification_matches_interval |-> Checked(TRUE)])

Inputs(a) ==
  CASE a.type = "generator_series" -> [generator |-> Identity(a.generator), order |-> a.order]
    [] a.type = "fekete_szego" -> [generator |-> Identity(a.generator), mu |-> a.mu]
    [] OTHER -> [property |-> a.property, point |-> a.point]
Exact(a) ==
  CASE a.type = "generator_series" ->
         [formula |-> a.generator.phi, coefficients |-> a.coefficients]
    [] a.type = "fekete_szego" ->
         [formula |-> a.generator.phi, b1 |-> a.b1, b2 |-> a.b2, value |-> a.value]
    [] OTHER -> [point |-> a.point, interval |-> a.interval, threshold |-> a.threshold]

\* legacy_fields: the fields older readers know, beside and again.  Those that no
\* check compares with anything are left out (the citation of the generator, the
\* decimal value, the reference of the theorem): the validator asks only that they
\* be texts, so that rewriting them is not noticed (contracts.py 576-606).
Legacy(a) ==
  CASE a.type = "generator_series" ->
         [generator |-> Identity(a.generator), order |-> a.order,
          formula |-> a.generator.phi, coefficients |-> a.coefficients]
    [] a.type = "fekete_szego" ->
         [generator |-> Identity(a.generator), mu |-> a.mu,
          formula |-> a.generator.phi, b1 |-> a.b1, b2 |-> a.b2, value |-> a.value]
    [] OTHER ->
         [property |-> a.property, point |-> a.point, interval |-> a.interval,
          threshold |-> a.threshold, certified |-> a.certified,
          direction |-> Direction(a.property, a.certified)]

IntendedEvidence(type) ==
  IF type = "counterexample_verification" THEN "certified_enclosure"
  ELSE "proven_exact_under_declared_assumptions"
Assumptions(type) == {<<type, i>> : i \in 1..2}

\* A mistake: a failed report does not set the failure state.
NoFailure(report) == Nothing
Failure(report) == IF report.success THEN Nothing ELSE "unresolved"

Build(a) ==
  LET report == ReportOf(a)
      own == a.type # "counterexample_verification" /\ a.generator.own
      evidence == IF report.success THEN IntendedEvidence(a.type) ELSE "unresolved"
  IN [type |-> a.type, inputs |-> Inputs(a), exact |-> Exact(a), dag |-> Exact(a),
      legacy |-> Legacy(a),
      evidence |-> evidence, computational |-> evidence, failure |-> Failure(report),
      assumptions |-> Assumptions(a.type), report |-> report,
      provenance |-> IF own THEN "built_in" ELSE "caller_supplied",
      catalog |-> IF own THEN "package" ELSE "user-supplied",
      source |-> IF own THEN "package" ELSE "caller-supplied"]

-----------------------------------------------------------------------------
(* validate_result_payload *)

\* The aggregate of a report is recomputed from its required checks.
ReportOK(p) == p.report.checks # <<>> /\ p.report = Reported(p.report.checks)

CheckNames(type) ==
  CASE type = "generator_series" -> {"generator_normalization", "exact_taylor_coefficients"}
    [] type = "fekete_szego" ->
         {"generator_normalization", "generator_taylor_coefficients",
          "positive_real_first_coefficient", "real_second_coefficient", "exact_functional_value"}
    [] OTHER -> {"interval_is_ordered", "classification_matches_interval"}

\* The generator's artifact says who supplied it.
ProvenanceOK(p) ==
  LET supplied == p.catalog = "user-supplied"
  IN /\ supplied \/ p.catalog = "package"
     /\ p.provenance = IF supplied THEN "caller_supplied" ELSE "built_in"
     /\ p.source = IF supplied THEN "caller-supplied" ELSE "package"

\* The established fields repeat the inputs and the exact expressions.
RepeatsAgree(p) ==
  \A place \in {"inputs", "exact"}, k \in DOMAIN p.legacy :
    k \in DOMAIN p[place] => p.legacy[k] = p[place][k]

\* _validate_operation_contract: what belongs to the package.  Assumptions that
\* are no proper subset of the package's pass.
OperationOK(p) ==
  /\ p.type = "counterexample_verification" => p.report.success
  /\ ~(p.assumptions \subseteq Assumptions(p.type) /\ p.assumptions # Assumptions(p.type))
  /\ p.evidence = IF p.report.success THEN IntendedEvidence(p.type) ELSE p.failure
  /\ ProvenanceOK(p)
  /\ DOMAIN p.report.checks = CheckNames(p.type)
  /\ \A n \in DOMAIN p.report.checks : p.report.checks[n].required
  /\ RepeatsAgree(p)

\* A witness is evaluated again, at the point of the inputs.
WitnessOK(p) ==
  LET interval == Enclosure[p.legacy.property, p.inputs.point]
  IN /\ p.dag.point = p.inputs.point
     /\ interval # Nothing /\ p.dag.interval = interval
     /\ p.dag.threshold = Threshold(p.legacy.property)
     /\ p.legacy.certified = Decides(p.legacy.property, interval)
     /\ p.legacy.direction = Direction(p.legacy.property, p.legacy.certified)

\* A generator that is said to be built in is the catalog's.
GeneratorOK(p) ==
  /\ p.provenance = "built_in" =>
       \E k \in DOMAIN Builtin : p.inputs.generator = <<k>> /\ p.dag.formula = Builtin[k]
  /\ Normalized(p.dag.formula)

SeriesOK(p) == p.dag.coefficients = Taylor(p.dag.formula, p.inputs.order)

FeketeOK(p) ==
  /\ p.dag.b1 = B1(p.dag.formula) /\ p.dag.b2 = B2(p.dag.formula)
  /\ B1(p.dag.formula) > 0
  /\ p.dag.value = Functional(p.dag.formula, p.inputs.mu)

\* A mistake: the values of the DAG are compared with the displays only.
DisplaysOK(p) == p.report.success => p.dag = p.exact

\* _validate_authoritative_operation: a successful result is computed again.
AuthoritativeOK(p) ==
  p.report.success =>
    /\ p.dag = p.exact
    /\ CASE p.type = "counterexample_verification" -> WitnessOK(p)
         [] p.type = "generator_series" -> GeneratorOK(p) /\ SeriesOK(p)
         [] OTHER -> GeneratorOK(p) /\ FeketeOK(p)

FailureOK(p) ==
  IF p.report.success THEN p.failure = Nothing
  ELSE p.failure # Nothing /\ p.computational = p.failure

Accepted(p) ==
  /\ p.computational = p.evidence
  /\ ReportOK(p) /\ OperationOK(p) /\ AuthoritativeOK(p) /\ FailureOK(p)

\* to_dict: the report of a functional needs a normalized generator, and
\* build_result_payload validates what it has built.
ToDict ==
  /\ rpc = "returned"
  /\ IF \/ answer.type = "fekete_szego" /\ ~Normalized(answer.generator.phi)
        \/ ~Accepted(Build(answer))
     THEN Raise
     ELSE payload' = Build(answer) /\ rpc' = "built" /\ UNCHANGED <<question, answer, edits>>

Validate ==
  /\ rpc = "built"
  /\ rpc' = IF Accepted(payload) THEN "accepted" ELSE "refused"
  /\ UNCHANGED <<question, answer, payload, edits>>

-----------------------------------------------------------------------------
(* Between to_dict and the validation: one fact of the payload is rewritten, *)
(* in one place or consistently wherever the payload repeats it.             *)

Others(p, k) ==
  CASE k = "generator" -> {Identity(g) : g \in Generators}
    [] k = "order" -> {n \in Orders : n \in 1..MaxOrder}
    [] k = "mu" -> Mus
    [] k = "formula" -> {g.phi : g \in Generators}
    [] k = "coefficients" ->
         {[p.legacy[k] EXCEPT ![1] = @ + 1]} \cup {Taylor(g.phi, n) : g \in Generators, n \in {Len(p.legacy[k])}}
    [] k \in {"b1", "b2", "value", "threshold"} -> {p.legacy[k] + 1}
    [] k = "property" -> Property
    [] k = "point" -> Points
    [] k = "interval" -> {<<p.legacy[k][1] + 1, p.legacy[k][2]>>, <<p.legacy[k][1], p.legacy[k][2] - 1>>}
    [] k = "certified" -> BOOLEAN
    [] k = "direction" -> {Direction(q, c) : q \in Property, c \in BOOLEAN}

Place == {"inputs", "exact", "dag", "legacy"}
Put(p, places, k, v) ==
  LET at(q, place) == IF place \in places /\ k \in DOMAIN q[place]
                      THEN [q EXCEPT ![place][k] = v] ELSE q
  IN at(at(at(at(p, "inputs"), "exact"), "dag"), "legacy")

Restated(p) ==
  UNION {{Put(p, places, k, v) : v \in Others(p, k),
                                 places \in {Place} \cup {{place} : place \in Place}} :
         k \in DOMAIN p.legacy}
Reclaimed(p) ==
  {[p EXCEPT !.evidence = e, !.computational = e] :
     e \in {"unresolved", "certified_enclosure", "proven_exact_under_declared_assumptions"}}
  \cup {[p EXCEPT !.computational = "unresolved"], [p EXCEPT !.assumptions = {}],
        [p EXCEPT !.failure = IF @ = Nothing THEN "unresolved" ELSE Nothing],
        [p EXCEPT !.provenance = IF @ = "built_in" THEN "caller_supplied" ELSE "built_in"],
        [p EXCEPT !.provenance = "built_in", !.catalog = "package", !.source = "package"]}
Revised(checks) ==
  {[checks EXCEPT ![n].status = s] : n \in DOMAIN checks, s \in {"pass", "fail", "skip"}}
  \cup {[checks EXCEPT ![n].required = FALSE] : n \in DOMAIN checks}
Reassessed(p) ==
  {[p EXCEPT !.report.success = ~@]}
  \cup {[p EXCEPT !.report = Reported(checks)] : checks \in Revised(p.report.checks)}
Rewritten(p) == Restated(p) \cup Reclaimed(p) \cup Reassessed(p)

Rewrite ==
  /\ rpc = "built" /\ edits < MaxEdits
  /\ payload' \in Rewritten(payload) \ {payload}
  /\ edits' = edits + 1 /\ UNCHANGED <<rpc, question, answer>>

ContractStep ==
  GeneratorSeries \/ FeketeSzego \/ VerifyCounterexample \/ Construct
  \/ ToDict \/ Rewrite \/ Validate

-----------------------------------------------------------------------------
(* Properties *)

\* The values a payload states follow from the inputs it states.
StatesTruth(p) ==
  CASE p.type = "generator_series" ->
         Normalized(p.legacy.formula) /\ p.legacy.coefficients = Taylor(p.legacy.formula, p.legacy.order)
    [] p.type = "fekete_szego" ->
         /\ Normalized(p.legacy.formula) /\ B1(p.legacy.formula) > 0
         /\ p.legacy.value = Functional(p.legacy.formula, p.legacy.mu)
    [] OTHER ->
         /\ p.legacy.interval = Enclosure[p.legacy.property, p.legacy.point]
         /\ p.legacy.certified = Decides(p.legacy.property, p.legacy.interval)

\* However a payload was rewritten, one that is accepted as a success states
\* true values, and the catalog's generator where it names one as built in;
\* one accepted as a failure claims no evidence (contracts.py 380-669, 786-1009,
\* 1300-1491).
AcceptedIsTrue ==
  rpc = "accepted" \/ (rpc = "built" /\ edits = 0) =>
    IF payload.report.success
    THEN /\ StatesTruth(payload) /\ payload.failure = Nothing
         /\ payload.provenance = "built_in" /\ "generator" \in DOMAIN payload.legacy =>
              \E k \in DOMAIN Builtin :
                payload.legacy.generator = <<k>> /\ payload.legacy.formula = Builtin[k]
    ELSE {payload.evidence, payload.computational} = {payload.failure} /\ payload.failure # Nothing

\* to_dict serialises every result an operation computed, and every other one
\* as a failure, except a functional of an unnormalized generator and a witness
\* that is not what verify_counterexample computes (coefficients.py 100-152,
\* fekete_szego.py 107-244, counterexamples.py 48-129).
ComputedResultsSerialise ==
  rpc = "raised" /\ answer # Nothing =>
    IF answer.type = "counterexample_verification"
    THEN \/ answer.interval # Enclosure[answer.property, answer.point]
         \/ answer.certified # Decides(answer.property, answer.interval)
    ELSE answer.type = "fekete_szego" /\ ~Normalized(answer.generator.phi)
=============================================================================
