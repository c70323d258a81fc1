---------------------------- MODULE AnalysisRecord ----------------------------
(***************************************************************************)
(* Verification reports (contracts.py) and the analysis records that carry *)
(* them (records.py).  An operation leaves its result; a caller builds the *)
(* record of it, and whoever receives the record validates it.             *)
(*                                                                         *)
(* A report is a function from the names of its checks to the checks.      *)
(* Fields every operation fills with constant non-empty texts are left     *)
(* out: what is kept is what the validator's verdict depends on.           *)
(***************************************************************************)
EXTENDS Naturals

CONSTANT None   \* no result, no record, no failure state

ASSUME NoneAssumption == None \notin BOOLEAN

VARIABLES
  result,     \* what the operation returned, or None
  record,     \* what build_screen_record made of it, or None
  accepted    \* what validate_screen_record said of the record, or None

recordVars == <<result, record, accepted>>

-----------------------------------------------------------------------------
(* VerificationCheck and VerificationReport *)

Status == {"pass", "fail", "skip"}
Check == [status : Status, required : BOOLEAN, reason : BOOLEAN]

\* A check as the code makes most of them: a reason exactly when it fails.
MakeCheck(status, required) ==
  [status |-> status, required |-> required, reason |-> status = "fail"]

Required(checks) == {n \in DOMAIN checks : checks[n].required}

\* A mistake: a report fails only if a required check fails.
SuccessUnlessFailed(checks) ==
  \A n \in Required(checks) : checks[n].status # "fail"

Success(checks) ==
  /\ Required(checks) # {}
  /\ \A n \in Required(checks) : checks[n].status = "pass"

ReportStatus(checks) ==
  CASE Success(checks) -> "passed"
    [] ~Success(checks) /\ \E n \in Required(checks) : checks[n].status = "fail" -> "failed"
    [] OTHER -> "skipped"

Report(checks) ==
  [checks |-> checks, success |-> Success(checks), status |-> ReportStatus(checks)]

\* _validate_report
ReportAccepted(report) ==
  /\ DOMAIN report.checks # {}
  /\ \A n \in DOMAIN report.checks :
       report.checks[n].reason <=> report.checks[n].status = "fail"
  /\ report = Report(report.checks)

-----------------------------------------------------------------------------
(* build_screen_record and validate_screen_record *)

RecordType == {"class_admissibility", "class_membership", "class_containment",
               "function_verification", "witness_search", "lab_metrics"}
EvidenceKind == {"numerical_screen", "certified_enclosure", "exact_proof", "inconclusive",
                 "benchmark_metric", "empirical_metric"}
Tier == {"screen", "symbolic", "rigorous", "lab"}

\* A result: its type, evidence and tier, its checks, whether all its numbers
\* are finite, and what it says.
Returned(type, evidence, tier, checks, finite, says) ==
  [type |-> type, evidence |-> evidence, tier |-> tier, checks |-> checks,
   finite |-> finite, says |-> says]

\* _json_value refuses a number that is not finite.
Record(r) ==
  IF r.finite
  THEN [type |-> r.type, evidence |-> r.evidence, tier |-> r.tier, says |-> r.says,
        failure |-> None, verification |-> Report(r.checks)]
  ELSE [raised |-> "ValueError"]

RecordInit == result = None /\ record = None /\ accepted = None

BuildRecord ==
  /\ result # None /\ record = None
  /\ record' = Record(result)
  /\ UNCHANGED <<result, accepted>>

\* A mistake: only screens may end without a verdict.
NegativeScreensOnly(r) == r.evidence = "numerical_screen"

NegativeFindingAllowed(r) ==
  \/ r.evidence = "numerical_screen"
  \/ r.type = "function_verification" /\ r.evidence = "inconclusive"

\* The coordinates of a witness or worst point, which no check here is about, are
\* left out (records.py 206-211): a point of a screen is inside the unit disk
\* unless its radius is so near 1 that squaring rounds it up.
RecordAccepted(r) ==
  /\ r.type \in RecordType /\ r.evidence \in EvidenceKind /\ r.tier \in Tier
  /\ ReportAccepted(r.verification)
  /\ IF r.verification.success
     THEN r.failure = None
     ELSE r.failure # None \/ NegativeFindingAllowed(r)

ValidateRecord ==
  /\ record # None /\ accepted = None
  /\ "raised" \notin DOMAIN record
  /\ accepted' = RecordAccepted(record)
  /\ UNCHANGED <<result, record>>

RecordNext == BuildRecord \/ ValidateRecord
=============================================================================
