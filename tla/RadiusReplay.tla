----------------------------- MODULE RadiusReplay -----------------------------
(***************************************************************************)
(* The directed radius registry and the replay of its certificates         *)
(* (radii.py).  A caller looks a record up, may serialize it, store or     *)
(* alter what it holds, and asks for a replay with a candidate of its own. *)
(*                                                                         *)
(* An expression is [form, value, spelling]; prose, angles and flags of a  *)
(* record are one field, text, "" when empty; its provenance is one field. *)
(* The steps of a chain are computer algebra: Chain says which verify.     *)
(***************************************************************************)
EXTENDS Integers, Sequences, FiniteSets, TLC

CONSTANTS
  None,
  Rows,          \* radii_snapshot.json: [source, target, status, exact, decimal, paper]
  Lanes,         \* the certificate fixture: direction -> [baked, exact, decimal, steps]
  Chain,         \* direction -> sequence of BOOLEAN: what replaying its steps finds
  PaperRadii,    \* _PAPER_ANALYTIC_RADII: direction -> expression
  Candidates,    \* what callers give as candidate
  StepLimits,    \* what callers give as max_steps
  MaxSteps,      \* MAX_REPLAY_STEPS
  OtherFields,   \* field of a record -> values dataclasses.replace may give it
  OtherKeys,     \* key of a mapping -> values its holder may write
  MaxChanges     \* bound: how many fields of a held record are altered

\* A direction has one row, a lane is a row's, and a chain is known for every lane.
ASSUME RegistryAssumption ==
  /\ \A r, s \in Rows : r.source = s.source /\ r.target = s.target => r = s
  /\ DOMAIN Lanes \subseteq {<<r.source, r.target>> : r \in Rows}
  /\ DOMAIN Lanes \cup DOMAIN PaperRadii \subseteq DOMAIN Chain

\* _resource_check turns away what is no integer.
ASSUME LimitAssumption == StepLimits \cup {MaxSteps} \subseteq Int

VARIABLES
  intact,     \* the two data files of the package have their checksums
  loaded,     \* _RECORD_CACHE is filled
  held,       \* the record or mapping a caller has
  changes,    \* how often it was altered
  request,    \* the replay that was asked for: [given, candidate, limit]
  result      \* what the call returned or raised

radiusVars == <<intact, loaded, held, changes, request, result>>

-----------------------------------------------------------------------------
(* Records *)

Directed(r) == <<r.source, r.target>>
Statuses == {"paper_proved_exact", "touch_proven_exact", "closed_form_confirmed",
             "trivial_containment", "unidentified", "audit_required"}

\* _record_from_snapshot: a reviewed lane replaces what the row says.
CertificateOf(direction) ==
  LET lane == Lanes[direction]
  IN [source |-> direction[1], target |-> direction[2], machine |-> "proven",
      baked |-> lane.baked, exact |-> lane.exact, decimal |-> lane.decimal, steps |-> lane.steps]
RecordOf(row) ==
  LET reviewed == Directed(row) \in DOMAIN Lanes
      lane     == Lanes[Directed(row)]
  IN  [source |-> row.source, target |-> row.target, status |-> row.status, paper |-> row.paper,
       exact       |-> IF reviewed THEN lane.exact ELSE row.exact,
       decimal     |-> IF reviewed THEN lane.decimal ELSE row.decimal,
       text        |-> IF reviewed THEN "lane" ELSE IF row.paper # None THEN "paper" ELSE "row",
       provenance  |-> IF reviewed THEN "fixture" ELSE "snapshot",
       certificate |-> IF reviewed THEN CertificateOf(Directed(row)) ELSE None]

Registry == {RecordOf(row) : row \in Rows}
Trusted(direction) == {r \in Registry : Directed(r) = direction}

\* _parse_exact_expression and _expression_equal.
Parses(e) == e # None /\ e.form = "exact"
Same(d, e) == Parses(d) /\ Parses(e) /\ d.value = e.value

\* RadiusRecord.to_dict: both spellings of what it says twice.
ToMapping(r) ==
  [inner |-> r.source, target |-> r.target, canonical |-> Directed(r),
   value_exact |-> r.exact, radius |-> IF Parses(r.exact) THEN r.exact ELSE None,
   decimal |-> r.decimal, status |-> r.status, text |-> r.text, paper |-> r.paper,
   provenance_detail |-> r.provenance, certificate |-> r.certificate]

\* The statuses a lane may have been baked with.
Agrees(baked, status, paper) ==
  \/ baked = status
  \/ /\ status = "paper_proved_exact" /\ paper # None
     /\ baked \in {"touch_proven_exact", "closed_form_confirmed"}

\* The lanes in the package, pinned by their checksum, have steps, a status that
\* agrees with their row, and no data of theirs stands for nothing.
ASSUME LaneAssumption ==
  \A r \in Rows : Directed(r) \in DOMAIN Lanes =>
    LET lane == Lanes[Directed(r)]
    IN /\ lane.steps > 0 /\ Agrees(lane.baked, r.status, r.paper)
       /\ CertificateOf(Directed(r)) # None

CertificateFields == {"source", "target", "baked", "exact", "decimal", "machine", "steps"}
Field(m, key, default) == IF key \in DOMAIN m THEN m[key] ELSE default

\* _coerce_record: None for InvalidInputError, TypeError and ValueError.  Without
\* provenance_detail it reads provenance, which to_dict fills with a string.
Coerce(m) ==
  LET direction == Field(m, "canonical", <<Field(m, "inner", None), Field(m, "target", None)>>)
      spelled   == Field(m, "value_exact", None)
  IN  IF \/ "provenance_detail" \notin DOMAIN m
         \/ None \in {direction[1], direction[2]}
         \/ Field(m, "status", None) \notin Statuses
         \/ Field(m, "certificate", None) # None /\ DOMAIN m.certificate # CertificateFields
      THEN None
      ELSE [source |-> direction[1], target |-> direction[2], status |-> m.status,
            paper       |-> Field(m, "paper", None),
            exact       |-> IF spelled # None THEN spelled ELSE Field(m, "radius", None),
            decimal     |-> Field(m, "decimal", None),
            text        |-> Field(m, "text", ""),
            provenance  |-> m.provenance_detail,
            certificate |-> Field(m, "certificate", None)]

IsMapping(r) == "exact" \notin DOMAIN r
AsRecord(r) == IF IsMapping(r) THEN Coerce(r) ELSE r

-----------------------------------------------------------------------------
(* Replay *)

\* _validate_record_for_replay.
UncertifiedBlocker(record) ==
  IF record \in Trusted(Directed(record)) THEN "unsupported" ELSE "corrupt_artifact"
CertificateAgrees(record) ==
  /\ Directed(record) \in DOMAIN Lanes
  /\ record.certificate.machine = "proven" /\ record.certificate.steps > 0
  /\ record.text # "" /\ record.provenance = "fixture"
  /\ record.certificate.exact = record.exact
  /\ Directed(record.certificate) = Directed(record)
  /\ Agrees(record.certificate.baked, record.status, record.paper)

\* The mutant: a certificate that agrees with the record it is in is enough.
SelfConsistent(record) ==
  IF record.certificate = None THEN UncertifiedBlocker(record)
  ELSE IF CertificateAgrees(record) THEN "none" ELSE "corrupt_artifact"

Blocker(record) ==
  IF record.certificate = None THEN UncertifiedBlocker(record)
  ELSE IF CertificateAgrees(record) /\ record \in Trusted(Directed(record))
       THEN "none" ELSE "corrupt_artifact"

\* RadiusReplayResult, and what is raised instead of it.
Result(status, certified, failure) ==
  [kind |-> "result", status |-> status, certified |-> certified, failure |-> failure]
Failed(state, status) == Result(status, FALSE, state)
Raised(exception) == [kind |-> "raised", exception |-> exception]
FailureStates == {"invalid_input", "unsupported", "corrupt_artifact"}
Results ==
  [kind : {"result"}, certified : BOOLEAN, failure : FailureStates \cup {None},
   status : {"proven", "symbolic_replay_only", "unresolved", "candidate_mismatch",
             "invalid_input", "corrupt_artifact", "not_replayable"}]
  \cup [kind : {"raised"}, exception :
          {"ResourceLimitError", "InvalidInputError", "RuntimeError", "KeyError"}]

ReplayRequests ==
  [given : Registry, candidate : Candidates \cup {None}, limit : StepLimits \cup {MaxSteps}]

\* Python's None is none of them.
ASSUME NothingAssumption ==
  None \notin Results \cup FailureStates \cup Registry \cup ReplayRequests

\* The steps of a lane, after the candidate was accepted.
RunChain(direction, passing, limit, declared) ==
  IF Len(Chain[direction]) > limit \/ declared > limit THEN Raised("ResourceLimitError")
  ELSE IF \A n \in DOMAIN Chain[direction] : Chain[direction][n]
       THEN Result(passing, passing = "proven", None)
       ELSE Result("unresolved", FALSE, None)

\* The candidate against the exact radius it has to equal.
WithCandidate(given, exact, run) ==
  IF given = None THEN Failed("invalid_input", "invalid_input")
  ELSE IF given.form = "huge" THEN Raised("ResourceLimitError")
  ELSE IF ~Parses(given) THEN Failed("invalid_input", "invalid_input")
  ELSE IF ~Same(given, exact) THEN Result("candidate_mismatch", FALSE, None)
  ELSE run

\* replay_radius_certificate once the registry is loaded.
ReplayRecord(record, candidate, limit) ==
  LET direction == Directed(record)
      blocker   == Blocker(record)
      Given(own) == IF candidate # None THEN candidate ELSE own
  IN  IF blocker = "unsupported" /\ direction \in DOMAIN PaperRadii
      THEN WithCandidate(Given(PaperRadii[direction]), PaperRadii[direction],
             RunChain(direction, "symbolic_replay_only", limit, 0))
      ELSE IF blocker = "unsupported" THEN Failed("unsupported", "not_replayable")
      ELSE IF blocker = "corrupt_artifact" THEN Failed("corrupt_artifact", "corrupt_artifact")
      ELSE WithCandidate(Given(record.exact), record.certificate.exact,
             RunChain(direction, "proven", limit, record.certificate.steps))

\* Every replay looks the row up, unless something was refused before.
Consults(given, limit) ==
  LET record == AsRecord(given) IN
  /\ limit \in 1..MaxSteps /\ record # None
  /\ record.certificate = None \/ CertificateAgrees(record)

\* _resource_check, the coercion, the registry and the replay, in this order.
Replay(given, candidate, limit) ==
  LET record == AsRecord(given) IN
  IF limit < 1 THEN Raised("InvalidInputError")
  ELSE IF limit > MaxSteps THEN Raised("ResourceLimitError")
  ELSE IF record = None THEN Failed("invalid_input", "invalid_input")
  ELSE IF Consults(given, limit) /\ ~loaded /\ ~intact THEN Raised("RuntimeError")
  ELSE ReplayRecord(record, candidate, limit)

-----------------------------------------------------------------------------
(* Steps *)

RadiusInit ==
  /\ intact \in BOOLEAN /\ loaded = FALSE
  /\ held = None /\ changes = 0 /\ request = None /\ result = None

\* _records through list_radii and radius: the cache is filled once; a checksum
\* that does not match raises and leaves it empty.
Find(direction, Found(_), missing) ==
  /\ held = None /\ result = None
  /\ loaded' = (loaded \/ intact)
  /\ IF loaded' /\ Trusted(direction) # {} THEN Found(CHOOSE r \in Trusted(direction) : TRUE)
     ELSE /\ result' = IF loaded' THEN missing ELSE Raised("RuntimeError")
          /\ UNCHANGED <<held, request>>
  /\ UNCHANGED <<intact, changes>>

Lookup(direction) ==
  Find(direction, LAMBDA r : held' = r /\ UNCHANGED <<request, result>>, Raised("KeyError"))

\* verify_radius_certificate, recompute_radius and verify_radius_attainment.
Verify(direction, candidate, limit) ==
  Find(direction,
    LAMBDA r : /\ request' = [given |-> r, candidate |-> candidate, limit |-> limit]
               /\ result' = Replay(r, candidate, limit) /\ UNCHANGED held,
    Failed("invalid_input", "invalid_input"))

\* Its holder serializes the record, or alters a field; a mapping may lose one.
Serialize ==
  /\ held # None /\ ~IsMapping(held) /\ changes = 0 /\ result = None
  /\ held' = ToMapping(held) /\ UNCHANGED <<intact, loaded, changes, request, result>>

Changed ==
  /\ held # None /\ result = None
  /\ changes < MaxChanges /\ changes' = changes + 1
  /\ UNCHANGED <<intact, loaded, request, result>>
Alter ==
  /\ Changed
  /\ LET other == IF IsMapping(held) THEN OtherKeys ELSE OtherFields IN
     \E key \in DOMAIN held \cap DOMAIN other : \E value \in other[key] :
       value # held[key] /\ held' = [held EXCEPT ![key] = value]
Lose ==
  /\ Changed /\ IsMapping(held)
  /\ \E key \in DOMAIN held : held' = [k \in DOMAIN held \ {key} |-> held[k]]

\* Another process takes it up: its cache is empty, its package another one.
Restart ==
  /\ held # None /\ loaded /\ result = None
  /\ loaded' = FALSE /\ intact' \in BOOLEAN /\ UNCHANGED <<held, changes, request, result>>

ReplayHeld(candidate, limit) ==
  /\ held # None /\ result = None
  /\ request' = [given |-> held, candidate |-> candidate, limit |-> limit]
  /\ result' = Replay(held, candidate, limit)
  /\ loaded' = (loaded \/ (intact /\ Consults(held, limit)))
  /\ UNCHANGED <<intact, held, changes>>

RadiusStep ==
  \/ \E row \in Rows : Lookup(Directed(row)) \/ Lookup(<<row.target, row.source>>)
  \/ \E row \in Rows, candidate \in Candidates, limit \in StepLimits :
       Verify(Directed(row), candidate, limit) \/ Verify(<<row.target, row.source>>, candidate, limit)
  \/ Serialize \/ Alter \/ Lose \/ Restart
  \/ \E candidate \in Candidates, limit \in StepLimits : ReplayHeld(candidate, limit)

-----------------------------------------------------------------------------
(* Properties *)

\* A replay proves exactly the reviewed lanes: a record that is its registry row
\* in every field, whether object or mapping, with a candidate equal to the
\* reviewed radius and every step verified.  A row without a certificate is
\* unsupported, and any record that is no row is a corrupt artifact: neither is
\* ever mistaken for the other (radii.py 1176-1264, its docstring 1184-1195).
ReplayFailsClosed ==
  request # None /\ result.kind = "result" =>
    LET record    == AsRecord(request.given)
        genuine   == record # None /\ record \in Registry
        direction == Directed(record)
        candidate == IF request.candidate = None THEN record.exact ELSE request.candidate
        provable  == /\ genuine /\ direction \in DOMAIN Lanes
                     /\ Same(candidate, Lanes[direction].exact)
                     /\ \A n \in DOMAIN Chain[direction] : Chain[direction][n]
    IN  /\ result.certified <=> provable
        /\ result.certified <=> result.status = "proven"
        /\ result.failure = "corrupt_artifact" <=> record # None /\ ~genuine
        /\ result.failure = "unsupported" <=>
             genuine /\ direction \notin DOMAIN Lanes \cup DOMAIN PaperRadii
=============================================================================
