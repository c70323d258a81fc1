------------------------------ MODULE CommandLine ------------------------------
(***************************************************************************)
(* One run of the command gfa (cli.py): its arguments are parsed, the      *)
(* handler of its command calls the library, and main reports what came of *)
(* it on the two streams and in the exit code.  The radius commands call   *)
(* RadiusReplay and the artifact commands ArtifactStore; of the others the *)
(* model keeps which exceptions they can end with.                         *)
(***************************************************************************)
EXTENDS RadiusReplay, ArtifactStore

CONSTANTS
  Arguments,  \* [command, json, shape, reader]: json is "none", "--json" or "--js" (an abbreviation)
  Tour        \* the direction walkthrough replays

VARIABLES
  cpc,        \* "none", "radius", "store" (no command), "start", "handling", "handled", "exited"
  argv,       \* what the command is called with, and who reads stdout
  outcome,    \* what the handler did
  stdout, stderr, exit

commandVars == <<cpc, argv, outcome, stdout, stderr, exit>>
cliVars == <<commandVars, radiusVars, storeVars>>

-----------------------------------------------------------------------------
(* Commands and outcomes *)

\* _verify_radius_certificate, _radius_recompute, _radius_attainment, _radius_audit.
ReplayCommands == {"verify-radius-certificate", "radius-attainment", "radius-audit"}
RadiusCommands == ReplayCommands \cup {"radius"}

\* What the handlers that are groups here let through: exact results; screens,
\* verification and search; snapshots; plots; the laboratories.
CatalogErrors  == {"InvalidInputError", "ResourceLimitError", "KeyError", "ValueError"}
EvidenceErrors == {"InvalidInputError", "ResourceLimitError", "UnresolvedError", "KeyError", "ValueError", "TypeError"}
SnapshotErrors == {"CorruptArtifactError", "ResourceLimitError", "UnsupportedError", "KeyError", "ValueError",
                   "OSError"}
PlotErrors     == {"InvalidInputError", "ResourceLimitError", "KeyError", "ValueError", "OSError"}
LabErrors      == {"ImportError", "InvalidInputError", "ResourceLimitError", "ValueError", "OSError"}
Raises == [catalog |-> CatalogErrors, evidence |-> EvidenceErrors, snapshot |-> SnapshotErrors,
           plot |-> PlotErrors, lab |-> LabErrors]

Commands == RadiusCommands \cup Operations \cup {"walkthrough"} \cup DOMAIN Raises
TextOnly == {"walkthrough", "plot"}   \* they have no --json

Printed == [kind |-> "printed"]
Threw(exception) == [kind |-> "threw", exception |-> exception]
Structured(state) == [kind |-> "structured", state |-> state]   \* _CommandFailure

\* What the replay handlers make of a result.
OutcomeOf(r) ==
  IF r.kind = "raised" THEN Threw(r.exception)
  ELSE IF r.certified THEN Printed
  ELSE Structured(IF r.failure = None THEN "unresolved" ELSE r.failure)

\* The except clause of _main, _failure_state and EXIT_CODES.
Handled == {"CorruptArtifactError", "UnresolvedError", "UnsupportedError", "ResourceLimitError",
            "InvalidInputError", "KeyError", "TypeError", "ValueError", "ImportError"}
FailureState(exception) ==
  CASE exception = "CorruptArtifactError" -> "corrupt_artifact"
    [] exception = "UnresolvedError"      -> "unresolved"
    [] exception = "UnsupportedError"     -> "unsupported"
    [] exception = "ResourceLimitError"   -> "resource_limit"
    [] exception = "ImportError"          -> "unsupported"
    [] OTHER                              -> "invalid_input"
\* The mutant takes a damaged artifact for one whose evidence does not suffice.
ExitOfEvidence(state) ==
  CASE state = "invalid_input"  -> 2 [] state = "unsupported"    -> 3 [] state = "unresolved" -> 4
    [] state = "resource_limit" -> 5 [] state = "corrupt_artifact" -> 4
ExitCode(state) ==
  CASE state = "invalid_input"  -> 2 [] state = "unsupported"    -> 3 [] state = "unresolved" -> 4
    [] state = "resource_limit" -> 5 [] state = "corrupt_artifact" -> 6

-----------------------------------------------------------------------------
(* Steps *)

RadiusIdle ==
  intact = TRUE /\ loaded = FALSE /\ held = None /\ changes = 0 /\ request = None /\ result = None
StoreIdle ==
  /\ disk = [d \in Documents |-> "good"] /\ memory = [d \in Documents |-> "none"]
  /\ lookup = Unset /\ calls = 0 /\ todo = <<>> /\ found = Unset
CommandIdle(library) ==
  /\ cpc = library /\ argv = None /\ outcome = None
  /\ stdout = "" /\ stderr = "" /\ exit = None

CommandInit ==
  /\ argv \in Arguments
  /\ argv.command \in TextOnly /\ argv.json # "none" => argv.shape # "good"
  /\ cpc = "start" /\ outcome = None /\ stdout = "" /\ stderr = "" /\ exit = None
  /\ IF argv.command \in RadiusCommands \cup {"walkthrough"} THEN RadiusInit ELSE RadiusIdle
  /\ IF argv.command \in Operations /\ argv.shape = "good" THEN StoreInit ELSE StoreIdle

\* Writing to a pipe nobody reads: main exits with EXIT_BROKEN_PIPE if the write
\* is flushed; what print leaves in the buffer fails after main, in the interpreter.
Finish(out, err, code) ==
  /\ cpc' = "exited" /\ UNCHANGED <<argv, outcome>>
  /\ IF out # "" /\ argv.reader = "gone"
     THEN /\ stdout' = ""
          /\ \/ stderr' = "" /\ exit' = 1
             \/ out \in {"text", "help"} /\ stderr' = "ignored" /\ exit' = 120
     ELSE stdout' = out /\ stderr' = err /\ exit' = code

\* --json is looked for in argv as it stands, abbreviated or not by argparse.
Parse ==
  /\ cpc = "start"
  /\ \/ /\ argv.shape = "good" /\ cpc' = "handling"
        /\ UNCHANGED <<argv, outcome, stdout, stderr, exit>>
     \/ argv.shape = "help" /\ Finish("help", "", 0)
     \/ /\ argv.shape = "wrong"
        /\ IF argv.json = "--json" THEN Finish("error record", "", 2) ELSE Finish("", "usage", 2)
  /\ UNCHANGED <<radiusVars, storeVars>>

HandledAs(o) ==
  /\ cpc' = "handled" /\ outcome' = o /\ UNCHANGED <<argv, stdout, stderr, exit>>
Handling(commands) == cpc = "handling" /\ argv.command \in commands

RunReplay(direction, candidate, limit) ==
  /\ Handling(ReplayCommands)
  /\ argv.command = "radius-attainment" => candidate = None
  /\ Verify(direction, candidate, limit)
  /\ HandledAs(IF argv.command = "radius-audit" /\ request' = None /\ result'.kind = "result"
               THEN Threw("KeyError") ELSE OutcomeOf(result'))
  /\ UNCHANGED storeVars

RunRadius(direction) ==
  /\ Handling({"radius"}) /\ Lookup(direction)
  /\ HandledAs(IF held' # None THEN Printed ELSE OutcomeOf(result'))
  /\ UNCHANGED storeVars

CallArtifact(class, name) ==
  /\ Handling(Operations) /\ lookup = Unset
  /\ (argv.command \in Named => class = Unset) /\ (argv.command \notin Named => name = Unset)
  /\ Call(argv.command, class, name) /\ (argv.command = "proof" => Head(todo') = "supplement")
  /\ UNCHANGED <<commandVars, radiusVars>>
RunArtifact ==
  /\ Handling(Operations) /\ (Read \/ Conclude) /\ UNCHANGED <<commandVars, radiusVars>>

\* _artifact_emit: snapshot_payload takes the versions from the manifest.
Emit ==
  /\ Handling(Operations) /\ found # Unset
  /\ HandledAs(IF found.kind = "raised" THEN Threw(found.exception)
               ELSE IF Unreadable("manifest") # "none" THEN Threw(Unreadable("manifest"))
               ELSE Printed)
  /\ UNCHANGED <<radiusVars, storeVars>>

RunWalkthrough ==
  /\ Handling({"walkthrough"}) /\ Verify(Tour, None, MaxSteps)
  /\ HandledAs(IF result'.kind = "raised" \/ result'.certified THEN OutcomeOf(result')
               ELSE Threw("UnresolvedError"))
  /\ UNCHANGED storeVars

RunOther ==
  /\ Handling(DOMAIN Raises)
  /\ \E exception \in Raises[argv.command] \cup {"none"} :
       HandledAs(IF exception = "none" THEN Printed ELSE Threw(exception))
  /\ UNCHANGED <<radiusVars, storeVars>>

\* The rest of _main; an exception it does not name leaves main with a traceback.
Report ==
  /\ cpc = "handled" /\ UNCHANGED <<radiusVars, storeVars>>
  /\ LET json == argv.json # "none" IN
     \/ outcome = Printed /\ Finish(IF json THEN "record" ELSE "text", "", 0)
     \/ /\ outcome.kind = "structured"
        /\ IF json THEN Finish("failure record", "", ExitCode(outcome.state))
                   ELSE Finish("", "explanation", ExitCode(outcome.state))
     \/ /\ outcome.kind = "threw" /\ outcome.exception \in Handled
        /\ LET code == ExitCode(FailureState(outcome.exception)) IN
           IF json THEN Finish("error record", "", code) ELSE Finish("", "explanation", code)
     \/ outcome.kind = "threw" /\ outcome.exception \notin Handled /\ Finish("", "traceback", 1)

CommandStep ==
  \/ Parse \/ RunArtifact \/ Emit \/ RunWalkthrough \/ RunOther \/ Report
  \/ /\ Handling(ReplayCommands)
     /\ \E row \in Rows, candidate \in Candidates, limit \in StepLimits :
          \/ RunReplay(Directed(row), candidate, limit)
          \/ RunReplay(<<row.target, row.source>>, candidate, limit)
  \/ /\ Handling({"radius"})
     /\ \E row \in Rows : RunRadius(Directed(row)) \/ RunRadius(<<row.target, row.source>>)
  \/ /\ Handling(Operations) /\ lookup = Unset
     /\ \E class \in DOMAIN ClassCoeffs \cup {"unknown", Unset}, name \in DOMAIN Certificates \cup {Unset} :
          CallArtifact(class, name)

\* The library without the command.
LibraryStep ==
  /\ UNCHANGED commandVars
  /\ \/ cpc = "radius" /\ RadiusStep /\ UNCHANGED storeVars
     \/ cpc = "store" /\ StoreStep /\ UNCHANGED radiusVars

-----------------------------------------------------------------------------
(* Properties *)

\* The direction a replay was asked for, the radius that is known for it, and what
\* is put to the test.
Asked == Directed(request.given)
Supported == Asked \in DOMAIN Lanes \cup DOMAIN PaperRadii
Offered ==
  IF request.candidate # None THEN request.candidate
  ELSE IF Asked \in DOMAIN Lanes THEN Lanes[Asked].exact ELSE PaperRadii[Asked]
Established ==
  /\ request # None /\ Asked \in DOMAIN Lanes
  /\ Same(Offered, Lanes[Asked].exact) /\ \A n \in DOMAIN Chain[Asked] : Chain[Asked][n]
TooLong ==
  \/ request.limit > MaxSteps
  \/ Supported /\ (Offered.form = "huge" \/ Len(Chain[Asked]) > request.limit)
  \/ Asked \in DOMAIN Lanes /\ Lanes[Asked].steps > request.limit

\* What each exit code of a replay says has happened.
ReplayCause(code) ==
  LET tour == argv.command = "walkthrough" IN
  CASE code = 0 -> Established
    [] code = 1 -> ~intact
    [] code = 2 -> \/ request = None /\ intact /\ ~tour
                   \/ request # None /\ (request.limit < 1 \/ (~tour /\ Supported /\ ~Parses(Offered)))
    [] code = 3 -> request # None /\ ~Supported /\ ~tour
    [] code = 4 -> ~Established /\ (tour \/ (request # None /\ Supported))
    [] code = 5 -> request # None /\ TooLong
    [] OTHER    -> FALSE
RadiusCause(code) ==
  CASE code = 0 -> held # None
    [] code = 1 -> ~intact
    [] code = 2 -> held = None /\ intact
    [] OTHER    -> FALSE

\* Documents that a lookup refuses, and that it can use.
Spoiled(d) ==
  \/ disk[d] = "missing"
  \/ disk[d] \in {"broken", "schema"} /\ d # "references"
  \/ disk[d] = "overlapping" /\ d = "supplement" /\ lookup.op # "table"
Usable(documents) == \A d \in documents : ~Spoiled(d) /\ disk[d] # "undecodable"
ReadLists == {ToSet(list) : list \in Reads(lookup.op, lookup.class)}
Reached == {"manifest"} \cup UNION ReadLists

\* And each exit code of a lookup.
ArtifactCause(code) ==
  LET known == lookup.name \in DOMAIN Certificates
      certificate == Certificates[lookup.name]
  IN \/ /\ code = 0 /\ \E documents \in ReadLists : Usable(documents \cup {"manifest"})
        /\ lookup.op = "verify" => \A d \in Listed : disk[d] = "good"
        /\ lookup.op = "certificate" => known /\ Replayable(certificate) /\ Consistent(certificate)
     \/ /\ code = 2
        /\ \/ lookup.op = "reconciliation" /\ Usable({"reconciliation"})
           \/ \E d \in Reached : disk[d] = "undecodable"
     \/ /\ code = 3
        /\ \/ lookup.op \in Filtered /\ \E documents \in ReadLists : Usable(documents)
           \/ /\ "classes" \in Reached /\ Usable({"classes"}) /\ lookup.op \notin Named
              /\ lookup.class \notin DOMAIN ClassCoeffs \cup {Unset}
           \/ /\ \E d \in {"bounds", "expansions"} \cap Reached : Usable({d})
              /\ lookup.class \notin Bounded
           \/ /\ lookup.op \in Named /\ Usable({"certificates", "supplement"})
              /\ ~known \/ certificate.functional.family \notin Families
     \/ /\ code = 4 /\ lookup.op = "certificate" /\ known
        /\ Usable({"certificates", "supplement", "classes"})
        /\ \/ certificate.gammas = <<>> \/ Unset \in ToSet(certificate.gammas)
           \/ certificate.candidate.form = "none"
     \/ /\ code = 6
        /\ \/ \E d \in Reached : Spoiled(d)
           \/ lookup.op = "verify" /\ \E d \in Listed : disk[d] # "good"
           \/ lookup.op = "certificate" /\ known /\ Replayable(certificate) /\ ~Consistent(certificate)

\* Of the other commands the model knows only what they end with.
Documented ==
  << {"OSError"}, {"InvalidInputError", "KeyError", "TypeError", "ValueError"},
     {"UnsupportedError", "ImportError"}, {"UnresolvedError"}, {"ResourceLimitError"},
     {"CorruptArtifactError"} >>
OtherCause(code) ==
  IF code = 0 THEN outcome = Printed
  ELSE code \in DOMAIN Documented /\ outcome \in {Threw(exception) : exception \in Documented[code]}

Cause(code) ==
  IF argv.command \in ReplayCommands \cup {"walkthrough"} THEN ReplayCause(code)
  ELSE IF argv.command \in Operations THEN lookup.op = argv.command /\ ArtifactCause(code)
  ELSE IF argv.command = "radius" THEN RadiusCause(code)
  ELSE OtherCause(code)

\* Whoever reads only the exit code is not misled, with --json or without: an
\* answer is printed exactly with 0, and every code a command ends with has the
\* cause that is documented for it.  0 means that what was asked for was
\* established from documents that can be used; 3, that it is outside what the
\* package knows; 4, that the evidence does not suffice; 6, that an artifact is
\* damaged or disagrees with what it claims, so that a damaged one that is needed
\* ends in no other code but 2, and that only if it is no text at all.
\* (docs/RESULT_CONTRACT.md 80-86; cli.py 62-76, 2054-2124).
ExitTellsTruth ==
  cpc = "exited" /\ argv.shape = "good" =>
    /\ exit = 0 <=> stdout \in {"record", "text"}
    /\ Cause(exit) \/ (argv.reader = "gone" /\ exit \in {1, 120})

\* With --json a failure leaves a versioned JSON record on stdout and no traceback
\* (docs/RESULT_CONTRACT.md 88-90).
JsonFailures ==
  cpc = "exited" /\ argv.json = "--json" /\ argv.reader = "open" /\ exit # 0 =>
    stdout \in {"error record", "failure record"} /\ stderr # "traceback"
=============================================================================
