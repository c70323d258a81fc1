------------------------------- MODULE Evidence -------------------------------
(***************************************************************************)
(* The path of evidence: an operation of verify.py, counterexamples.py,    *)
(* classes.py or the laboratories leaves a result, its caller builds the   *)
(* analysis record of it, and whoever receives the record validates it.    *)
(***************************************************************************)
EXTENDS FunctionVerification, WitnessSearch, ClassScreens, SboxLab, ImageLab

operationVars == <<verifyVars, searchVars, screenVars, labVars, imageVars>>
evidenceVars == <<recordVars, operationVars>>

\* The operations that were not called.
VerifyIdle ==
  /\ function = None /\ property = None /\ tier = None
  /\ vpc = "idle" /\ margin = None /\ enclosure = None /\ earlier = None
SearchIdle ==
  /\ criterion = None /\ coefficients = None /\ hint = None
  /\ spc = "idle" /\ candidates = <<>> /\ best = None
ScreenIdle ==
  /\ screen = None /\ curve = None /\ values = <<>>
  /\ kpc = "idle" /\ tested = 0 /\ inside = 0 /\ total = 0 /\ outsider = None
LabIdle ==
  /\ lpc = "idle" /\ stream = <<>> /\ t = 0 /\ sequence = <<>> /\ box = None
  /\ spectra = <<>> /\ step = 1 /\ metrics = None
ImageIdle ==
  /\ ipc = "idle" /\ image = <<>> /\ other = None
  /\ window = 1 /\ integral = <<>> /\ output = None

\* One operation is called.
Init ==
  /\ RecordInit
  /\ \/ VerifyInit /\ SearchIdle /\ ScreenIdle /\ LabIdle /\ ImageIdle
     \/ VerifyIdle /\ SearchInit /\ ScreenIdle /\ LabIdle /\ ImageIdle
     \/ VerifyIdle /\ SearchIdle /\ ScreenInit /\ LabIdle /\ ImageIdle
     \/ VerifyIdle /\ SearchIdle /\ ScreenIdle /\ LabInit /\ ImageIdle
     \/ VerifyIdle /\ SearchIdle /\ ScreenIdle /\ LabIdle /\ ImageInit

Next ==
  \/ VerifyStep /\ UNCHANGED <<searchVars, screenVars, labVars, imageVars>>
  \/ SearchStep /\ UNCHANGED <<verifyVars, screenVars, labVars, imageVars>>
  \/ ScreenStep /\ UNCHANGED <<verifyVars, searchVars, labVars, imageVars>>
  \/ LabStep /\ UNCHANGED <<verifyVars, searchVars, screenVars, imageVars>>
  \/ ImageStep /\ UNCHANGED <<verifyVars, searchVars, screenVars, labVars>>
  \/ RecordNext /\ UNCHANGED operationVars

Spec == Init /\ [][Next]_evidenceVars

-----------------------------------------------------------------------------
(* Properties *)

\* The record of every operation is one its receiver accepts, whatever the
\* answer was, except that of a symbolic answer whose convexity sum SymPy cannot
\* compare with 1 (verify.py 643-649; contracts.py 1071-1074; records.py 239-250).
RefusedOnlyUndecided ==
  accepted = FALSE => vpc = "done" /\ tier = "symbolic" /\ ~function.alexanderDecided

\* build_screen_record returns valid records and raises RecordError otherwise
\* (its docstring, records.py 139): no record it has built is refused.
BuiltRecordsValid == accepted # FALSE
=============================================================================
