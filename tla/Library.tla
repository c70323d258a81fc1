-------------------------------- MODULE Library --------------------------------
(***************************************************************************)
(* What the library hands out: structured results and their contract, the  *)
(* radius registry, the packaged artifacts, and the command over them.     *)
(***************************************************************************)
EXTENDS ExpressionDag, ResultContract, CommandLine

DagIdle ==
  /\ dag = Nothing /\ dpc = "idle"
  /\ stack = <<>> /\ root = 0 /\ finished = {} /\ decoded = <<>>
ContractIdle ==
  rpc = "idle" /\ question = Nothing /\ answer = Nothing /\ payload = Nothing /\ edits = 0
CliIdle == CommandIdle("none") /\ RadiusIdle /\ StoreIdle

\* One use of the library, or one run of the command.
Init ==
  \/ DagInit /\ ContractIdle /\ CliIdle
  \/ DagIdle /\ ContractInit /\ CliIdle
  \/ DagIdle /\ ContractIdle /\ CommandIdle("radius") /\ RadiusInit /\ StoreIdle
  \/ DagIdle /\ ContractIdle /\ CommandIdle("store") /\ RadiusIdle /\ StoreInit
  \/ DagIdle /\ ContractIdle /\ CommandInit
Next ==
  \/ dpc # "idle" /\ DagStep /\ UNCHANGED <<contractVars, cliVars>>
  \/ rpc # "idle" /\ ContractStep /\ UNCHANGED <<dagVars, cliVars>>
  \/ cpc # "none" /\ (LibraryStep \/ CommandStep) /\ UNCHANGED <<dagVars, contractVars>>

Spec == Init /\ [][Next]_<<dagVars, contractVars, cliVars>>
=============================================================================
