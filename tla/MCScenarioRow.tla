----------------------------- MODULE MCScenarioRow -----------------------------
(***************************************************************************)
(* What one process of a run does with a scenario (Scenario), what a       *)
(* step's record says of the commands it ran (StepCommands), and what the  *)
(* run makes of a criterion's executions (Verdict), each alone in a        *)
(* behaviour of its own.                                                   *)
(***************************************************************************)
EXTENDS Scenario, Verdict, StepCommands, TLC

VARIABLE part  \* the one this behaviour is of

\* The row that stands still while scenarios run.
PlainRow ==
  [base |-> FALSE, change |-> "new", held |-> FALSE, underneath |-> FALSE, then |-> "nothing",
   role |-> [e \in Envs |-> "required"], oldRequired |-> {}]

\* A command of three processes, and one of its own.
TwoLaunches == {"first", "second"}
ThreeAndOne == ("first" :> 3) @@ ("second" :> 1)

PartsInit ==
  /\ part \in {"scenario", "row", "commands"}
  /\ Init /\ (part = "row" \/ row = PlainRow)
  /\ ScenarioInit /\ (part = "scenario" \/ ~walked)
  /\ CommandsInit

PartsNext ==
  /\ UNCHANGED part
  /\ \/ part = "scenario" /\ ScenarioNext /\ UNCHANGED <<vars, commandVars>>
     \/ part = "row" /\ Next /\ UNCHANGED <<scenarioVars, commandVars>>
     \/ part = "commands" /\ CommandsNext /\ UNCHANGED <<vars, scenarioVars>>

PartsSpec == PartsInit /\ [][PartsNext]_<<part, vars, scenarioVars, commandVars>>
=============================================================================
