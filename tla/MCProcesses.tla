------------------------------ MODULE MCProcesses ------------------------------
(***************************************************************************)
(* The two owners of process groups, each alone in a behaviour of its own: *)
(* the program's world (ProgramWorld) and a step's commands (StepCommands).*)
(***************************************************************************)
EXTENDS ProgramWorld, StepCommands, TLC

VARIABLE owner   \* the one this behaviour is of

allVars == <<owner, vars, commandVars>>

\* A command that starts another process, and one that starts none.
TwoLaunches == {"first", "second"}
TwoAndOne == ("first" :> 2) @@ ("second" :> 1)

\* A command that starts two more.
ThreeAndOne == ("first" :> 3) @@ ("second" :> 1)

\* nukadoko has exited, and owes the world nothing.
WorldIsOver ==
  /\ at = "stopped" /\ ready = "over" /\ setup = "over" /\ stop = "done" /\ handler = "none"
  /\ members = [g \in Groups |-> {}] /\ exit = [g \in Groups |-> "zero"] /\ listed = {}
  /\ cmd = Idle /\ signals = 0
  /\ late = FALSE /\ seen = TRUE /\ waited = FALSE /\ hurried = FALSE
  /\ grace = [g \in Groups |-> "none"]
  /\ aborted = FALSE /\ over = TRUE

ProcessesInit ==
  /\ owner \in {"world", "commands"}
  /\ IF owner = "world" THEN Init ELSE WorldIsOver
  /\ CommandsInit

ProcessesNext ==
  /\ UNCHANGED owner
  /\ \/ owner = "world" /\ Next /\ UNCHANGED commandVars
     \/ owner = "commands" /\ CommandsNext /\ UNCHANGED vars

\* No command was launched where the world has the behaviour.
ProcessesSpec == ProcessesInit /\ [][ProcessesNext]_allVars /\ CommandsFair /\ WorldFair
=============================================================================
