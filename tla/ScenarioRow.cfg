\* Two scenarios of three lines with hooks of every type; every kind of row,
\* two environments, two claims a Then can break; a command of three processes
\* and one of its own.
SPECIFICATION PartsSpec
CONSTANTS
  Lines = 3
  Befores = 1
  AfterSteps = 1
  Afters = 2
  Scenarios = 2
  MaxExits = 1
  N = 2
  Repeat = 1
  ProofRuns = 2
  Claims = {"c1", "c2"}
  Launches <- TwoLaunches
  MaxProcs <- ThreeAndOne
  Timeouts = {"none"}
  Paths = {"f"}
INVARIANTS
  RecordIsWhole
  RecordIsTrue
  AfterHearsFirstFailure
  ExitCallNeverGreen
  WalkShowsEveryLine
  ControlNeverReds
  TableIsSound
  ProofIsSound
  GreenIsEarned
PROPERTY
  NoStepBesideLateBody
\* The row is judged, and the run is over.
CHECK_DEADLOCK FALSE
