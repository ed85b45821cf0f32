\* Two environments, two proof runs; a worker may end, and a signal come, at any moment.
CONSTANTS
  Pickles <- Small
  Serial = {"s"}
  Controls <- SmallControls
  Passes = 2
  Concurrency = 2
  ProofRuns = 2
  MaxSignals = 1
  Crashes = TRUE
  Garbles = TRUE
  EarlyExits = TRUE
  SetupFails = TRUE
SPECIFICATION FairSpec
INVARIANTS RedMeansCause
PROPERTIES RunEnds
\* The run is over.
CHECK_DEADLOCK FALSE
