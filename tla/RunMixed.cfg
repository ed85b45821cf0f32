\* Two workers, then a serial file, then proof rounds, in one environment.
CONSTANTS
  Pickles <- Mixed
  Serial = {"s"}
  Controls <- MixedControls
  Passes = 1
  Concurrency = 2
  ProofRuns = 2
  MaxSignals = 2
  Crashes = TRUE
  Garbles = TRUE
  EarlyExits = TRUE
  SetupFails = TRUE
SPECIFICATION Spec
INVARIANTS GreenMeansComplete SerialAlone WorldOutlivesWorkers
\* The run is over.
CHECK_DEADLOCK FALSE
