\* Four fixtures, two scenarios, three steps; fixtures stall, signals come at any moment.
CONSTANTS
  Fixtures <- Names
  Deps <- Needs
  ProcessWide = {"database", "server"}
  Asks <- TwoScenarios
  MaxSignals = 2
SPECIFICATION FairSpec
INVARIANTS ReturnLeavesNothingUp DependencyOutlives SignalTearsDownWhatWasUp
PROPERTIES PassedIsEarned ProcessEnds
\* The process is over.
CHECK_DEADLOCK FALSE
