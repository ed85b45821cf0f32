\* One command of three processes: the last may start while the states of
\* the others are read.
CONSTANTS
  MaxSignals = 0
  Launches <- TwoLaunches
  MaxProcs <- ThreeAndOne
  Timeouts = {"none"}
  Paths = {"f"}
SPECIFICATION ProcessesSpec
INVARIANTS EndedIsSure
CHECK_DEADLOCK FALSE
