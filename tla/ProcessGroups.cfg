\* Commands, a server with a child of its own, and up to two signals; two
\* commands of a step, one of two processes.
CONSTANTS
  MaxSignals = 2
  Launches <- TwoLaunches
  MaxProcs <- TwoAndOne
  Timeouts = {"none", "set"}
  Paths = {}
SPECIFICATION ProcessesSpec
INVARIANTS GroupsEnd GraceGiven
PROPERTIES EverythingEnds CommandsSettle
\* nukadoko exits.
CHECK_DEADLOCK FALSE
