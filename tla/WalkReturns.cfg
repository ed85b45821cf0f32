\* Two calls at a time, none killed while it writes its answer, one walk.
CONSTANTS
  Callers = {c1, c2}
  MaxWalk = 1
  Steps = 1
  Answers = {"next", "stop"}
  CallerDies = FALSE
SPECIFICATION FairSpec
PROPERTIES CallReturns
