\* A call may be killed between the create and the write of its answer.
CONSTANTS
  Callers = {c1, c2}
  MaxWalk = 1
  Steps = 1
  Answers = {"next", "stop"}
  CallerDies = TRUE
SPECIFICATION FairSpec
PROPERTIES CallReturns
