\* Two calls at a time against two walks of one step, one after the other.
CONSTANTS
  Callers = {c1, c2}
  MaxWalk = 2
  Steps = 1
  Answers = {"next"}
  CallerDies = FALSE
SPECIFICATION Spec
SYMMETRY CallerSymmetry
PROPERTIES EndReportedOnce
