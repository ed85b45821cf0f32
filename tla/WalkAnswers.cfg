\* Two calls at a time, any call at any moment, one killed at any moment of its answer; one walk of two steps.
CONSTANTS
  Callers = {c1, c2}
  MaxWalk = 1
  Steps = 2
  Answers = {"next", "stop"}
  CallerDies = TRUE
SPECIFICATION Spec
SYMMETRY CallerSymmetry
INVARIANTS NoAnswerAhead AppliedIsTheFile StopIsLast
PROPERTIES ReportMeansApplied
