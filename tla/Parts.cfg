SPECIFICATION PartsSpec
CONSTANTS
  Vocabulary <- ThreeSteps
  Required <- Needed
  From <- Producers
  Results <- Returned
  Pickles <- UpToThree
  Width <- ThreeChars
  Texts <- UpToFour
  MaxRuns = 3
  Keep = 1
  MaxKills = 1
  MaxSilent = 1
  MaxCleans = 1
  Files = {"a", "b", "s", "t"}
  SerialFiles = {"s", "t"}
  Concurrency = 2
  ProofRuns = 3
  Passes = 2
  Programs <- SixPrograms
  Selections <- Claims
  Marked = {"visits"}
  MaxDamaged = 1
INVARIANTS
  GuardIsExact
  LinesAsWritten
  TreesGoLast
  RoundsEnd
  ReadingStands
PROPERTY
  LossesAreDue
CHECK_DEADLOCK FALSE
