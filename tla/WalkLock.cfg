\* Two pids, used again by later processes, each killed at any moment.
CONSTANTS
  Procs = {p1, p2}
  Released = released
  NoOne = nobody
  PidReuse = TRUE
  Attempts = 3
  MaxWalk = 3
SPECIFICATION FairSpec
INVARIANTS HolderIsAlone
PROPERTIES FreshNumber ImplementsMutex DeadHolderTakenOver
