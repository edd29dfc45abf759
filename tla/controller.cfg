SPECIFICATION FairSpec
CONSTANTS
  Devices = {d1, d2}
  Ops = {o1, o2}
  Attempts = 2
  MaxMoves = 1
  None = None
\* Every operation ends.
CHECK_DEADLOCK FALSE
INVARIANTS
  TypeOK
  SuccessWasApplied
  OnlyAllowedCommandsAct
PROPERTIES
  EveryStepCounts
  EveryOperationEnds
