CONSTANTS
  b1 = b1
  b2 = b2
  b3 = b3
  own = own
  other = other
  shared = shared
  worker = worker
  reviewer = reviewer
  Branches <- Started
  Plan <- Fork
  MaxLives = 3
  LiveAfterReplay = TRUE
  StopIsLast = FALSE
  Torn = FALSE
SPECIFICATION Spec
INVARIANTS ReplayFaithful
CHECK_DEADLOCK FALSE
