CONSTANTS
  b1 = b1
  b2 = b2
  b3 = b3
  own = own
  other = other
  shared = shared
  worker = worker
  reviewer = reviewer
  Branches <- Started
  Plan <- Fork
  MaxLives = 3
  LiveAfterReplay = FALSE
  StopIsLast = FALSE
  Torn = TRUE
SPECIFICATION FairSpec
INVARIANTS TypeOK FaithfulWhileKept TranscriptIsPrefix
PROPERTIES OneStory Terminates
CHECK_DEADLOCK FALSE
