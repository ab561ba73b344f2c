CONSTANTS
  k1 = k1
  k2 = k2
  k3 = k3
  Ask = {k1, k2, k3}
  NumActors = 3
  ActorOf <- OneEach
  Typed = {k3}
  InitCap = 3
  Caps = {1, 2, 3}
  REPAIR_ATTEMPTS = 1
  NUDGE_ATTEMPTS = 1
  Metered = {k1}
  NoAsk = NoAsk
SPECIFICATION GatedFairSpec
INVARIANTS SeatsMatchAsks ParkedMeansFull NobodyOvertakes CapBitesAtNextRequest
PROPERTIES EveryAskSettles
CHECK_DEADLOCK FALSE
