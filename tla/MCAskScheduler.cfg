CONSTANTS
  k1 = k1
  k2 = k2
  k3 = k3
  k4 = k4
  Ask = {k1, k2, k3, k4}
  NumActors = 3
  ActorOf <- ThreeActors
  Typed = {k3}
  InitCap = 1
  Caps = {1, 2}
  REPAIR_ATTEMPTS = 1
  NUDGE_ATTEMPTS = 1
  Metered = {k1, k3}
  NoAsk = NoAsk
SPECIFICATION FairSpec
INVARIANTS ActiveCountsBusy WorkConserving SerialActors TurnsMatchLive JournalMatchesScript EventsTellOneStory
PROPERTIES EveryAskSettles NothingAfterSettled CapRespected ImplementsContract
CHECK_DEADLOCK FALSE
