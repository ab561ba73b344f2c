CONSTANTS
  reader = reader
  x = x
  y = y
  run = run
  NoHash = NoHash
  Actor = {reader}
  Hash = {x, y}
  Key = {run}
  Effects = {run}
  Entries <- Left
  InFlight <- LeftOpen
  Recorded <- LeftCalls
  Typed = {x}
  MaxAsks = 2
  MaxCalls = 1
  MaxTurns = 2
  MaxLives = 2
SPECIFICATION MCSpec
INVARIANTS   HonestRows
PROPERTIES NothingStale
CHECK_DEADLOCK FALSE
