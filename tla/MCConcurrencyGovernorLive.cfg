CONSTANTS
  A = A
  B = B
  a1 = a1
  a2 = a2
  b1 = b1
  m1 = m1
  Observer = Observer
  Run = {A, B}
  Req = {a1, a2, b1}
  RunOf <- OwnersOf
  Abortable = {}
  Cooldowns = {0, 3}
  Ceiling = 2
  SUCCESSES = 2
  IDLE = 2
  MaxRetryAfter = 3
SPECIFICATION FairSpec
INVARIANTS NoLostWakeup
PROPERTIES EveryRequestServed
