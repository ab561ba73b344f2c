CONSTANTS
  A = A
  B = B
  a1 = a1
  a2 = a2
  b1 = b1
  m1 = m1
  Observer = Observer
  Run = {A, B}
  Req = {a1, a2, b1, m1}
  RunOf <- OwnersOf
  Abortable = {}
  Cooldowns = {0}
  Ceiling = 1
  SUCCESSES = 1
  IDLE = 2
  MaxRetryAfter = 1
SPECIFICATION FairSpec
PROPERTIES EveryRequestServed
