CONSTANTS
  A = A
  B = B
  a1 = a1
  a2 = a2
  b1 = b1
  m1 = m1
  Observer = Observer
  Run = {A, B}
  Req = {a1, b1, m1}
  RunOf <- OwnersOf
  Abortable = {a1, b1}
  Cooldowns = {0, 3}
  Ceiling = 1
  SUCCESSES = 2
  IDLE = 2
  MaxRetryAfter = 3
SPECIFICATION Spec
INVARIANTS NoLostWakeup
