CONSTANTS
  A = A
  B = B
  a1 = a1
  a2 = a2
  b1 = b1
  m1 = m1
  Observer = Observer
  Run = {A, B}
  Req = {a1, a2, b1, m1}
  RunOf <- OwnersOf
  Abortable = {a1, a2, b1}
  Cooldowns = {0, 2}
  Ceiling = 3
  SUCCESSES = 2
  IDLE = 2
  MaxRetryAfter = 2
SPECIFICATION Spec
INVARIANTS CapSound CountsExact QueuesMatchWaiting
PROPERTIES OneCutPerEpoch GateRespected
