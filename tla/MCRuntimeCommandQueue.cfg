SPECIFICATION MCSpec
CONSTANTS
  p1 = p1
  q1 = q1
  k1 = k1
  g1 = g1
  n1 = n1
  n2 = n2
  c1 = c1
  NoCmd = NoCmd
  Prompt <- OnePrompt
  Promoted <- ThreePromoted
  Compact <- OneCompact
  Goal <- OneGoal
  Note <- TwoNotes
  Message = {}
  Control <- OneControl
INVARIANTS SlotIsOwned PendingHasDrainer
PROPERTIES LeaseIsRespected ControlBarsAbsorption ComesToRest
CHECK_DEADLOCK FALSE
