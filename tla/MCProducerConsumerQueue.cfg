SPECIFICATION Spec
CONSTANTS
  c1 = c1
  c2 = c2
  c3 = c3
  v1 = v1
  v2 = v2
  v3 = v3
  Consumer <- ThreeConsumers
  Value <- ThreeValues
  NoValue = NoValue
INVARIANTS
  NoLostWakeup
PROPERTIES
  HandedOutInOrder
  EveryWaitEnds
