SPECIFICATION Spec
CONSTANTS
  continent = continent
  dungeon = dungeon
  run1 = run1
  run2 = run2
  Worker = {w1, w2}
  BaseMap <- TheBaseMaps
  Instance <- TheInstances
  Parent <- TheParents
  NoMap = NoMap
INVARIANTS
  PendingExact
  WorldAlone
  RequestsAreValid
  EveryMapHadItsTurn
PROPERTIES
  QueueIsUsedWell
  WorldIsNeverStuck
CHECK_DEADLOCK FALSE
