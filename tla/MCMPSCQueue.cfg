SPECIFICATION QueueSpec
CONSTANTS
  Producer = {p1, p2}
  Node = {n1, n2, n3, n4}
  Value = {a, b}
  NoNode = NoNode
  NoValue = NoValue
INVARIANTS
  NoUseAfterDelete
  NothingIsLost
PROPERTIES
  IsFifo
  EveryValueArrives
