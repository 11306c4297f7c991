SPECIFICATION IdsSpec
CONSTANTS
  Worker = {w1}
  MaxId = 4
  InstanceTable <- Tables
INVARIANTS
  NoIdHasTwoOwners
  
