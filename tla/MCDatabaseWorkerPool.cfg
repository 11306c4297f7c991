SPECIFICATION Spec
CONSTANTS
  Worker = {w1, w2}
  Sync = {s1}
  NoConn = NoConn
  Kind <- Mixed
  Retries = 2
  MaxIssued = 2
  MaxVictims = 3
  MaxLost = 1
INVARIANTS
  AllOrNothing
  AnswersAreTrue
  GivenUpForAReason
  StoredInOrder
PROPERTIES
  NothingIsStuck
CHECK_DEADLOCK FALSE
