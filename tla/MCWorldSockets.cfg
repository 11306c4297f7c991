SPECIFICATION Spec
CONSTANTS
  realm = realm
  instance1 = instance1
  NoSocket = NoSocket
  Thread = {t1}
  Realm = {realm}
  Instance = {instance1}
  SessionOf <- RealmAndInstance
  MaxPackets = 4
INVARIANTS
  SentInOrder
  
  OneReadAtATime
CHECK_DEADLOCK FALSE
