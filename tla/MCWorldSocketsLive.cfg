SPECIFICATION Spec
CONSTANTS
  realm = realm
  instance1 = instance1
  NoSocket = NoSocket
  Thread = {t1}
  Realm = {realm}
  Instance = {}
  SessionOf <- RealmAlone
  MaxPackets = 4
PROPERTIES
  SocketsAreServed
CHECK_DEADLOCK FALSE
