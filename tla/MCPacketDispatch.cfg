SPECIFICATION Spec
CONSTANTS
  c1 = c1
  c2 = c2
  NoOne = NoOne
  home = home
  away = away
  dungeon = dungeon
  Character = {c1, c2}
  Map = {home, away, dungeon}
  Home = home
  Dungeon = {dungeon}
  Cosmetic <- MCCosmetic
  MaxProcessed = 1
  MaxPackets = 2
  MaxLogins = 2
  MaxTeleports = 2
INVARIANTS
  PacketsStayWithTheirCharacter
  GamePacketsInOrder
  TransfersCanFinish
PROPERTIES
  PacketsAreTaken
CHECK_DEADLOCK FALSE
