SPECIFICATION Spec
CONSTANTS
  i1 = i1
  raid = raid
  dungeon = dungeon
  Id = {i1}
  NoId = NoId
  Map = {raid, dungeon}
  Global = {raid}
  RaidOrHeroic = {raid}
  RaidDuration <- DurationOfRaid
  ResetTimeHour = 1
  ResetTimeDelay <- Delays
  Minute = 1
  Hour = 4
  Day = 6
  LastTime = 23
  MaxPending = 2
  NoSave = NoSave
  NoRow = NoRow
INVARIANTS
  ResetsAreScheduled
  EmptyInstancesAreScheduled
  MemoryMatchesTables
  LockoutsExpire
CHECK_DEADLOCK FALSE
