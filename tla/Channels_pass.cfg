SPECIFICATION MCFairSpec
CONSTANTS
  Capacity = 4
  Word = 16
  InitialValue = 14
  MaxLookahead = 4096
  Values = {v1, v2}
  NoValue = NoValue
  Executors = {1, 2, 3, 4}
  NrPeers = 3
  Shards = {1, 2}
  ChannelSize = 1
  MaxMessages = 3
INVARIANTS SlotOwnership RefusesOnlyWhenFull RoomIsKept
PROPERTIES ImplementsFifo DropFrees EveryoneJoins ShardsClose
CHECK_DEADLOCK FALSE
