\* One seek and one read fault.
SPECIFICATION RecordsSpec
CONSTANTS
  Parts = {"recording"}
  Ticks = 3
  StartTicks = {0, 1}
  InputLists <- MCInputs
  KeyframeEvery = 2
  ChunkCount = 2
  Foreign = {"key"}
  PauseTicks = {1}
  MaxLost = 1
  Batch = 4
  MaxRequests = 1
  MaxFaults = 1
  LaneOrder <- MCLaneOrder
  LaneLen <- MCLaneLen
  LaneNext <- MCLaneNext
  ExitLanes = {"out", "beside", "side"}
  OriginLanes = {"in"}
  Sideways <- MCSideways
  Route <- MCRoute
  Gardens <- MCGardens
  Moves = {0, 2, 3}
  Sets <- MCSets
  MaxCrossDepth = 4
  MaxTick = 4
  MaxId = 2
INVARIANT NoUncontrolledTick
CHECK_DEADLOCK FALSE
