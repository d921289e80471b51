\* Three ticks recorded, a keyframe of two chunks every other tick, one loss, one read
\* fault; four ticks measured.
SPECIFICATION RecordsSpec
CONSTANTS
  Parts = {"recording", "metrics"}
  Ticks = 3
  StartTicks = {0, 1}
  InputLists <- MCInputs
  KeyframeEvery = 2
  ChunkCount = 2
  Foreign = {"key"}
  PauseTicks = {1}
  MaxLost = 1
  Batch = 4
  MaxRequests = 2
  MaxFaults = 1
  LaneOrder <- MCLaneOrder
  LaneLen <- MCLaneLen
  LaneNext <- MCLaneNext
  ExitLanes = {"out", "beside", "side"}
  OriginLanes = {"in"}
  Sideways <- MCSideways
  Route <- MCRoute
  Gardens <- MCGardens
  Moves = {0, 2, 3}
  Sets <- MCSets
  MaxCrossDepth = 4
  MaxTick = 4
  MaxId = 2
INVARIANTS
  AcknowledgedIsRecorded AuditReproduces PlaybackIsTheRun DoneHoldsAtEnd
  LoudOrExact IntervalsAddUp
CHECK_DEADLOCK FALSE
