\* Three starts against two stops; two serves of two ticks; two runs and two saves.
SPECIFICATION ProcessesSpec
CONSTANTS
  demo = demo  rec = rec  auto = auto  stop = stop  final = final  none = none
  Start <- ThreeStarts
  Stop <- TwoStops
  Autostart <- AutoCalls
  Replay <- Recordings
  Final <- FinalCalls
  Stray = FALSE
  Horizon = 2
  MaxServes = 2
  NoTick = NoTick
  FreeFlow <- MCFreeFlow
  RelaxTicks = 3
  EpochTicks = 7
  Margin = 1
  StrandAfter = 4
  HoldTicks = 1
  Clearance = 1
  MaxVehicles = 3
  MaxTick = 8
  Networks = {"osm"}
  TypeTables = {"cars", "trucks"}
  MaxRuns = 2
  MaxSaves = 2
  SaveTicks = {2}
INVARIANTS
  OneEngine FailureLeavesNothing StopWins
  NoTickUnattended OneRunPerRecording FlagsAreHonoured
  RestoreIsExact LoadedWasSaved
CHECK_DEADLOCK FALSE
