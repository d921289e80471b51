\* Two driver replicas, one signal controller, two demand directors.
SPECIFICATION AgentsSpec
CONSTANTS
  Drivers = {1, 2}
  Fleet = {1, 2}
  Sources = {"snap"}
  Capacity = 2
  Destination = NoRoute
  RouteBudget = 1
  Successors <- MCSuccessors
  Entry = 1
  ExitLanes = {3, 4}
  Draws <- MCDraws
  HoldWindow = 1
  Populations <- MCPopulations
  MaxQueue = 1
  MaxDrives = 4
  MaxFaults = 1
  NoOne = NoOne
  NoRoute = NoRoute
  Gone = Gone
  Program <- MCProgram
  Link <- MCLink
  PhaseOnset <- MCPhaseOnset
  OffsetTicks <- MCOffset
  Clearance <- MCClearance
  Light <- MCLight
  RequestId <- MCRequestId
  HoldMax = 8
  HoldRequests = {}
  MaxBuffered = 2
  MaxTick = 18
  J = "J"
  CadenceTicks = 1
  HoldTicks = 5
  RenewBelow = 3
  MinGreenTicks = 2
  SwitchMinQueue = 1
  MaxGreenOnCallTicks = 3
  MaxCount = 1
  Chunk = 2
  MaxTables = 2
  MaxLate = 0
  Director = {first, second}
  Arrivals <- MCArrivals
  Bad = {"ghost"}
  Lead = 2
  Hold = 1
  DensityCap = 1
  LastTick = 5
INVARIANTS
  RoutedIsTrue
  PredictionIsExact WalksInOrder
  AccountedFor RestartMakesGood
PROPERTY OneDestination
CHECK_DEADLOCK FALSE
