\* Two vehicles, two controllers of every kind; four ticks are enough for the pause
\* gate to close, give way and close again.  A demo and a recording against two
\* stops; no deadline ever has to pass.  No intent arrives: the gate reads none.
SPECIFICATION LiveSpec
CONSTANTS
  v1 = v1  v2 = v2
  Vehicle <- TwoVehicles
  HelloRequests <- Mixed
  DetachAfter = 3
  HoldLast = 1
  PauseAfter = 1
  Paced = TRUE
  MaxAttach = 2
  MaxArrivals = 0
  MaxTick = 4
  Start = {demo, rec}
  Stop = {stop, final}
  Autostart = {}
  Replay = {rec}
  Final = {final}
  Stray = FALSE
  none = none
PROPERTIES
  RunGetsItsTicks
  EveryStopReturns
