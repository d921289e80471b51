\* Two vehicles, two controllers of every kind, seven ticks: a controller that
\* falls silent is swept, and what it drove is claimed and driven again.
SPECIFICATION Spec
CONSTANTS
  v1 = v1  v2 = v2
  Vehicle <- TwoVehicles
  HelloRequests <- Mixed
  DetachAfter = 3
  HoldLast = 1
  PauseAfter = 1
  Paced = TRUE
  MaxAttach = 2
  MaxArrivals = 2
  MaxTick = 7
SYMMETRY VehicleSymmetry
INVARIANTS
  OnlyOwnersCommand
  BridgeGuaranteed
PROPERTIES
  AnnouncedOnce
  SweptOnlyIfSilent
  ImplementsLease
