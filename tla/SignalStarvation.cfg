\* The starvation rail against a client that sends two verbs per boundary.
SPECIFICATION Spec
CONSTANTS
  r1 = r1  r2 = r2  r3 = r3  r4 = r4  r5 = r5
  Program <- OneProgram
  Link <- OneLink
  PhaseOnset <- MCPhaseOnset
  OffsetTicks <- MCOffset
  Clearance <- MCClearance
  Light <- MCLight
  RequestId <- Ids
  HoldMax = 3
  HoldRequests = {0}
  MaxBuffered = 2
  MaxTick = 6
INVARIANTS
  StarvationBound
