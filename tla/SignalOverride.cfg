\* One program, up to two verbs per boundary, clearance 2, bound 3.
SPECIFICATION Spec
CONSTANTS
  r1 = r1  r2 = r2  r3 = r3  r4 = r4  r5 = r5
  Program <- OneProgram
  Link <- OneLink
  PhaseOnset <- MCPhaseOnset
  OffsetTicks <- MCOffset
  Clearance <- MCClearance
  Light <- MCLight
  RequestId <- Ids
  HoldMax = 3
  HoldRequests = {0, 1, 2}
  MaxBuffered = 2
  MaxTick = 5
SYMMETRY IdSymmetry
INVARIANTS
  NoSilentFallback
  ChainIsUninterrupted
  LookbackAnswered
  ClearanceFollowsDisplay
  ReplayReproduces
