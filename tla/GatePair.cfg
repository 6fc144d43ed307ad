CONSTANTS
  g1 = g1
  g2 = g2
  p1 = p1
  Gate <- Two
  Player <- Nothing
  Server <- ToFirst
  OpenAt <- HandOver
  Acts <- Nothing
  Faults <- AllFaults
  Misses = 2
  IdleTime = 1
  HungTime = 1
  StartTime = 1
  StartDelay = 1
  StartFresh = 2
  StopTime = 1
  OtherStopMax = 2
  SlowBoot = FALSE
  MaxTime = 3
  MaxActs = 0
  MaxFaults = 1
SPECIFICATION FairSpec
PROPERTIES OpensAfterClosing ClosesDown OpensUp
