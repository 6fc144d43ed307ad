CONSTANTS
  g1 = g1
  g2 = g2
  p1 = p1
  Gate <- One
  Player <- OnePlayer
  Server <- ToFirst
  OpenAt <- Ends
  Acts <- AllActs
  Faults <- AllFaults
  Misses = 2
  IdleTime = 2
  HungTime = 1
  StartTime = 2
  StartDelay = 1
  StartFresh = 2
  StopTime = 1
  OtherStopMax = 2
  SlowBoot = TRUE
  MaxTime = 3
  MaxActs = 2
  MaxFaults = 1
SPECIFICATION FairSpec
PROPERTIES RunningIsKnown NoStopUnderPlayers WakesInHours HeldAnswered
