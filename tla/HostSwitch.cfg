CONSTANTS
  Session <- Agents
  Content <- Worlds
  Policies <- Recovery
  SwitchTargets <- PC
  NoSession = NoSession
  NoNode = NoNode
  NoSnapshot = NoSnapshot
  LeaseTime = 2
  ReleaseAge = 1
  MinFailure = 1
  MaxFailure = 1
  MaxAge = 1
  MaxEpoch = 3
  MaxRevision = 2
  AnswerTime = 0
  AuthTime = 1
  PortTime = 1
  AnswerLoss = TRUE
  MaxEdits = 2
  MaxFaults = 1
  ManualSaves = FALSE
SPECIFICATION Spec
PROPERTIES StartsFromLine ReleaseAfterStop
