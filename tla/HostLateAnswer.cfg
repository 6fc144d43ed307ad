CONSTANTS
  Session <- Agents
  Content <- Worlds
  Policies <- NoTargets
  SwitchTargets <- PC
  NoSession = NoSession
  NoNode = NoNode
  NoSnapshot = NoSnapshot
  LeaseTime = 3
  ReleaseAge = 1
  MinFailure = 1
  MaxFailure = 1
  MaxAge = 2
  MaxEpoch = 3
  MaxRevision = 2
  AnswerTime = 1
  AuthTime = 1
  PortTime = 1
  AnswerLoss = FALSE
  MaxEdits = 1
  MaxFaults = 0
  ManualSaves = TRUE
SPECIFICATION Spec
INVARIANT ExclusiveService
