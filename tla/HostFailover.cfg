CONSTANTS
  Session <- Agents
  Content <- Worlds
  Policies <- Recovery
  SwitchTargets <- NoTargets
  NoSession = NoSession
  NoNode = NoNode
  NoSnapshot = NoSnapshot
  LeaseTime = 3
  ReleaseAge = 1
  MinFailure = 1
  MaxFailure = 1
  MaxAge = 2
  MaxEpoch = 3
  MaxRevision = 2
  AnswerTime = 1
  AuthTime = 1
  PortTime = 1
  AnswerLoss = TRUE
  MaxEdits = 1
  MaxFaults = 1
  ManualSaves = TRUE
SPECIFICATION Spec
INVARIANTS ExclusiveService GrantsBacked
