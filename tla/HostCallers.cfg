CONSTANTS
  v1 = v1
  p1 = p1
  p2 = p2
  a1 = a1
  a2 = a2
  Session <- Sessions
  Home <- SessionHome
  Administrator <- TwoAdmins
  Content <- OneContent
  Policies <- SomePolicies
  NoSession = NoSession
  NoNode = NoNode
  NoSnapshot = NoSnapshot
  LeaseTime = 3
  ReleaseAge = 1
  MinFailure = 1
  MaxFailure = 2
  MaxAge = 2
  MaxEpoch = 5
  MaxRevision = 3
SPECIFICATION CallersSpec
INVARIANTS GrantsExclude CurrentCopyIsOwners
PROPERTIES EpochFences TakeoverBounded NoLostPolicy
SYMMETRY SessionSymmetry
