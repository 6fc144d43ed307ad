CONSTANTS
  f = f
  b = b
  c1 = c1
  s1 = s1
  s2 = s2
  User <- Users
  Founder = f
  Code <- Codes
  NoInvite = NoInvite
  Hold = 1
  OpenLimit = 1
  GroupLimit = 2
  AdminOps <- Ops
  MaxRequests = 2
  Everyone = Everyone
  Nobody = Nobody
  Idle = Idle
  MaxNotices = 2
  MaxSignIns = 2
  Server <- Servers
  Nowhere = Nowhere
  KeepNotices = 1
  MaxFaults = 1
  MaxMoves = 1
  Seats <- Played
SPECIFICATION FairSpec
INVARIANTS OpenInvitesHaveMembers AdminRemains ScreensMine OncePerServer

PROPERTIES Announced
