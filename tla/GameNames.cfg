CONSTANTS
  f = f
  b = b
  c1 = c1
  n1 = n1
  n2 = n2
  User <- Users
  Founder = f
  Code <- Codes
  NoInvite = NoInvite
  Hold = 1
  OpenLimit = 1
  GroupLimit = 2
  AdminOps = {"remove"}
  MaxRequests = 1
  Reserved <- ReservedNames
  Name <- Names
  NoName = NoName
  NoAccount = NoAccount
  Current = Current
  Free = Free
  Nobody = Nobody
  DiscordName <- Discord
  MaxOpen = 2
SPECIFICATION Spec
INVARIANTS NamesApart ReservedStaysOwners HoldsExplained
PROPERTIES FreeNameIsTaken
