CONSTANTS
  a = a
  b = b
  f1 = f1
  f2 = f2
  User <- Accounts
  Nobody = Nobody
  Flow <- Logins
  NoFlow = NoFlow
  Check <- Checks
  MaxRestarts = 1
SPECIFICATION Spec
INVARIANTS LoginEnds OwnAccess
