CONSTANTS
  Version <- Builds
  File <- Files
  Absent = Absent
  Build <- Contents
  Offer <- Channels
  NoManifest = NoManifest
  NoCheck = NoCheck
  NotStaged = NotStaged
  MaxHelpers = 2
  MaxChecks = 2
  MaxTorn = 0
  MaxFlips = 2
  MaxFaults = 2
SPECIFICATION FairSpec
INVARIANT ReadyWaits
PROPERTIES UpdatesAtomically ComesBack
