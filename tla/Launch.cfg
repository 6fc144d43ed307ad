CONSTANTS
  Entry <- Folders
  MaxMoves = 1
  MaxMishaps = 2
  MaxRuns = 2
  MaxSessions = 2
  MaxFailures = 1
  NoRun = NoRun
SPECIFICATION FairSpec
INVARIANTS OneRunWrites NoTokenLeft NothingLost AllOrNothing
PROPERTIES LaunchEnds
CHECK_DEADLOCK FALSE
