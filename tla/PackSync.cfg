CONSTANTS
  Mod <- Mods
  Jar <- Jars
  JarName <- Named
  Provides <- Providing
  Setting <- Settings
  Pack <- Packs
  OptionsTxt = "options"
  Own = Own
  Absent = Absent
  NoHash = NoHash
  Torn = Torn
  NoArchive = NoArchive
  Tries = 2
  MaxPublish = 2
  MaxChanges = 1
  MaxFaults = 1
  MaxCrashes = 1
SPECIFICATION FairSpec
INVARIANTS InstalledAsPinned NothingStale SettingsFollow
PROPERTIES SettingsKept Resumes
