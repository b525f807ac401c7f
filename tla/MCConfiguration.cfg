SPECIFICATION ConfigurationSpec
CONSTANTS
  Dirs <- Directories
  Worlds <- Trees
  Options <- ScanOptions
  home = home
  code = code
  deep = deep
  one = one
  two = two
  Requests = {r1, r2}
  Asks <- AllAsks
  Default <- Defaults
  InitialSys <- File
  MaxCount = 3
  MaxLoops = 3
INVARIANTS SavesApply ScanIsComplete
PROPERTIES FormKeepsTheRest ServiceSettles
CHECK_DEADLOCK FALSE
