SPECIFICATION RequestsSpec
CONSTANTS
  Missing = Missing
  Broken = Broken
  Requests = {a, b}
  Asks <- AllAsks
  Edits <- AllEdits
  LibraryIds = {"default", "lite", "mine", "My Theme"}
  ValidIds = {"default", "lite", "mine"}
  MaxEdits = 1
  None = None
  Alpha = Alpha
  Beta = Beta
  Gamma = Gamma
  Projects = {Alpha, Beta}
  Reach <- ReachOne
  Explicit = {Beta}
  Listed = {Alpha}
  MaxConfig = 1
  MaxMoves = 1
  People = {p1, p2}
  Stages = {"someday", "later", "blocked"}
  WakeTo <- WakesOnce
  NeedsReason = {"blocked"}
  Prios = {"med", "high"}
  Texts = {"a"}
  MaxWrites = 2
SYMMETRY Symmetry
INVARIANTS NoFalseNotFound ThemeResolves
PROPERTIES EditorSaves EditKeepsTheRest OldEntriesSurvive
CHECK_DEADLOCK FALSE
