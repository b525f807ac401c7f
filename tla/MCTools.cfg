SPECIFICATION ToolsSpec
CONSTANTS
  Expressions <- Evaluated
  Births <- BirthsSmall
  Span = 14
  None = None
  n1 = n1
  n2 = n2
  n3 = n3
  n4 = n4
  CardIds = {1, 2, 3, 4, 5, 6}
  Slots = {1, 2, 3}
  Notes <- AllNotes
  InitDisks <- Directories
  MaxByHand = 1
  Branches = {"ours", "theirs"}
  MaxAdds = 2
  MaxDay = 2
INVARIANTS LeastIsNext SeriesAddUp MissingIsSaid WritesAreMeant NothingDropped FixRepairs
PROPERTIES RunSettles RunsHeal RestStays
CHECK_DEADLOCK FALSE
