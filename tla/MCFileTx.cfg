\* Two processes on one directory, one of them with two callers.
SPECIFICATION Spec
CONSTANTS
  board = board
  done = done
  note = note
  Stores = {"cli", "web"}
  Workers = {"cli", "web1", "web2"}
  NoWorker = NoWorker
  StoreOf <- TwoStores
  ReadOrder <- Order
  Details = {note}
  Values = {1, 2}
  Absent = Absent
  InitContents <- InitSmall
  RequestsOf <- RequestsSmall
  Plan <- PlanSmall
  Faults = TRUE
  MaxOps = 2
INVARIANTS TypeOK OneAtATime StampsTell
PROPERTIES NoBlindWrite CallsReturn
CHECK_DEADLOCK FALSE
