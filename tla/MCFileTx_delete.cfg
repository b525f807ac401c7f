\* A detail file deleted over a change made since it was read.
SPECIFICATION Spec
CONSTANTS
  board = board
  done = done
  note = note
  Stores = {"cli", "web"}
  Workers = {"cli", "web1", "web2"}
  NoWorker = NoWorker
  StoreOf <- TwoStores
  ReadOrder <- Order
  Details = {note}
  Values = {1, 2}
  Absent = Absent
  InitContents <- InitSmall
  RequestsOf <- RequestsSmall
  Plan <- PlanSmall
  Faults = TRUE
  MaxOps = 2
PROPERTIES NoBlindDelete
CHECK_DEADLOCK FALSE
