\* One process that writes and may crash, one that reads.
SPECIFICATION Spec
CONSTANTS
  None = None
  t1 = t1
  t2 = t2
  n1 = n1
  Stages <- StagesSmall
  NeedsReason <- NoReasons
  TicklerStages <- NoTicklers
  MaxId = 4
  Titles = {t1, t2}
  Notes = {n1}
  Schedules = {}
  Stores = {"writer", "reader"}
  Workers = {"writer", "reader"}
  NoWorker = NoWorker
  StoreOf <- OwnStores
  RequestsOf <- RequestsSmall
  InitDirs <- InitSmall
  Faults = TRUE
  MaxOps = 2
INVARIANTS TornIsLoud LoadMissesNothing DuplicateHeals
PROPERTIES TransactionsAtomic ItemsKept
CHECK_DEADLOCK FALSE
