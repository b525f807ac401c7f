\* Finishing an item whose schedule is paused.
SPECIFICATION TicklerSpec
CONSTANTS
  None = None
  t1 = t1
  t2 = t2
  n1 = n1
  Stages <- StagesSmall
  NeedsReason <- NeedsReasonSmall
  TicklerStages <- WaitingToReady
  MaxId = 4
  Titles = {t1, t2}
  Notes = {n1}
  Schedules <- SchedulesTickler
  AddRequests <- AddDetailed
  Batches = {}
  Updates <- UpdatesDetailed
  Bodies <- BodiesDetailed
  Caps = {}
  Runners = {"cron", "web"}
  MaxDay = 3
INVARIANTS AnyStageFinishes
CHECK_DEADLOCK FALSE
