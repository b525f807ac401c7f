\* A pause into a full stage.
SPECIFICATION RankedSpec
CONSTANTS
  None = None
  t1 = t1
  t2 = t2
  n1 = n1
  Stages <- StagesSmall
  NeedsReason <- NeedsReasonSmall
  TicklerStages <- WaitingToReady
  MaxId = 4
  Titles = {t1, t2}
  Notes = {n1}
  Schedules <- SchedulesTickler
  AddRequests <- AddDetailed
  Batches = {}
  Updates <- UpdatesDetailed
  Bodies <- BodiesDetailed
  Caps = {}
  Runners = {"cron", "web"}
  MaxDay = 3
PROPERTIES PauseKeepsCaps
CHECK_DEADLOCK FALSE
