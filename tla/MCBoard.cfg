\* Items ranked, moved, capped and closed; items with titles and detail files;
\* schedules under two tick runs that overlap, over three days.
SPECIFICATION BoardSpec
CONSTANTS
  None = None
  t1 = t1
  t2 = t2
  n1 = n1
  Stages <- StagesSmall
  NeedsReason <- NeedsReasonSmall
  TicklerStages <- WaitingToReady
  MaxId = 4
  Titles = {t1, t2}
  Notes = {n1}
  Schedules <- SchedulesTickler
  AddRequests <- AddDetailed
  Batches = {}
  Updates <- UpdatesDetailed
  Bodies <- BodiesDetailed
  Caps = {}
  Runners = {"cron", "web"}
  MaxDay = 3
INVARIANTS ItemsAccounted ChecksClean FiresAdvance
PROPERTIES IdsRetired OneItemMoves CapsHeld NotesKept EarnedFires RunsEnd
CHECK_DEADLOCK FALSE
