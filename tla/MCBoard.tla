------------------------------- MODULE MCBoard -------------------------------
(***************************************************************************)
(* Small instances of Board.                                               *)
(*   MCBoard.cfg          three items ranked, moved, capped and closed;    *)
(*                        two items with titles, reasons and detail files; *)
(*                        two items with schedules, two overlapping runs   *)
(*   MCBoard_pausecap.cfg, MCBoard_finishpaused.cfg                        *)
(*                        what the documents say and the code does not do  *)
(***************************************************************************)
EXTENDS Board

CONSTANTS t1, t2, n1

VARIABLE part  \* "ranked", "detailed" or "tickler"

Request(title, stage, reason, top, body) ==
  [title |-> title, stage |-> stage, reason |-> reason, top |-> top, body |-> body,
   tickler |-> None, dest |-> None, paused |-> FALSE]

Set(field, value) == [field |-> field, value |-> value]

\* --- stages ---------------------------------------------------------------
StagesSmall      == <<"ready", "working", "waiting">>
NeedsReasonSmall == <<"waiting">>
NoTicklers       == [s \in {} |-> "ready"]
WaitingToReady   == [s \in {"waiting"} |-> "ready"]

AddRanked     == {Request(t1, None, FALSE, FALSE, {}), Request(t1, "working", FALSE, TRUE, {})}
BatchesRanked == {<<Request(t1, "ready", FALSE, TRUE, {}), Request(t1, None, TRUE, TRUE, {}),
                    Request(t1, "ready", FALSE, TRUE, {})>>}
CapsRanked    == {"working", "ready"} \X {0, 1}

\* --- details --------------------------------------------------------------
AddDetailed == {Request(t1, None, FALSE, FALSE, {}), Request(t1, None, TRUE, FALSE, {n1})}
UpdatesDetailed == {Set("title", t2), Set("reason", FALSE), Set("started", FALSE),
                    Set("detail", TRUE), Set("detail", FALSE)}
BodiesDetailed  == {{}, {n1}}

\* The constants of the runs are those of the details, with schedules.
\* Items are ranked without detail files but those of a reason, and with caps;
\* neither part has schedules.
Ranked == INSTANCE Board WITH
  TicklerStages <- NoTicklers, Schedules <- {}, Runners <- {}, MaxDay <- 1,
  Titles <- {t1}, Notes <- {}, AddRequests <- AddRanked, Batches <- BatchesRanked,
  Updates <- {}, Bodies <- {}, Caps <- CapsRanked

Detailed == INSTANCE Board WITH
  TicklerStages <- NoTicklers, Schedules <- {}, Runners <- {}, MaxDay <- 1

\* --- ticklers -------------------------------------------------------------
Daily == [oneShot |-> FALSE, days |-> 1..MaxDay]
Once  == [oneShot |-> TRUE,  days |-> {2}]
SchedulesTickler == {Daily, Once}

Scheduled(schedule, paused) ==
  [Request(t1, "waiting", TRUE, FALSE, {}) EXCEPT !.tickler = schedule, !.paused = paused]

CapsTickler == {<<"ready", 1>>}
AddTickler == {Scheduled(Daily, FALSE), Scheduled(Once, TRUE)}
UpdatesTickler == {Set("paused", TRUE), Set("paused", FALSE), Set("created", 0)}

Tickler == INSTANCE Board WITH
  AddRequests <- AddTickler, Updates <- UpdatesTickler, Caps <- CapsTickler

OnSchedule(id) == dir.board.item[id] # None /\ dir.board.item[id].tickler # None

\* The operations that touch a schedule, without those that only rank items.
\* Two items are added at most; the ids that are left are for what they spawn.
\* The web's run begins on the second day, and may still be at it on the third.
TicklerNext ==
  \/ (dir.board.next <= 2 /\ Tickler!Add) \/ Tickler!SetCap \/ NextDay
  \/ \E id \in Ids : OnSchedule(id) /\ Tickler!EditField(id)
  \/ BeginTick("cron") \/ (today = 2 /\ BeginTick("web"))
  \/ \E r \in Runners : FireNext(r) \/ EndTick(r)

BoardNext ==
  /\ UNCHANGED part
  /\ \/ part = "ranked" /\ Ranked!Next
     \/ /\ part = "detailed" /\ Detailed!Next
        /\ dir'.board.next <= 3 /\ Cardinality({id \in Ids : dir'.detail[id] # None}) <= 1
     \/ part = "tickler" /\ TicklerNext

BoardInit == part \in {"ranked", "detailed", "tickler"} /\ Init

BoardSpec == BoardInit /\ [][BoardNext]_<<part, vars>> /\ Fairness

\* One of the parts, alone: what the runs that find a violation need.
RankedSpec  == part = "ranked" /\ Init /\ [][BoardNext]_<<part, vars>>
TicklerSpec == part = "tickler" /\ Init /\ [][BoardNext]_<<part, vars>>

=============================================================================
