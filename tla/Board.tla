-------------------------------- MODULE Board --------------------------------
(***************************************************************************)
(* One version-2 directory worked on by any number of callers, each        *)
(* operation taken as one atomic step: what a Store promises under its     *)
(* lock.  (How a transaction's files are read and written, and when the    *)
(* step is not atomic, is the subject of FileTx and StoreTx.)              *)
(*                                                                         *)
(* A --tick run is not one step: tickLoopV2 reads the directory again for  *)
(* every item it fires, so fires of one run are interleaved with the       *)
(* operations, and the runs, of other processes.  A run keeps the date it  *)
(* was started with, however long it takes.                                *)
(***************************************************************************)
EXTENDS Directory

CONSTANTS
  AddRequests,  \* the requests --add is called with
  Batches,      \* the sequences of requests --add-many is called with
  Updates,      \* the single-field changes --edit is called with
  Bodies,       \* the bodies a detail file is set to
  Caps,         \* the stages and values a WIP cap is set to, 0 to clear it
  Runners,      \* the processes that run --tick
  MaxDay        \* bound: the last day of the calendar

ASSUME BoardAssumption ==
  /\ MaxDay \in Nat \ {0}
  /\ Caps \subseteq StageSet \X Nat
  /\ Bodies \subseteq SUBSET Notes
  /\ AddRequests \subseteq AddRequest
  /\ Batches \subseteq Seq(AddRequest)
  /\ Updates \subseteq FieldUpdate

VARIABLES
  dir,       \* the directory
  today,     \* the date every operation is passed
  runner,    \* each tick run: None, or its date and the items it is done with
  removed,   \* history: the ids --remove was called on
  fires,     \* history: per id, the dates it was fired with, oldest first
  pausedOn   \* history: per id, the days its present schedule was paused on

vars == <<dir, today, runner, removed, fires, pausedOn>>

EmptyBoard == [item |-> [id \in Ids |-> None], run |-> [s \in StageSet |-> <<>>],
               next |-> 1, wip |-> [s \in StageSet |-> 0]]

Init ==
  /\ dir = [board |-> EmptyBoard, done |-> [id \in Ids |-> None],
            detail |-> [id \in Ids |-> None]]
  /\ today = 1
  /\ runner = [r \in Runners |-> None]
  /\ removed = {}
  /\ fires = [id \in Ids |-> <<>>]
  /\ pausedOn = [id \in Ids |-> {}]

-----------------------------------------------------------------------------
\* What every step does to the days a schedule has been paused on.
NotePauses ==
  pausedOn' = [id \in Ids |->
                 LET it == dir'.board.item[id]
                 IN IF it = None THEN {}
                    ELSE IF it.tickler = None THEN {}
                    ELSE IF it.paused THEN pausedOn[id] \cup {today'} ELSE pausedOn[id]]

\* tx.commit: one of the results, if it introduces no violation.
commit(results) == \E r \in results : Commits(dir, r) /\ dir' = r.dir

Operation(results) ==
  /\ commit(results)
  /\ UNCHANGED <<today, runner, removed, fires>>
  /\ NotePauses

Add     == \E req \in AddRequests : Operation(addV2(dir, req, today))
AddMany == \E reqs \in Batches : Operation(addManyV2(dir, reqs, today))

Start(id)  == Operation(startV2(dir, id))
Pause(id)  == \E s \in StageSet \cup {None}, end \in BOOLEAN : Operation(pauseV2(dir, id, s, end))
Finish(id) == \E note \in Notes \cup {None} : Operation(finishV2(dir, id, note))
Move(id)   == \E s \in StageSet \cup {None}, index \in 0..(MaxId - 2), reason \in BOOLEAN :
                Operation(moveV2(dir, id, s, index, reason))
RemoveForced(id) ==
  /\ \E withDetail \in BOOLEAN : commit(removeInternal(dir, id, withDetail))
  /\ removed' = removed \cup {id}
  /\ UNCHANGED <<today, runner, fires>>
  /\ NotePauses

EditField(id) == \E u \in Updates : Operation(Update(dir, id, u, today))
EditBody(id)  == \E u \in Updates, body \in Bodies : Operation(Edit(dir, id, u, body, today))
AddNote(id)   == \E note \in Notes : Operation(Note(dir, id, note))
Attach(id)    == \E body \in Bodies : Operation(AttachDetail(dir, id, body))
SetBody(id)   == \E body \in Bodies : Operation(SetDetailBody(dir, id, body))
AppendSection(id) == \E note \in Notes : Operation(AppendDetailSection(dir, id, note))
Detach(id)    == \E delete \in BOOLEAN : Operation(DetachDetail(dir, id, delete))

SetCap == \E c \in Caps : Operation(SetStageWipLimit(dir, c[1], c[2]))

\* --- A --tick run ---------------------------------------------------------

BeginTick(r) ==
  /\ runner[r] = None
  /\ runner' = [runner EXCEPT ![r] = [now |-> today, done |-> {}]]
  /\ UNCHANGED <<dir, today, removed, fires, pausedOn>>

\* The items this run has still to look at.
Pending(r) == DueItems(dir, runner[r].now) \ runner[r].done

\* The one it comes to first, in file order.
First(r, id) ==
  /\ id \in Pending(r)
  /\ \A other \in Pending(r) \ {id} : Precedes(dir.board, id, other)

\* Bug: an item that fails to fire is tried again.
FireNextBug(r) ==
  /\ runner[r] # None
  /\ \E id \in Ids :
       /\ First(r, id)
       /\ \/ /\ commit(fireOneV2(dir, id, runner[r].now))
             /\ fires' = [fires EXCEPT ![id] = Append(@, runner[r].now)]
             /\ runner' = [runner EXCEPT ![r].done = @ \cup {id}]
          \/ UNCHANGED <<dir, fires, runner>>
  /\ UNCHANGED <<today, removed>>
  /\ NotePauses

\* One turn of tickLoopV2: the first due item is fired, or its error is kept
\* for the report.  Either way the run does not come back to it.
FireNext(r) ==
  /\ runner[r] # None
  /\ \E id \in Ids :
       LET fired == fireOneV2(dir, id, runner[r].now)
       IN /\ First(r, id)
          /\ IF \E res \in fired : Commits(dir, res)
             THEN commit(fired) /\ fires' = [fires EXCEPT ![id] = Append(@, runner[r].now)]
             ELSE UNCHANGED <<dir, fires>>
          /\ runner' = [runner EXCEPT ![r].done = @ \cup {id}]
  /\ UNCHANGED <<today, removed>>
  /\ NotePauses

EndTick(r) ==
  /\ runner[r] # None
  /\ Pending(r) = {}
  /\ runner' = [runner EXCEPT ![r] = None]
  /\ UNCHANGED <<dir, today, removed, fires, pausedOn>>

NextDay ==
  /\ today < MaxDay
  /\ today' = today + 1
  /\ UNCHANGED <<dir, runner, removed, fires>>
  /\ NotePauses

Next ==
  \/ Add \/ AddMany \/ SetCap \/ NextDay
  \/ \E id \in Ids :
       \/ Start(id) \/ Pause(id) \/ Finish(id) \/ Move(id) \/ RemoveForced(id)
       \/ EditField(id) \/ EditBody(id) \/ AddNote(id)
       \/ Attach(id) \/ SetBody(id) \/ AppendSection(id) \/ Detach(id)
  \/ \E r \in Runners : BeginTick(r) \/ FireNext(r) \/ EndTick(r)

\* A run that has begun is a loop in a live process; nothing makes a caller
\* call.
Fairness == \A r \in Runners : WF_vars(FireNext(r) \/ EndTick(r))

Spec == Init /\ [][Next]_vars /\ Fairness

-----------------------------------------------------------------------------
(* What the library promises of the directory.                             *)

OnBoard(d) == {id \in Ids : d.board.item[id] # None}

\* The values are well formed, and each item of the board is in one run, once.
TypeOK ==
  /\ dir \in Dir
  /\ today \in 1..MaxDay
  /\ runner \in [Runners -> {None} \cup [now : 1..MaxDay, done : SUBSET Ids]]
  /\ removed \subseteq Ids
  /\ fires \in [Ids -> Seq(1..MaxDay)]
  /\ pausedOn \in [Ids -> SUBSET (1..MaxDay)]
  /\ Grouped(dir.board)

\* No sequence of operations leaves a directory its own --check rejects,
\* save for the detail files an operation was asked to orphan (tx.go: "Step 3
\* is what makes it impossible for the tool to produce a directory its own
\* checker rejects").  Only an id already given out has one.
ChecksClean == validate(dir) \subseteq {<<"I9 orphan", id>> : id \in 1..(dir.board.next - 1)}

\* An id is retired with its item, never recycled: once the counter has
\* passed it, an id that names nothing never names anything again.
IdsRetired ==
  [][\A id \in 1..(dir.board.next - 1) :
       /\ Home(dir, id) = None => Home(dir', id) = None
       /\ dir'.board.next >= dir.board.next]_vars

\* Every id handed out names one item in one file, on the board or in
\* done.md, whatever became of it; only one that --remove was called on names
\* none, and never does again.
ItemsAccounted ==
  \A id \in 1..(dir.board.next - 1) :
    Cardinality({c \in Copies(dir) : c[2] = id}) = IF id \in removed THEN 0 ELSE 1

\* An operation moves one item at most: with that item left out, every other
\* is on the stage it was, below the ones it was below.  A person's ranking
\* survives other edits.
OneItemMoves ==
  [][\E mover \in Ids :
       \A i, j \in (OnBoard(dir) \cap OnBoard(dir')) \ {mover} :
         /\ StageOf(dir'.board, i) = StageOf(dir.board, i)
         /\ Precedes(dir'.board, i, j) <=> Precedes(dir.board, i, j)]_vars

OverCap(d, s) == d.board.wip[s] > 0 /\ Len(d.board.run[s]) > d.board.wip[s]

Grows(s) == Len(dir'.board.run[s]) > Len(dir.board.run[s])

\* Adding, starting, moving, firing and lowering a cap never overfill a
\* stage.  --pause is the exception: see PauseKeepsCaps.
CapsHeld ==
  [][\A s \in StageSet :
       OverCap(dir', s) => \/ OverCap(dir, s) /\ ~ Grows(s)
                           \/ \E id \in Ids : Pause(id)]_vars

\* What was written in a detail file is there until somebody replaces the
\* body or removes the file: moving, closing and noting only ever add to it.
NotesKept ==
  [][\A id \in Ids :
       dir.detail[id] # None =>
         \/ dir'.detail[id] # None /\ dir.detail[id].body \subseteq dir'.detail[id].body
         \/ SetBody(id) \/ EditBody(id) \/ Detach(id) \/ RemoveForced(id)]_vars

-----------------------------------------------------------------------------
(* What a tick run promises.                                               *)

\* An item is fired at most once for a date, by any number of runners whose
\* runs overlap and whose dates may be old: each fire's date is later than
\* the one before (op_tick.go: "an item fires at most once per day").
FiresAdvance ==
  \A id \in Ids : \A i \in 1..(Len(fires[id]) - 1) : fires[id][i] < fires[id][i + 1]

\* Every fire is owed to a day of the schedule: one that has come, that the
\* fire before did not already answer, that for a recurring item's first fire
\* is after it was created, and on which the item was not paused.  (Not so for
\* a later fire: a run with an old date may fire a one-shot with a date before
\* its creation, and a schedule the item is then given counts from that.)
EarnedFires ==
  [][\A id \in Ids : fires'[id] # fires[id] =>
       LET it   == dir.board.item[id]
           last == IF fires[id] = <<>> THEN 0 ELSE Last(fires[id])
       IN \E day \in it.tickler.days :
            /\ last < day /\ day <= Last(fires'[id])
            /\ it.tickler.oneShot \/ fires[id] # <<>> \/ day > it.created
            /\ day \notin pausedOn[id]]_vars

\* A tick run ends: an item that cannot fire does not hold it, and what it
\* spawns gives it no more to do.
RunsEnd == \A r \in Runners : runner[r] # None ~> runner[r] = None

-----------------------------------------------------------------------------
(* What the documents say and the code does not do.                        *)

\* "A mutation that would exceed a declared cap is refused before it is
\* written" (spec-file-format.md, 5.1.3), of every mutation.
PauseKeepsCaps ==
  [][\A s \in StageSet : OverCap(dir', s) => OverCap(dir, s) /\ ~ Grows(s)]_vars

\* "MUST work from any stage" (spec-tools.md, 5.1.10): in a directory that
\* checks clean, an item of the board can be finished.
AnyStageFinishes ==
  validate(dir) = {} =>
    \A id \in OnBoard(dir) : \E r \in finishV2(dir, id, None) : Commits(dir, r)

=============================================================================
