------------------------------ MODULE Directory ------------------------------
(***************************************************************************)
(* A version-2 directory of micro-manager as one value, the checker of its *)
(* invariants, and the library's mutating operations as functions of that  *)
(* value.  board.md, done.md and details/ are the three fields of the      *)
(* record; an item line is a record of the fields some rule reads.         *)
(*                                                                         *)
(* An operation yields the SET of its results: empty when the code returns *)
(* an error before it stages anything.  A result carries the directory the *)
(* transaction would leave, the files it stages in the order of staging,   *)
(* the detail files it deletes, and the violations it accepts on purpose.  *)
(* Commit() is the check that every result passes before it is written.    *)
(*                                                                         *)
(* Every write of board.md re-lays its item lines into one run per         *)
(* declared stage (regroupBoard), so the file's item order is represented  *)
(* as that run per stage.                                                  *)
(***************************************************************************)
EXTENDS Integers, Sequences, FiniteSets, SequencesExt

CONSTANTS
  Stages,        \* stages:, in declared order
  NeedsReason,   \* needs_reason:, in declared order
  TicklerStages, \* tickler_stages:, a function from SOURCE to DEST
  MaxId,         \* the grammar's Cap(): the last value next_id can take
  Titles,        \* the titles an item can have
  Notes,         \* the texts a note can have
  Schedules,     \* SCHEDULEs: the days one fires, and if it fires once
  None           \* an absent item, file or field

Ids      == 1..MaxId
StageSet == ToSet(Stages)

ASSUME DirectoryAssumption ==
  /\ MaxId \in Nat \ {0}
  /\ {"ready", "working"} \subseteq StageSet
  /\ IsInjective(Stages)
  /\ NeedsReason \in Seq(StageSet)
  /\ DOMAIN TicklerStages \subseteq StageSet
  /\ \A s \in DOMAIN TicklerStages : TicklerStages[s] \in StageSet
  /\ \A s \in Schedules : s.oneShot \in BOOLEAN /\ s.days \subseteq Nat
  /\ None \notin Schedules /\ None \notin StageSet /\ None \notin Titles /\ None \notin Notes

-----------------------------------------------------------------------------
(* The data.                                                               *)

Item == [title   : Titles,
         reason  : BOOLEAN,                  \* reason: is present
         started : BOOLEAN,                  \* started: is present
         created : Nat,                      \* created:, a day, 0 when absent
         tickler : Schedules \cup {None},
         dest    : StageSet \cup {None},     \* tickler_dest:
         paused  : BOOLEAN,                  \* tickler_paused:true
         tickled : Nat,                      \* tickled:, 0 when absent
         detail  : BOOLEAN]                  \* detail: is present

DetailFile == [title : Titles, body : SUBSET Notes]

BoardFile == [item : [Ids -> Item \cup {None}],
              run  : [StageSet -> Seq(Ids)], \* the stage's items, in file order
              next : Ids,                    \* next_id:
              wip  : [StageSet -> Nat]]      \* wip.<slug>:, 0 when uncapped

DoneFile == [Ids -> Item \cup {None}]

Dir == [board  : BoardFile,
        done   : DoneFile,
        detail : [Ids -> DetailFile \cup {None}]]

\* An item line, a detail file and a home are not what stands for there being none.
ASSUME NoneAssumption == None \notin Item /\ None \notin DetailFile /\ None \notin {"board", "done"}

\* What --add is asked for, and what --edit may set.
AddRequest == [title : Titles, stage : StageSet \cup {None}, reason : BOOLEAN, top : BOOLEAN,
               body : SUBSET Notes, tickler : Schedules \cup {None}, dest : StageSet \cup {None},
               paused : BOOLEAN]

FieldUpdate == [field : {"title"}, value : Titles]
               \cup [field : {"reason", "started", "detail", "paused"}, value : BOOLEAN]
               \cup [field : {"created", "tickled"}, value : Nat]
               \cup [field : {"tickler"}, value : Schedules \cup {None}]
               \cup [field : {"dest"}, value : StageSet \cup {None}]

\* Bug: done.md's copy first.
HomeBug(d, id) == IF d.done[id] # None THEN "done"
                  ELSE IF d.board.item[id] # None THEN "board" ELSE None

\* find(): the board's copy of an item first, then done.md's.
Home(d, id) == IF d.board.item[id] # None THEN "board"
               ELSE IF d.done[id] # None THEN "done" ELSE None

ItemAt(d, h, id) == IF h = "board" THEN d.board.item[id] ELSE d.done[id]

StageOf(b, id) == CHOOSE s \in StageSet : Contains(b.run[s], id)

\* Bug: one over the cap still fits.
FullBug(b, s) == b.wip[s] > 0 /\ Len(b.run[s]) > b.wip[s]

Full(b, s) == b.wip[s] > 0 /\ Len(b.run[s]) >= b.wip[s]

PlaceOf(seq, e) == CHOOSE i \in DOMAIN seq : seq[i] = e

\* One item's line comes before another's in the file.
Precedes(b, id, other) ==
  LET s == StageOf(b, id)
      t == StageOf(b, other)
  IN \/ PlaceOf(Stages, s) < PlaceOf(Stages, t)
     \/ s = t /\ PlaceOf(b.run[s], id) < PlaceOf(b.run[s], other)

\* What regroupBoard and parseBoard come to: every item of the board is in one
\* stage's run, once.
Grouped(b) ==
  /\ \A s \in StageSet : IsInjective(b.run[s])
  /\ \A s \in StageSet, id \in Ids : Contains(b.run[s], id) => b.item[id] # None
  /\ \A id \in Ids : b.item[id] # None =>
       \E s \in StageSet : \A t \in StageSet : Contains(b.run[t], id) <=> t = s

-----------------------------------------------------------------------------
(* The checker: I1, I2, I5, I7, I8 and I9 over one directory value.  A     *)
(* violation is named by what the key of violationKey() tells apart: the   *)
(* invariant, the file and the ids in the message, never a line number.    *)

Copies(d) == {c \in {"board", "done"} \X Ids : ItemAt(d, c[1], c[2]) # None}

Claims(d, id) == {h \in {"board", "done"} : ItemAt(d, h, id) # None /\ ItemAt(d, h, id).detail}

\* Bug: I1 is not checked across files.
checkIDsBug(d) == {<<"I2", Home(d, id), id>> : id \in {i \in Ids : Home(d, i) # None /\ i >= d.board.next}}

checkIDs(d) ==
  {<<"I1", id>> : id \in {i \in Ids : d.board.item[i] # None /\ d.done[i] # None}}
  \cup {<<"I2", Home(d, id), id>> : id \in {i \in Ids : Home(d, i) # None /\ i >= d.board.next}}

checkBoard(d) ==
  LET on(s) == ToSet(d.board.run[s])
      without(field, s) == {id \in on(s) : ~ d.board.item[id][field]}
  IN {<<"I5", id>> : id \in UNION {without("reason", s) : s \in ToSet(NeedsReason)}}
     \cup {<<"I7 started", id>> : id \in without("started", "working")}

checkTicklerV2(d) ==
  LET source(c) == c[1] = "board" /\ StageOf(d.board, c[2]) \in DOMAIN TicklerStages
      it(c)     == ItemAt(d, c[1], c[2])
  IN {<<"I7 paused", c>> : c \in {c \in Copies(d) : it(c).paused /\ it(c).tickler = None}}
     \cup {<<"I7 tickler", c>> : c \in {c \in Copies(d) : it(c).tickler # None /\ ~ source(c)}}
     \cup {<<"I7 created", c>> : c \in {c \in Copies(d) : it(c).tickler # None /\ it(c).created = 0}}

checkDetails(d) ==
  LET present == {id \in Ids : d.detail[id] # None}
      missing(id) == {<<"I8", h, id>> : h \in Claims(d, id)}
      titles(id)  == {<<"I9 title", id, d.detail[id].title, ItemAt(d, h, id).title>> :
                        h \in {k \in Claims(d, id) : ItemAt(d, k, id).title # d.detail[id].title}}
  IN (UNION {missing(id) : id \in Ids \ present})
     \cup (UNION {titles(id) : id \in present})
     \cup {<<"I9 orphan", id>> : id \in {i \in present : Claims(d, i) = {}}}
     \cup {<<"I9 claims", id>> : id \in {i \in present : Cardinality(Claims(d, i)) > 1}}

validate(d) == checkIDs(d) \cup checkBoard(d) \cup checkTicklerV2(d) \cup checkDetails(d)

\* Bug: what an operation leaves is not checked.
CommitsBug(d, r) == TRUE

\* tx.commit: nothing may be introduced that begin() did not already see,
\* except what the operation put into its baseline on purpose.
Commits(d, r) == \A v \in validate(r.dir) : v \in r.accepts \/ v \in validate(d)

-----------------------------------------------------------------------------
(* Editing one directory value.                                            *)

Result(d, files, deletes, accepts) ==
  [dir |-> d, files |-> files, deletes |-> deletes, accepts |-> accepts]

\* Bug: the newest item gives its id back when it goes.
RemoveItemBug(b, id) ==
  [b EXCEPT !.item[id] = None, !.run[StageOf(b, id)] = Remove(@, id),
            !.next = IF id = @ - 1 THEN id ELSE @]

\* Bug: the last item of the stage fills the place of the one that goes.
SwapRemoveBug(b, id) ==
  LET run == b.run[StageOf(b, id)]
  IN [b EXCEPT !.item[id] = None,
               !.run[StageOf(b, id)] =
                 [i \in 1..(Len(run) - 1) |-> IF run[i] = id THEN Last(run) ELSE run[i]]]

RemoveItem(b, id) ==
  [b EXCEPT !.item[id] = None, !.run[StageOf(b, id)] = RemoveAt(@, PlaceOf(@, id))]

\* index is the zero-based place within the stage's run.
InsertItem(b, s, index, id, it) ==
  [b EXCEPT !.item[id] = it, !.run[s] = InsertAt(@, index + 1, id)]

ReplaceItem(d, h, id, it) ==
  IF h = "board" THEN [d EXCEPT !.board.item[id] = it] ELSE [d EXCEPT !.done[id] = it]

\* The files: board.md, done.md and details/<id>.md.
File(h)        == <<h, 0>>
DetailName(id) == <<"detail", id>>

Content(d, f) == CASE f[1] = "board"  -> d.board
                   [] f[1] = "done"   -> d.done
                   [] f[1] = "detail" -> d.detail[f[2]]

\* Bug: the files are written in the opposite order.
StagedBug(d, r) == SelectSeq(Reverse(r.files), LAMBDA f : Content(d, f) # Content(r.dir, f))

\* tx.stage writes nothing for a file that did not change.
Staged(d, r) ==
  LET staged[n \in 0..Len(r.files)] ==
        IF n = 0 THEN <<>>
        ELSE IF Content(d, r.files[n]) = Content(r.dir, r.files[n]) THEN staged[n - 1]
        ELSE Append(staged[n - 1], r.files[n])
  IN staged[Len(r.files)]

\* preserveNotes: into the item's detail file, created when it has none; an
\* orphan at that path is neither adopted nor overwritten.
preserveNotes(d, h, id, note) ==
  LET it == ItemAt(d, h, id)
  IN CASE it.detail /\ d.detail[id] # None ->
            {[d EXCEPT !.detail[id].body = @ \cup {note}]}
       [] ~ it.detail /\ d.detail[id] = None ->
            {[ReplaceItem(d, h, id, [it EXCEPT !.detail = TRUE])
                EXCEPT !.detail[id] = [title |-> it.title, body |-> {note}]]}
       [] OTHER -> {}

-----------------------------------------------------------------------------
(* Adding items.  A request names the fields of the new item line; stage   *)
(* is None when the caller leaves the stage to the code.                   *)

AddStage(req) == CASE req.stage # None -> req.stage
                   [] req.stage = None /\ req.reason /\ NeedsReason # <<>> -> Head(NeedsReason)
                   [] OTHER -> "ready"

NewItem(req, today) ==
  [title |-> req.title, reason |-> req.reason, started |-> AddStage(req) = "working",
   created |-> today, tickler |-> req.tickler, dest |-> req.dest, paused |-> req.paused,
   tickled |-> 0, detail |-> FALSE]

buildNewItemV2(req) ==
  /\ AddStage(req) \in ToSet(NeedsReason) => req.reason
  /\ req.tickler # None => AddStage(req) \in DOMAIN TicklerStages
  /\ req.dest # None => req.tickler # None

\* allocNextV2 refuses the last value: it would have no successor to record.
Allocates(b) == b.next < MaxId

\* The board with one more item at the counter's id, in a set: empty when
\* the request, the stage's cap or the counter refuses it.
Placed(b, req, index, today) ==
  IF buildNewItemV2(req) /\ ~ Full(b, AddStage(req)) /\ Allocates(b)
  THEN {[InsertItem(b, AddStage(req), index, b.next, NewItem(req, today))
           EXCEPT !.next = @ + 1]}
  ELSE {}

addV2(d, req, today) ==
  LET id     == d.board.next
      index  == IF req.top THEN 0 ELSE Len(d.board.run[AddStage(req)])
      bodied(b) == [d EXCEPT !.board = [b EXCEPT !.item[id].detail = TRUE],
                             !.detail[id] = [title |-> req.title, body |-> req.body]]
  IN {IF req.body = {} THEN Result([d EXCEPT !.board = b], <<File("board")>>, <<>>, {})
      ELSE Result(bodied(b), <<DetailName(id), File("board")>>, <<>>, {}) :
        b \in Placed(d.board, req, index, today)}

\* Where a batch puts its i-th item.  Top keeps the batch's order at the head
\* of each stage, so its index counts the earlier ones there.
BatchIndex(b, reqs, i) ==
  IF reqs[i].top
  THEN Cardinality({j \in 1..(i - 1) : reqs[j].top /\ AddStage(reqs[j]) = AddStage(reqs[i])})
  ELSE Len(b.run[AddStage(reqs[i])])

\* The board after the first n of a batch, in a set: empty once one is refused.
Batch(b, reqs, today) ==
  LET placed[n \in 0..Len(reqs)] ==
        IF n = 0 THEN {b}
        ELSE UNION {Placed(c, reqs[n], BatchIndex(c, reqs, n), today) : c \in placed[n - 1]}
  IN placed

\* All of the batch or none of it, one write.
addManyV2(d, reqs, today) ==
  IF \E i \in DOMAIN reqs : reqs[i].body # {} THEN {}
  ELSE {Result([d EXCEPT !.board = b], <<File("board")>>, <<>>, {}) :
          b \in Batch(d.board, reqs, today)[Len(reqs)]}

-----------------------------------------------------------------------------
(* Moving an item: start, pause, move and finish.                          *)

Onto(d, s, index, id, it) ==
  Result([d EXCEPT !.board = InsertItem(RemoveItem(d.board, id), s, index, id, it)],
         <<File("board")>>, <<>>, {})

startV2(d, id) ==
  IF \/ Home(d, id) # "board"
     \/ StageOf(d.board, id) = "working"
     \/ Full(d.board, "working")
  THEN {}
  ELSE {Onto(d, "working", Len(d.board.run["working"]), id,
             [d.board.item[id] EXCEPT !.started = TRUE])}

\* The destination's cap is not looked at: a pause always finds room.
pauseV2(d, id, stage, end) ==
  LET dest == IF stage = None THEN "ready" ELSE stage
      left == RemoveItem(d.board, id).run[dest]
  IN IF \/ Home(d, id) # "board"
        \/ StageOf(d.board, id) # "working"
        \/ dest \in ToSet(NeedsReason) /\ ~ d.board.item[id].reason
     THEN {}
     ELSE {Onto(d, dest, IF end THEN Len(left) ELSE 0, id, d.board.item[id])}

\* The zero-based places resolveIndexV2 can answer for a run: Top, End,
\* Position, Before and After reach exactly these.
resolveIndexV2(run) == 0..Len(run)

moveV2(d, id, stage, index, reason) ==
  LET from == StageOf(d.board, id)
      to   == IF stage = None THEN from ELSE stage
      it   == d.board.item[id]
      kept == to \in DOMAIN TicklerStages
      moved == [it EXCEPT !.started = @ \/ to = "working",
                          !.reason  = @ \/ reason,
                          !.tickler = IF kept THEN @ ELSE None,
                          !.dest    = IF kept THEN @ ELSE None,
                          !.paused  = kept /\ @]
  IN IF Home(d, id) # "board" THEN {}
     ELSE IF \/ to # from /\ Full(d.board, to)
             \/ to \in ToSet(NeedsReason) /\ ~ moved.reason
             \/ index \notin resolveIndexV2(RemoveItem(d.board, id).run[to])
     THEN {}
     ELSE {Onto(d, to, index, id, moved)}

\* Bug: the finished line is taken off the board and not put in done.md.
finishV2Bug(d, id, note) ==
  IF Home(d, id) # "board" THEN {}
  ELSE {Result([d EXCEPT !.board = RemoveItem(@, id)], <<File("board")>>, <<>>, {})}

\* done.md is written before board.md, the detail file before both.  The
\* schedule goes, the pause stays.  A copy already in done.md would become a
\* second one there, which I1 refuses.
finishV2(d, id, note) ==
  LET noted == IF note = None THEN {d} ELSE preserveNotes(d, "board", id, note)
      closed(e) == [e EXCEPT !.done[id] = [e.board.item[id] EXCEPT !.tickler = None,
                                                                   !.dest    = None],
                             !.board = RemoveItem(@, id)]
  IN IF Home(d, id) # "board" \/ d.done[id] # None THEN {}
     ELSE {Result(closed(e), <<DetailName(id), File("done"), File("board")>>, <<>>, {}) : e \in noted}

\* --remove --force.  The state the code refuses here, StateWorking, is a
\* version-1 slot: an item on the stage called working is StateBoard.
removeInternal(d, id, withDetail) ==
  LET h       == Home(d, id)
      it      == ItemAt(d, h, id)
      without == IF h = "board" THEN [d EXCEPT !.board = RemoveItem(@, id)]
                 ELSE [d EXCEPT !.done[id] = None]
  IN IF h = None THEN {}
     ELSE IF ~ it.detail \/ d.detail[id] = None
     THEN {Result(without, <<File(h)>>, <<>>, {})}
     ELSE IF withDetail
     THEN {Result([without EXCEPT !.detail[id] = None], <<File(h)>>, <<DetailName(id)>>, {})}
     ELSE {Result(without, <<File(h)>>, <<>>, {<<"I9 orphan", id>>})}

-----------------------------------------------------------------------------
(* Editing an item in place: fields, notes and the detail file.            *)

\* One field set or cleared.  value is the field's new value: None, FALSE or
\* 0 when it is unset.
applyUpdate(d, h, id, u) ==
  LET it  == ItemAt(d, h, id)
      new == [it EXCEPT ![u.field] = u.value]
  IN IF u.field # "tickler" THEN {new}
     ELSE IF u.value = None THEN {[new EXCEPT !.paused = FALSE]}
     ELSE IF h = "board" /\ StageOf(d.board, id) \in DOMAIN TicklerStages THEN {new}
     ELSE {}

\* Bug: the end of a pause leaves the days it lasted owed.
stageUpdateBug(d, id, u, today) ==
  LET h == Home(d, id)
  IN IF h = None THEN {} ELSE {ReplaceItem(d, h, id, new) : new \in applyUpdate(d, h, id, u)}

\* Ending a pause stamps the item fired today; a new title goes into the
\* detail file in the same transaction.
stageUpdate(d, id, u, today) ==
  LET h  == Home(d, id)
      it == ItemAt(d, h, id)
      stamp(new) == IF it.paused /\ ~ new.paused /\ new.tickler # None
                    THEN [new EXCEPT !.tickled = today] ELSE new
      syncDetailTitle(e, new) ==
        IF new.title # it.title /\ new.detail /\ e.detail[id] # None
        THEN [e EXCEPT !.detail[id].title = new.title] ELSE e
  IN IF h = None THEN {}
     ELSE {syncDetailTitle(ReplaceItem(d, h, id, stamp(new)), stamp(new)) :
             new \in applyUpdate(d, h, id, u)}

Update(d, id, u, today) ==
  {Result(e, <<File(Home(d, id)), DetailName(id)>>, <<>>, {}) : e \in stageUpdate(d, id, u, today)}

\* Bug: an orphan is overwritten.
attachedBug(d, id, body) ==
  LET h  == Home(d, id)
      it == ItemAt(d, h, id)
  IN {[ReplaceItem(d, h, id, [it EXCEPT !.detail = TRUE])
         EXCEPT !.detail[id] = [title |-> it.title, body |-> body]]}

\* A new detail file for an item without one; an orphan is not overwritten.
attached(d, id, body) ==
  LET h  == Home(d, id)
      it == ItemAt(d, h, id)
  IN IF d.detail[id] # None THEN {}
     ELSE {[ReplaceItem(d, h, id, [it EXCEPT !.detail = TRUE])
              EXCEPT !.detail[id] = [title |-> it.title, body |-> body]]}

\* A field and the body in one transaction.
Edit(d, id, u, body, today) ==
  LET h == Home(d, id)
      bodied(e) ==
        CASE ItemAt(e, h, id).detail /\ e.detail[id] # None -> {[e EXCEPT !.detail[id].body = body]}
          [] ~ ItemAt(e, h, id).detail /\ body # {} -> attached(e, id, body)
          [] ~ ItemAt(e, h, id).detail /\ body = {} -> {e}
          [] OTHER -> {}
  IN {Result(e, <<File(h), DetailName(id)>>, <<>>, {}) :
        e \in UNION {bodied(e) : e \in stageUpdate(d, id, u, today)}}

\* The detail file first, then the item line that may now point at it.
Note(d, id, note) ==
  IF Home(d, id) = None THEN {}
  ELSE {Result(e, <<DetailName(id), File(Home(d, id))>>, <<>>, {}) :
          e \in preserveNotes(d, Home(d, id), id, note)}

AttachDetail(d, id, body) ==
  IF Home(d, id) = None THEN {}
  ELSE IF ItemAt(d, Home(d, id), id).detail THEN {}
  ELSE {Result(e, <<File(Home(d, id)), DetailName(id)>>, <<>>, {}) : e \in attached(d, id, body)}

detailFor(d, id) == /\ Home(d, id) # None
                    /\ ItemAt(d, Home(d, id), id).detail
                    /\ d.detail[id] # None

SetDetailBody(d, id, body) ==
  IF ~ detailFor(d, id) THEN {}
  ELSE {Result([d EXCEPT !.detail[id].body = body], <<DetailName(id)>>, <<>>, {})}

AppendDetailSection(d, id, note) ==
  IF ~ detailFor(d, id) THEN {}
  ELSE {Result([d EXCEPT !.detail[id].body = @ \cup {note}], <<DetailName(id)>>, <<>>, {})}

\* Delete or AllowOrphan, exactly one.
DetachDetail(d, id, delete) ==
  LET h == Home(d, id)
      e == ReplaceItem(d, h, id, [ItemAt(d, h, id) EXCEPT !.detail = FALSE])
  IN IF h = None THEN {}
     ELSE IF ~ ItemAt(d, h, id).detail THEN {}
     ELSE IF delete
     THEN {Result([e EXCEPT !.detail[id] = None], <<File(h)>>, <<DetailName(id)>>, {})}
     ELSE {Result(e, <<File(h)>>, <<>>, {<<"I9 orphan", id>>})}

\* n = 0 clears the cap; one below what the stage holds is refused.
SetStageWipLimit(d, s, n) ==
  IF n # 0 /\ Len(d.board.run[s]) > n THEN {}
  ELSE {Result([d EXCEPT !.board.wip[s] = n], <<File("board")>>, <<>>, {})}

-----------------------------------------------------------------------------
(* Ticklers.  A schedule's days are the days its Next() answers.           *)

\* Bug: the day of the last fire is owed again.
DueBug(it, now) ==
  LET last == IF it.tickled = 0 /\ ~ it.tickler.oneShot THEN it.created ELSE it.tickled
  IN \E day \in it.tickler.days : last <= day /\ day <= now

Due(it, now) ==
  LET last == IF it.tickled = 0 /\ ~ it.tickler.oneShot THEN it.created ELSE it.tickled
  IN \E day \in it.tickler.days : last < day /\ day <= now

\* The items tickLoopV2 would fire at now.
DueItems(d, now) ==
  {id \in Ids : /\ d.board.item[id] # None
                /\ d.board.item[id].tickler # None
                /\ ~ d.board.item[id].paused
                /\ Due(d.board.item[id], now)}

FireDest(d, id) ==
  LET stage == StageOf(d.board, id)
  IN IF d.board.item[id].dest # None \/ stage \notin DOMAIN TicklerStages
     THEN d.board.item[id].dest ELSE TicklerStages[stage]

\* A one-shot moves to the end of its destination and loses its schedule; a
\* recurring item stays and spawns a bare copy there.
fireOneV2(d, id, now) ==
  LET dest  == FireDest(d, id)
      proto == [d.board.item[id] EXCEPT !.tickled = now]
      moved == [proto EXCEPT !.tickler = None, !.dest = None, !.paused = FALSE]
      stamped == [d.board EXCEPT !.item[id] = proto]
      spawn == [title |-> proto.title, reason |-> FALSE, started |-> FALSE, created |-> now,
                tickler |-> None, dest |-> None, paused |-> FALSE, tickled |-> 0,
                detail |-> FALSE]
  IN IF dest = None THEN {}
     ELSE IF Full(d.board, dest) THEN {}
     ELSE IF proto.tickler.oneShot
     THEN {Onto(d, dest, Len(RemoveItem(d.board, id).run[dest]), id, moved)}
     ELSE IF ~ Allocates(d.board) THEN {}
     ELSE {Result([d EXCEPT !.board =
                     [InsertItem(stamped, dest, Len(stamped.run[dest]), d.board.next, spawn)
                        EXCEPT !.next = @ + 1]], <<File("board")>>, <<>>, {})}

=============================================================================
