--------------------------------- MODULE Forms ---------------------------------
(***************************************************************************)
(* The item panel of the browser (internal/web/item.go, the Wake-up group  *)
(* of tickler.go) over the store's edit (mm/op_edit.go): people hold forms *)
(* open on one item while they, a command line and the tickler run change  *)
(* it.                                                                     *)
(*                                                                         *)
(* A form carries the revision of the item it shows: a hash of the item's  *)
(* line and of its detail file.  The stage is not on the line: it is the   *)
(* heading above it.  A save is two steps, the reads before the            *)
(* transaction and the transaction.                                        *)
(***************************************************************************)
EXTENDS Naturals, FiniteSets

CONSTANTS
  None,
  People,
  Stages,       \* of the board
  dest,         \* the tickler_stages: a stage to wake up to, for each source
  needs_reason, \* the stages that need a reason
  Prios, Texts, \* values a field takes
  MaxWrites     \* bound: changes of the item

Empty == "empty"  \* a detail file without a body

\* ASSUMEd in MCRequests.  None and Empty are no values of a control.
FormsAssumption ==
  /\ DOMAIN dest \subseteq Stages /\ \A s \in DOMAIN dest : dest[s] \in Stages
  /\ needs_reason \subseteq Stages /\ MaxWrites \in Nat
  /\ None \notin Stages \cup Prios \cup Texts /\ "med" \in Prios
  /\ Empty \notin Texts \cup {None}
  /\ None \notin [tickler: Texts \cup {None}, paused: BOOLEAN, dest: Stages]

VARIABLES
  item,    \* the item with its detail file, or None when it has left the board
  form,    \* form[p]: what person p has open, or None
  saving,  \* saving[p]: what p's save has read, or None
  moved,   \* history: moved[p] when the item changed its stage under p's form
  writes

vars == <<item, form, saving, moved, writes>>

\* The item as version 2 keeps it on the board.
Items == [title: Texts, prio: Prios \cup {None}, reason: Texts \cup {None}, stage: Stages,
          tickler: Texts \cup {None}, paused: BOOLEAN, dest: Stages \cup {None},
          tickled: BOOLEAN,  \* tickled: names today
          body: Texts \cup {Empty, None}]

Source(s)    == s \in DOMAIN dest
Effective(i) == IF i.prio = None THEN "med" ELSE i.prio
WakesTo(i)   == IF i.dest # None THEN i.dest ELSE dest[i.stage]

Revision(i) == [i EXCEPT !.stage = None]

Init ==
  /\ item \in {i \in Items :
       /\ i.prio = None /\ ~ i.tickled /\ i.body # Empty /\ (i.reason # None <=> i.stage \in needs_reason)
       /\ i.tickler # None => Source(i.stage)
       /\ i.tickler = None => ~ i.paused /\ i.dest = None
       /\ i.dest \in {None, i.stage}}
  /\ form = [p \in People |-> None]
  /\ saving = [p \in People |-> None]
  /\ moved = [p \in People |-> FALSE]
  /\ writes = 0

-----------------------------------------------------------------------------
(* The form: what it shows, and what of it a save sends.                   *)

\* The Wake-up group is shown on a tickler source; the select of the stage to
\* wake up to shows the default of the stage when the item names none.
prefillTickler(i) ==
  IF Source(i.stage) THEN [tickler |-> i.tickler, paused |-> i.paused, dest |-> WakesTo(i)] ELSE None

\* The controls, as the panel fills them in from one snapshot.
panelView(i) ==
  [title |-> i.title, prio |-> Effective(i), reason |-> i.reason,
   body |-> IF i.body = Empty THEN None ELSE i.body, group |-> prefillTickler(i)]

itemPanel(p) ==
  /\ item # None /\ form[p] = None
  /\ form' = [form EXCEPT ![p] = [revision |-> Revision(item), was |-> panelView(item),
                                  stage |-> item.stage, now |-> panelView(item)]]
  /\ moved' = [moved EXCEPT ![p] = FALSE]
  /\ UNCHANGED <<item, saving, writes>>

Cancel(p) ==
  /\ form[p] # None /\ saving[p] = None
  /\ form' = [form EXCEPT ![p] = None]
  /\ UNCHANGED <<item, saving, moved, writes>>

\* A person changes one control.
Type(p, to) ==
  /\ form[p] # None /\ saving[p] = None /\ form[p].now = form[p].was
  /\ form' = [form EXCEPT ![p].now = to]
  /\ UNCHANGED <<item, saving, moved, writes>>

Typed(f) ==
  {[f EXCEPT !.title = t] : t \in Texts} \cup {[f EXCEPT !.prio = q] : q \in Prios}
    \cup {[f EXCEPT !.reason = r] : r \in Texts \cup {None}}
    \cup {[f EXCEPT !.body = b] : b \in Texts \cup {None}}
    \cup IF f.group = None THEN {}
         ELSE {[f EXCEPT !.group.tickler = t] : t \in Texts \cup {None}}
                \cup {[f EXCEPT !.group.paused = ~ @]}
                \cup {[f EXCEPT !.group.dest = s] : s \in Stages}

-----------------------------------------------------------------------------
(* The save.                                                               *)

\* Bug: the revision is the one of the moment of the save.
expectedBug(f, sent) == Revision(item)

\* The panel sends the revision of the snapshot it was filled from; a client
\* that leaves it out is given the one of the moment of the save.
expected(f, sent) == IF sent THEN f.revision ELSE Revision(item)

\* Bound: left out where it makes a difference, by a form with nothing typed.
Silent(p) == Revision(item) # form[p].revision /\ form[p].now = form[p].was

\* The route reads the item and its stage's default before the transaction.
editItem(p) ==
  /\ form[p] # None /\ saving[p] = None
  /\ IF item = None THEN form' = [form EXCEPT ![p] = None] /\ UNCHANGED saving
     ELSE /\ \E sent \in {TRUE, ~ Silent(p)} : saving' = [saving EXCEPT ![p] =
               [def |-> IF Source(item.stage) THEN dest[item.stage] ELSE None,
                sent |-> sent, expected |-> expected(form[p], sent)]]
          /\ UNCHANGED form
  /\ UNCHANGED <<item, moved, writes>>

\* A destination is written only where it differs from the stage's default.
composeTicklerDest(g, def) == IF g.dest # def THEN g.dest ELSE None

\* Kind never removes the schedule, and with it the pause.  The text of a
\* schedule survives the controls.
applyTicklerUpdate(i, g, def) ==
  IF g = None THEN i
  ELSE [i EXCEPT !.tickler = g.tickler, !.paused = g.tickler # None /\ g.paused,
                 !.dest = composeTicklerDest(g, def)]

\* A detail file is attached for a first body, and keeps an emptied one.
editedBody(i, body) ==
  IF body # None THEN body ELSE IF i.body = None THEN None ELSE Empty

\* Bug: a schedule resumes where it was paused.
stageUpdateBug(i, now, def) ==
  LET new == [i EXCEPT !.title = now.title, !.prio = now.prio, !.reason = now.reason]
  IN applyTicklerUpdate(new, now.group, def)

\* Resumed, a schedule starts from today.
stageUpdate(i, now, def) ==
  LET new == applyTicklerUpdate([i EXCEPT !.title = now.title, !.prio = now.prio, !.reason = now.reason],
                                now.group, def)
  IN IF i.paused /\ ~ new.paused /\ new.tickler # None THEN [new EXCEPT !.tickled = TRUE] ELSE new

\* What the operation, or the check of the commit, does not take.
Refused(i, now) ==
  \/ now.group # None /\ now.group.tickler # None /\ ~ Source(i.stage)
  \/ now.reason = None /\ i.stage \in needs_reason

\* The transaction: the revision is compared under the lock.
Edit(p) ==
  LET now == form[p].now IN
  /\ saving[p] # None /\ writes < MaxWrites
  /\ writes' = writes + 1
  /\ IF item = None \/ (item # None /\ Revision(item) # saving[p].expected)
     THEN UNCHANGED <<item, form>>  \* 409: the form stays, with a comparison
     ELSE IF Refused(item, now) THEN UNCHANGED <<item, form>>
     ELSE /\ item' = [stageUpdate(item, now, saving[p].def) EXCEPT !.body = editedBody(item, now.body)]
          /\ form' = [form EXCEPT ![p] = None]
  /\ saving' = [saving EXCEPT ![p] = None]
  /\ moved' = [q \in People |-> IF form'[q] = None THEN FALSE ELSE moved[q]]

-----------------------------------------------------------------------------
(* The other ways the item changes: the operations of the panel and of the *)
(* board, a command line, a tickler run.                                   *)

Write(new) ==
  /\ writes < MaxWrites
  /\ item' = new
  /\ writes' = writes + 1
  /\ moved' = [p \in People |-> moved[p] \/ (form[p] # None /\ new # None /\ new.stage # item.stage)]
  /\ UNCHANGED <<form, saving>>

\* What moveV2 does to the line: away from the tickler sources the item loses
\* its schedule; a stage that needs a reason takes the one that is there.
Moved(i, to, reason) ==
  LET kept == IF reason # None THEN [i EXCEPT !.reason = reason, !.stage = to]
                               ELSE [i EXCEPT !.stage = to]
  IN IF Source(to) THEN kept ELSE [kept EXCEPT !.tickler = None, !.paused = FALSE, !.dest = None]

\* start, move, block and unblock: one transaction each.
Move(to, reason) ==
  /\ item # None /\ to # item.stage
  /\ to \in needs_reason => reason # None \/ item.reason # None
  /\ Write(Moved(item, to, reason))

\* A pause with a reason sets the reason in a transaction of its own.
PauseReason(reason) == item # None /\ reason # item.reason /\ Write([item EXCEPT !.reason = reason])

\* The schedule comes due: a one-shot is used up and the item moves, a
\* recurring one is stamped and its item stays.
Wake ==
  /\ item # None /\ item.tickler # None /\ ~ item.paused
  /\ \/ /\ WakesTo(item) \in needs_reason => item.reason # None
        /\ Write([item EXCEPT !.tickler = None, !.dest = None, !.tickled = TRUE, !.stage = WakesTo(item)])
     \/ Write([item EXCEPT !.tickled = TRUE])

CommandLine(to) == item # None /\ to # item /\ Write(to)

Commanded(i) ==
  {[i EXCEPT !.title = t] : t \in Texts} \cup {[i EXCEPT !.body = b] : b \in Texts}
    \cup (IF Source(i.stage) THEN {[i EXCEPT !.tickler = t] : t \in Texts} ELSE {})

\* finish, and remove behind its guard: the item leaves the board.
Leave == item # None /\ Write(None)

Next ==
  \/ \E p \in People : itemPanel(p) \/ Cancel(p) \/ editItem(p) \/ Edit(p)
  \/ \E p \in People : form[p] # None /\ \E to \in Typed(form[p].was) : Type(p, to)
  \/ \E to \in Stages, reason \in Texts \cup {None} : Move(to, reason)
  \/ \E reason \in Texts : PauseReason(reason)
  \/ item # None /\ \E to \in Commanded(item) : CommandLine(to)
  \/ Wake
  \/ Leave

Spec == Init /\ [][Next]_vars

-----------------------------------------------------------------------------
TypeOK ==
  /\ item \in Items \cup {None}
  /\ \A p \in People : form[p] = None => saving[p] = None
  /\ writes \in 0..MaxWrites

\* What the save of p's form, that shows `was` and sends `now` with its
\* revision, leaves of the item and makes of it.
KeepsTheRest(p) ==
  saving[p] # None /\ saving[p].sent /\ form[p] # None /\ form'[p] = None =>
    LET was == form[p].was
        now == form[p].now
    IN /\ [panelView(item) EXCEPT !.group = None] = [was EXCEPT !.group = None]
       /\ [panelView(item') EXCEPT !.group = None] = [now EXCEPT !.group = None]
       /\ item'.stage = item.stage
       /\ was.group # None => item.tickler = was.group.tickler /\ item.paused = was.group.paused
       /\ IF was.group # None
          THEN item'.tickler = now.group.tickler
               /\ (~ moved[p] => WakesTo(item') = now.group.dest)
               /\ (~ moved[p] /\ now.group = was.group => item'.dest \in {item.dest, None})
               /\ item'.tickled = (item.tickled \/ (was.group.paused /\ ~ item'.paused /\ item'.tickler # None))
          ELSE item'.tickler = item.tickler /\ item'.paused = item.paused /\ item'.dest = item.dest

\* A save replaces nothing its form did not show, however the item changed
\* while the form was open, and what the person left alone is afterwards what
\* it was, on the item and on every other part of it.  Only a schedule that
\* is resumed moves its baseline, and a select left alone writes nothing; only
\* the stage to wake up to may change unasked, when the item was moved under
\* the form.
EditKeepsTheRest == [][\A p \in People : KeepsTheRest(p)]_vars

=============================================================================
