------------------------------- MODULE Migrate -------------------------------
(***************************************************************************)
(* Bringing an old directory up to date: --migrate first repairs shapes    *)
(* older than any version (op_migrate.go: working.md, flow-sequence tags,  *)
(* a backlog.md with no project), then folds a version-1 directory into a  *)
(* board (migrate.go).  The settings page does only the second.            *)
(*                                                                         *)
(* Each of the two is read, planned and then written file by file, and may *)
(* be interrupted between two files and run again.  Meanwhile a person     *)
(* edits the files by hand.  MigrateVersion takes its stamps when it       *)
(* writes, so what a person writes while it runs goes unnoticed; Migrate   *)
(* has those of load() for the files it stages, and none for working.md.   *)
(***************************************************************************)
EXTENDS Integers, Sequences, FiniteSets, SequencesExt

CONSTANTS
  None,
  Ids,        \* what items are called
  Slots,      \* the numbers of working files
  Notes,      \* what is written in the bodies of working and detail files
  InitDisks,  \* the directories it starts with, one of
  MaxEdits    \* bound: what a person writes

\* A line of backlog.md: of its header, or an item.  Tags that are a flow
\* sequence make an item unreadable; those that are odd do not convert.
Header  == [kind |-> "header"]
Project == [kind |-> "project"]
ItemLine(id, section, tags, detail) ==
  [kind |-> "item", id |-> id, section |-> section, tags |-> tags, detail |-> detail]

Readable(l) == l.kind = "item" /\ l.tags \notin {"flow", "odd"}

\* A working file holds an item, or is idle, and has a body; a board has cards.
Sections == {"someday", "ready", "blocked"}
ItemsIn(sections) == [kind : {"item"}, id : Ids, section : sections, tags : {"list", "flow", "odd"}, detail : BOOLEAN]
BacklogLines == {Header, Project} \cup ItemsIn(Sections)
WorkingFiles == [item : ItemsIn({"working"}) \cup {None}, body : SUBSET Notes]
Cards        == [id : Ids, stage : Sections \cup {"working"}, detail : BOOLEAN]

\* None is no file, and what it starts with is of version 1, where backlog.md
\* begins with its header.
MigrateAssumption ==
  /\ Slots \subseteq Nat /\ IsFiniteSet(Slots)
  /\ None \notin ItemsIn({"working"}) \cup WorkingFiles
  /\ None \notin Seq(BacklogLines) \cup Seq(Cards) /\ \A notes \in SUBSET Notes : notes # None
  /\ \A d \in InitDisks :
       /\ d \in [working : WorkingFiles \cup {None}, slot : [Slots -> WorkingFiles \cup {None}],
                 backlog : Seq(BacklogLines) \cup {None}, board : {None}, detail : [Ids -> (SUBSET Notes) \cup {None}]]
       /\ d.working # None => d.working.item # None
       /\ d.backlog # None => d.backlog # <<>>

VARIABLES
  disk,   \* the directory: working (working.md), slot, backlog, board, detail
  pc,     \* what runs: nothing, the repair, or the version step
  read,   \* what it read, or the last one did
  todo,   \* the changes it has to make
  edits   \* bound: so many edits by hand so far

vars == <<disk, pc, read, todo, edits>>

Init == disk \in InitDisks /\ pc = "idle" /\ read = None /\ todo = <<>> /\ edits = 0

Occupied(d)  == {s \in Slots : d.slot[s] # None /\ d.slot[s].item # None}
BacklogOf(d) == IF d.backlog = None THEN <<>> ELSE d.backlog
ItemLines(f) == SelectSeq(f, LAMBDA l : l.kind = "item")

\* The numbers of the lines that hold an item.
Listed(lines) == {n \in DOMAIN lines : Readable(lines[n])}

\* The members of a set of numbers, the least first.
Ordered(S) == [n \in 1..Cardinality(S) |-> CHOOSE x \in S : Cardinality({y \in S : y <= x}) = n]

\* The items and the notes that some file of the directory holds.  The body of
\* an idle working file is not counted.
Items(d) ==
  {BacklogOf(d)[n].id : n \in Listed(BacklogOf(d))} \cup {d.slot[s].item.id : s \in Occupied(d)}
  \cup (IF d.working = None THEN {} ELSE {d.working.item.id})
  \cup (IF d.board = None THEN {} ELSE {d.board[i].id : i \in DOMAIN d.board})

Written(d) ==
  UNION ({d.slot[s].body : s \in Occupied(d)}
         \cup {d.detail[id] : id \in {id \in Ids : d.detail[id] # None}}
         \cup (IF d.working = None THEN {} ELSE {d.working.body}))

\* Somebody's editor: another line in backlog.md, or a note in a working file.
Person ==
  /\ edits < MaxEdits
  /\ edits' = edits + 1
  /\ \/ /\ disk.backlog # None
        /\ \E l \in {Project} \cup {ItemLine(id, "ready", "list", FALSE) : id \in Ids \ Items(disk)} :
             /\ l \notin ToSet(disk.backlog)
             /\ disk' = [disk EXCEPT !.backlog = IF l = Project THEN InsertAt(@, 2, l) ELSE Append(@, l)]
     \/ \E s \in Occupied(disk), n \in Notes \ Written(disk) :
          disk' = [disk EXCEPT !.slot[s].body = @ \cup {n}]
  /\ UNCHANGED <<pc, read, todo>>

-----------------------------------------------------------------------------
(* Migrate: the shapes older than any version.                             *)

\* migrateTagsLine; an empty sequence drops the field.
Converted(l) == IF l.kind = "item" /\ l.tags = "flow" THEN [l EXCEPT !.tags = "list"] ELSE l

\* Lines are replaced by the number they had when the file was parsed.
migrateTags(lines, parsed) ==
  [i \in DOMAIN lines |-> IF i \in DOMAIN parsed /\ Converted(parsed[i]) # parsed[i]
                          THEN Converted(parsed[i]) ELSE lines[i]]

\* A project name goes into the header.
migrateProject(lines) == IF Project \in ToSet(lines) THEN lines ELSE InsertAt(lines, 2, Project)

Repaired(lines) == migrateProject(migrateTags(lines, lines))

\* freeSlotName: the lowest number no working file is seen to have.  Beside a
\* board none is seen, so that the lowest of all is free, whatever is there.
Free(d) == LET unseen == {s \in Slots : d.board # None \/ d.slot[s] = None}
           IN {s \in unseen : \A r \in unseen : s <= r}

Change(file, at, to) == [file |-> file, at |-> at, to |-> to]

\* The new name is written first, working.md is deleted last.  Beside a board
\* backlog.md is not read.
RepairPlan(d) ==
  LET renames == d.working # None
      slot    == IF renames THEN [i \in 1..1 |-> Change("slot", CHOOSE s \in Free(d) : TRUE, d.working)]
                 ELSE <<>>
      backlog == IF d.board # None \/ d.backlog = None \/ Repaired(BacklogOf(d)) = d.backlog THEN <<>>
                 ELSE <<Change("backlog", None, Repaired(d.backlog))>>
  IN slot \o backlog \o (IF renames THEN <<Change("working", None, None)>> ELSE <<>>)

\* The check before the commit: making a line readable may reveal that its id
\* is taken.  The file working.md becomes is not part of it.
Unique(lines) == \A m, n \in Listed(lines) : lines[m].id = lines[n].id => m = n

Reveals(d) == d.board = None /\ d.backlog # None /\ Unique(d.backlog) /\ ~Unique(Repaired(d.backlog))

Start(what, d, plan) == pc' = what /\ read' = d /\ todo' = plan /\ UNCHANGED <<disk, edits>>

RunRepair ==
  /\ pc = "idle"
  /\ disk.working # None => Free(disk) # {}
  /\ ~Reveals(disk) /\ RepairPlan(disk) # <<>>
  /\ Start("repair", disk, RepairPlan(disk))

-----------------------------------------------------------------------------
(* MigrateVersion: from version 1 to 2.                                    *)

Stages == [ready |-> "ready", blocked |-> "blocked", someday |-> "someday"]
Card(id, stage, detail) == [id |-> id, stage |-> stage, detail |-> detail]

\* Empty sections contribute nothing.
Folds(d, s) == d.slot[s].body # {}

\* The board of a directory: the backlog's items by stage, then the slots'.
Board(d) ==
  LET lines == BacklogOf(d)
      cards(sec) == LET at == Ordered({n \in Listed(lines) : lines[n].section = sec})
                    IN [i \in DOMAIN at |-> Card(lines[at[i]].id, Stages[sec], lines[at[i]].detail)]
      slots == Ordered(Occupied(d))
      folded == [i \in DOMAIN slots |->
                   LET it == d.slot[slots[i]].item
                   IN Card(it.id, "working", it.detail \/ Folds(d, slots[i]))]
  IN cards("someday") \o cards("ready") \o cards("blocked") \o folded

\* The detail file of a slot's item, with the slot's body in it.
foldWorkingBody(d, s) ==
  LET it == d.slot[s].item
  IN (IF it.detail THEN d.detail[it.id] ELSE {}) \cup d.slot[s].body

\* What stops it: a line that would be missing from the board, a detail file
\* in the way or not there, an id twice.
Refused(d) ==
  \/ d.backlog = None
  \/ \E n \in DOMAIN d.backlog : d.backlog[n].kind = "item" /\ ~Readable(d.backlog[n])
  \/ \E n \in Listed(d.backlog) : d.backlog[n].detail # (d.detail[d.backlog[n].id] # None)
  \/ \E s \in Occupied(d) : Folds(d, s) /\ (d.slot[s].item.detail <=> d.detail[d.slot[s].item.id] = None)
  \/ ~IsInjective([i \in DOMAIN Board(d) |-> Board(d)[i].id])
  \/ Project \notin ToSet(d.backlog)

\* Bug: the old files go first.
OrderBug(writes, deletes) == deletes \o writes

\* writeSet.Commit.
Order(writes, deletes) == writes \o deletes

VersionPlan(d) ==
  LET folding == Ordered({s \in Occupied(d) : Folds(d, s)})
      details == [i \in DOMAIN folding |->
                    Change("detail", d.slot[folding[i]].item.id, foldWorkingBody(d, folding[i]))]
      files   == Ordered({s \in Slots : d.slot[s] # None})
      drops   == [i \in DOMAIN files |-> Change("slot", files[i], None)]
  IN Order(<<Change("board", None, Board(d))>> \o details, <<Change("backlog", None, None)>> \o drops)

\* A directory with a board is at version 2, whatever else it holds.
RunVersion ==
  /\ pc = "idle" /\ disk.board = None
  /\ ~Refused(disk)
  /\ Start("version", disk, VersionPlan(disk))

-----------------------------------------------------------------------------
\* checkUnchanged, before the first write.  The version step has stamps that
\* are as new as its commit; the new working file's was taken with the plan.
Unchanged ==
  pc = "repair" => \A i \in DOMAIN todo :
    /\ todo[i].file = "backlog" => disk.backlog = read.backlog
    /\ todo[i].file = "slot" => disk.slot[todo[i].at] = read.slot[todo[i].at]

Fresh == todo = IF pc = "repair" THEN RepairPlan(read) ELSE VersionPlan(read)

Apply ==
  /\ pc # "idle" /\ todo # <<>>
  /\ Fresh => Unchanged
  /\ LET c == Head(todo)
     IN disk' = CASE c.file = "slot"    -> [disk EXCEPT !.slot[c.at] = c.to]
                  [] c.file = "detail"  -> [disk EXCEPT !.detail[c.at] = c.to]
                  [] c.file = "backlog" -> [disk EXCEPT !.backlog = c.to]
                  [] c.file = "working" -> [disk EXCEPT !.working = c.to]
                  [] c.file = "board"   -> [disk EXCEPT !.board = c.to]
  /\ todo' = Tail(todo)
  /\ pc' = IF todo' = <<>> THEN "idle" ELSE pc
  /\ UNCHANGED <<read, edits>>

\* A conflict, a failed write, or the end of the process.
Abandon == /\ pc # "idle" /\ pc' = "idle" /\ todo' = <<>>
           /\ UNCHANGED <<disk, read, edits>>

Next == Person \/ RunRepair \/ RunVersion \/ Apply \/ Abandon

Spec == Init /\ [][Next]_vars

-----------------------------------------------------------------------------
\* What the working file holds that working.md takes the place of, where one
\* is there that was not seen.
Overwritten(d) == IF d.working = None THEN {}
                  ELSE UNION {d.slot[s].body : s \in {s \in Free(d) : d.slot[s] # None}}

\* At every point of a migration, and after any number of interrupted ones,
\* every item and every note that the last one read is in some file, but what
\* was written in the working file of the lowest number, where that is still
\* there, and working.md too, after a version step that was interrupted.  Once
\* there is a board, every item that was read is on it, as nothing else of the
\* old directory is read from then on.
NothingDropped ==
  read # None =>
    /\ Items(read) \subseteq Items(disk)
    /\ Written(read) \subseteq Written(disk) \cup Overwritten(read)
    /\ disk.board # None /\ read.board = None =>
         Items([read EXCEPT !.working = None]) \subseteq Items([disk EXCEPT !.backlog = None, !.working = None,
                                                            !.slot = [s \in Slots |-> None]])

\* "an interruption leaves a duplicate to re-run over, never a hole"
\* (spec-tools.md, 7, rule 4), of what is written as of the items.
NoHole == read # None => Written(read) \subseteq Written(disk)

\* The repair changes the tags of a line and nothing else: no line takes the
\* place of another (op_migrate.go:105: the other order rewrote the line after
\* each item).
LinesStay ==
  [][Apply /\ pc = "repair" /\ disk'.backlog # disk.backlog =>
       ItemLines(disk'.backlog) = [i \in DOMAIN ItemLines(read.backlog) |-> Converted(ItemLines(read.backlog)[i])]]_vars

=============================================================================
