---------------------------------- MODULE Fix ----------------------------------
(***************************************************************************)
(* Two branches of a repository give out the same ids, a person merges     *)
(* them, and --fix (op_fix.go) repairs what the merge left.                *)
(*                                                                         *)
(* A branch adds items, with detail files, and moves them on.  The merge   *)
(* keeps every line of both; where both have a detail file of one name,    *)
(* or a next_id, the person keeps one of the two, and may lose one.  A     *)
(* title stands for the item, and for the text of the file that carries    *)
(* it.                                                                     *)
(*                                                                         *)
(* The repair reads backlog.md, which a directory of version 2 does not    *)
(* have: there it crashes.  This build's operations write version 2 only   *)
(* (refuseIfV1).  Those of version 1 are done by an older build (the same  *)
(* code, addV1, startV1 and finishV1), by the Python implementation (mmx), *)
(* or by hand (SKILL.md, Operations by hand); and --migrate refuses a      *)
(* directory with an id twice, so that it is --fix that a merge of them    *)
(* goes to.                                                                *)
(***************************************************************************)
EXTENDS Integers, Sequences, FiniteSetsExt

CONSTANTS
  None,
  Branches,  \* the two branches
  MaxAdds,   \* bound: items a branch adds
  MaxDay     \* bound: the days they are created on

MaxId == 4 * MaxAdds  \* bound: ids given out, by the branches and the repair
Ids   == 1..MaxId

\* ASSUMEd in MCTools.  None is no title and no id.
FixAssumption ==
  /\ \E ours, theirs \in Branches : ours # theirs /\ Branches = {ours, theirs}
  /\ MaxAdds \in Nat /\ MaxDay \in Nat
  /\ None \notin Ids \cup (Branches \X Ids)

Homes == <<"backlog", "working", "done">>

VARIABLES
  version, \* of the format: 1, or 2
  day,     \* the date
  branch,  \* the directory of each branch
  dir,     \* the merged directory
  merged,  \* history: the directory as the person left it
  phase    \* "apart", "merged", "refused", "crashed" or "fixed"

vars == <<version, day, branch, dir, merged, phase>>

\* The lines of the items, the title each detail file carries, and next_id.
Empty == [items |-> {}, files |-> [id \in Ids |-> None], next |-> 1]

Init ==
  /\ version \in {1, 2}
  /\ day = 1
  /\ branch = [b \in Branches |-> Empty]
  /\ dir = Empty
  /\ merged = Empty
  /\ phase = "apart"

NextDay == /\ phase = "apart" /\ day < MaxDay /\ day' = day + 1
           /\ UNCHANGED <<version, branch, dir, merged, phase>>

\* To the end of a section, or of a stage, under the next id.
Add(b, detail) ==
  LET d    == branch[b]
      item == [title |-> <<b, d.next>>, id |-> d.next, rank |-> 1, created |-> day,
               detail |-> IF detail THEN d.next ELSE None]
  IN /\ phase = "apart" /\ d.next <= MaxAdds
     /\ branch' = [branch EXCEPT ![b] =
          [items |-> d.items \cup {item},
           files |-> IF detail THEN [d.files EXCEPT ![d.next] = item.title] ELSE d.files,
           next  |-> d.next + 1]]
     /\ UNCHANGED <<version, day, dir, merged, phase>>

\* From the backlog to a working slot or stage, and from either to done.md.
\* That a finish may give an item its detail file leads to no other directory.
Advance(b, item, home) ==
  /\ phase = "apart" /\ item.rank < home
  /\ branch' = [branch EXCEPT ![b].items = (@ \ {item}) \cup {[item EXCEPT !.rank = home]}]
  /\ UNCHANGED <<version, day, dir, merged, phase>>

\* A file that both have is kept as one of them has it.
MergedFile(id, first, second) ==
  IF branch[first].files[id] # None THEN branch[first].files[id] ELSE branch[second].files[id]

Merge ==
  /\ phase = "apart"
  /\ \E kept \in [1..MaxAdds -> Branches], counter \in Branches, lost \in {None} \cup 1..MaxAdds :
       dir' = [items |-> UNION {branch[b].items : b \in Branches},
               files |-> [id \in Ids |-> IF id > MaxAdds \/ id = lost THEN None
                                         ELSE MergedFile(id, kept[id], CHOOSE b \in Branches : b # kept[id])],
               next  |-> branch[counter].next]
  /\ merged' = dir'
  /\ phase' = "merged"
  /\ UNCHANGED <<version, day, branch>>

-----------------------------------------------------------------------------
(* The repair.                                                             *)

GroupOf(id) == {i \in dir.items : i.id = id}
Duplicated  == {id \in Ids : Cardinality(GroupOf(id)) > 1}

\* Bug: the older copy wins wherever it is.
beatsBug(a, b) == a.created < b.created

\* The copy further along is the one that is true; in one home, the older.
beats(a, b) == a.rank > b.rank \/ (a.rank = b.rank /\ a.created < b.created)

Tied(id) == \E a, b \in GroupOf(id) : a # b /\ ~ beats(a, b) /\ ~ beats(b, a)

Winner(id) == CHOOSE w \in GroupOf(id) : \A i \in GroupOf(id) \ {w} : beats(w, i)
Loser(id)  == CHOOSE l \in GroupOf(id) : l # Winner(id)

\* next_id is raised over every id, and never lowered.
FirstFree == Max({dir.next} \cup {i.id + 1 : i \in dir.items})

NewId(id) == FirstFree + Cardinality({d \in Duplicated : d < id})

\* The file follows the item whose title it carries.
FileIsWinners(id) == dir.files[id] = Winner(id).title
FileIsLosers(id)  == dir.files[id] = Loser(id).title

Renamed(id) == FileIsLosers(id) /\ Loser(id).detail = id

Renumbered(id) ==
  [Loser(id) EXCEPT !.id = NewId(id), !.detail = IF Renamed(id) THEN NewId(id) ELSE None]

\* A winner without a detail file takes over the one the other releases; the
\* winner loses the claim on one that was renamed away.
claimOf(id) ==
  IF FileIsWinners(id) /\ Loser(id).detail = id THEN id
  ELSE IF Renamed(id) THEN None ELSE Winner(id).detail

Fixed ==
  [items |-> {i \in dir.items : i.id \notin Duplicated}
               \cup {Renumbered(id) : id \in Duplicated}
               \cup {[Winner(id) EXCEPT !.detail = claimOf(id)] : id \in Duplicated},
   files |-> LET gone == {id \in Duplicated : Renamed(id)}
             IN [id \in Ids |->
                   IF id \in gone THEN None
                   ELSE IF \E d \in gone : NewId(d) = id THEN dir.files[CHOOSE d \in gone : NewId(d) = id]
                   ELSE dir.files[id]],
   next  |-> FirstFree + Cardinality(Duplicated)]

\* What is neither an id twice nor a next_id too low: a claim on a file that
\* is not there.
Blocked == \E i \in dir.items : i.detail # None /\ dir.files[i.detail] = None

\* Nothing is written in the way of something else that is wrong, or when a
\* copy cannot be chosen.
Refuse ==
  /\ phase = "merged" /\ version = 1
  /\ Blocked \/ \E id \in Duplicated : Tied(id)
  /\ phase' = "refused"
  /\ UNCHANGED <<version, day, branch, dir, merged>>

Repair ==
  /\ phase \in {"merged", "fixed"} /\ version = 1
  /\ ~Blocked /\ \A id \in Duplicated : ~ Tied(id)
  /\ dir' = Fixed
  /\ phase' = "fixed"
  /\ UNCHANGED <<version, day, branch, merged>>

\* m.backlog is nil.
Crash ==
  /\ phase = "merged" /\ version = 2
  /\ phase' = "crashed"
  /\ UNCHANGED <<version, day, branch, dir, merged>>

\* "edit one item's created:"
EditCreated(item) ==
  /\ phase = "refused"
  /\ \E id \in Duplicated : Tied(id) /\ item.id = id
  /\ dir' = [dir EXCEPT !.items = (@ \ {item}) \cup {[item EXCEPT !.created = 0]}]
  /\ merged' = dir'
  /\ phase' = "merged"
  /\ UNCHANGED <<version, day, branch>>

\* The person takes the file that is missing from a branch.
Restore(item, b) ==
  /\ phase = "refused"
  /\ item.detail # None /\ dir.files[item.detail] = None /\ branch[b].files[item.detail] # None
  /\ dir' = [dir EXCEPT !.files[item.detail] = branch[b].files[item.detail]]
  /\ merged' = dir'
  /\ phase' = "merged"
  /\ UNCHANGED <<version, day, branch>>

Next ==
  \/ NextDay \/ Merge \/ Refuse \/ Repair \/ Crash
  \/ \E b \in Branches :
       \/ \E detail \in BOOLEAN : Add(b, detail)
       \/ \E item \in branch[b].items, home \in DOMAIN Homes : Advance(b, item, home)
  \/ \E item \in dir.items : EditCreated(item) \/ \E b \in Branches : Restore(item, b)

Spec == Init /\ [][Next]_vars

-----------------------------------------------------------------------------
\* What --check asks of the ids, and of the claims on detail files.
Clean(d) ==
  /\ \A i, j \in d.items : i.id = j.id => i = j
  /\ \A i \in d.items : i.id < d.next /\ (i.detail # None => d.files[i.detail] = i.title)
  /\ \A id \in Ids : d.files[id] # None => \E i \in d.items : i.detail = id /\ i.id = id

\* In a directory of version 1 the repair leaves nothing for --check to find,
\* whatever both branches did and whichever file the person kept; it loses no
\* item and no file's text, and an item that is further along than its
\* namesake keeps its id.  Run again, it does nothing.  Where it refuses, and
\* where it crashes, as it always does on version 2, it has written nothing.
FixRepairs ==
  /\ phase = "fixed" =>
       /\ version = 1
       /\ Clean(dir)
       /\ {i.title : i \in dir.items} = {i.title : i \in merged.items}
       /\ {dir.files[id] : id \in Ids} = {merged.files[id] : id \in Ids}
       /\ \A i \in dir.items, j \in merged.items :
            i.title = j.title /\ (\A k \in merged.items \ {j} : k.id = j.id => k.rank < j.rank) => i.id = j.id
       /\ Fixed = dir
  /\ phase \in {"refused", "crashed"} => dir = merged

=============================================================================
