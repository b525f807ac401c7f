------------------------------- MODULE Archive -------------------------------
(***************************************************************************)
(* Rolling old months out of done.md: op_archive.go over done.md, the      *)
(* details/ directory, and one done-YYYY.md and one details-YYYY/ a year.  *)
(*                                                                         *)
(* The archives are outside what --check reads, so nothing tells later     *)
(* what a run lost.  A run is one transaction of several files; it may be  *)
(* interrupted between any two of them and run again, after items were     *)
(* edited in between.  done.md may hold an id twice, and the board an id   *)
(* that done.md holds too: that is what a merge leaves.                    *)
(***************************************************************************)
EXTENDS Integers, Sequences, FiniteSets, SequencesExt

CONSTANTS
  None,
  Ids,       \* the items
  Merged,    \* the ids that may be closed twice
  OnBoard,   \* the ids the board claims a detail file for
  MaxMonth,  \* bound: the months there are
  MaxRev     \* bound: the edits of a detail file

Months  == 1..MaxMonth
\* Two months a year.
YearOf(m) == (m + 1) \div 2
Years   == {YearOf(m) : m \in Months}

\* Where the detail: field of a closed item's line points: nowhere, to the
\* item's file in details/, or to its file in a details-YYYY/.
Line == [id : Ids, copy : 1..2, detail : {"none", "own", "moved"}]

VARIABLES
  now,      \* the month
  done,     \* done.md: the lines of each month, newest first
  archive,  \* done-YYYY.md of each year
  detail,   \* details/: None, or the revision of an item's file
  moved,    \* details-YYYY/ of each year
  todo,     \* the changes a run still has to make, in their order
  cutoff,   \* the month that run archives before, 0 between runs
  rev,      \* history: the last revision of each item's file
  closed    \* history: how often each id was closed

vars == <<now, done, archive, detail, moved, todo, cutoff, rev, closed>>

NoLines == [m \in Months |-> <<>>]
Idle    == todo = <<>>

Init ==
  /\ now = 1
  /\ done = NoLines
  /\ archive = [y \in Years |-> NoLines]
  /\ detail = [id \in Ids |-> IF id \in OnBoard THEN 1 ELSE None]
  /\ moved = [y \in Years |-> [id \in Ids |-> None]]
  /\ todo = <<>>
  /\ cutoff = 0
  /\ rev = [id \in Ids |-> IF id \in OnBoard THEN 1 ELSE 0]
  /\ closed = [id \in Ids |-> 0]

LinesOf(f) == UNION {ToSet(f[m]) : m \in Months}
IdsOf(f)   == {l.id : l \in LinesOf(f)}
AllIds(f)  == LET all == FlattenSeq(f) IN [i \in DOMAIN all |-> all[i].id]
Closed == LinesOf(done) \cup UNION {LinesOf(archive[y]) : y \in Years}

\* --finish, seen from done.md; the second copy of an id comes in by a merge.
Finish(id, how) ==
  /\ Idle /\ closed[id] < IF id \in Merged THEN 2 ELSE 1
  /\ closed' = [closed EXCEPT ![id] = @ + 1]
  /\ done' = [done EXCEPT ![now] = <<[id |-> id, copy |-> closed'[id], detail |-> how]>> \o @]
  /\ detail' = [detail EXCEPT ![id] = IF how = "own" /\ @ = None THEN 1 ELSE @]
  /\ rev' = [rev EXCEPT ![id] = IF how = "own" /\ @ = 0 THEN 1 ELSE @]
  /\ UNCHANGED <<now, archive, moved, todo, cutoff>>

\* A person writes in the detail file of an item.
Edit(id) ==
  /\ Idle /\ detail[id] # None /\ rev[id] < MaxRev
  /\ rev' = [rev EXCEPT ![id] = @ + 1]
  /\ detail' = [detail EXCEPT ![id] = rev[id] + 1]
  /\ UNCHANGED <<now, done, archive, moved, todo, cutoff, closed>>

NextMonth == /\ Idle /\ now < MaxMonth /\ now' = now + 1
             /\ UNCHANGED <<done, archive, detail, moved, todo, cutoff, rev, closed>>

-----------------------------------------------------------------------------
\* The items that leave, in the order they are put into the archives: the
\* newest month first, in a month the oldest item first, as each one is
\* inserted above those before it.
Leaving(cut) ==
  LET month(m) == [i \in DOMAIN done[m] |-> [month |-> m, line |-> Reverse(done[m])[i]]]
  IN FlattenSeq([i \in 1..(cut - 1) |-> month(cut - i)])

\* The detail paths an item that stays claims.
stillClaimed(cut) ==
  OnBoard \cup {l.id : l \in {l \in UNION {ToSet(done[m]) : m \in {m \in Months : m >= cut}} :
                              l.detail = "own"}}

\* The places whose item takes its detail file along.  The file is out of the
\* model with the first that does.
moveArchivedDetail(q, cut) ==
  LET own(i) == /\ q[i].line.detail = "own" /\ detail[q[i].line.id] # None
                /\ q[i].line.id \notin stillClaimed(cut)
  IN {i \in DOMAIN q : own(i) /\ \A j \in 1..(i - 1) : own(j) => q[j].line.id # q[i].line.id}

\* The archive of the year holds the id, from before or since this run began.
held(q, i) ==
  LET y == YearOf(q[i].month)
  IN \/ \E l \in LinesOf(archive[y]) : l.id = q[i].line.id
     \/ \E j \in 1..(i - 1) : YearOf(q[j].month) = y /\ q[j].line.id = q[i].line.id

\* done-YYYY.md with what the run adds to it.
Rolled(y, q, cut) ==
  LET rewritten(i) == IF i \in moveArchivedDetail(q, cut)
                      THEN [q[i].line EXCEPT !.detail = "moved"] ELSE q[i].line
      added(m) == SelectSeq([i \in DOMAIN q |-> i], LAMBDA i : q[i].month = m /\ ~held(q, i))
  IN [m \in Months |->
        IF YearOf(m) = y THEN Reverse([k \in DOMAIN added(m) |-> rewritten(added(m)[k])]) \o archive[y][m]
        ELSE archive[y][m]]

\* Bug: done.md is written before the archives are.
orderBug(copies, archives, rest) == copies \o rest \o archives

\* writeSet.Commit: the copies of the detail files, the archives, done.md, and
\* then the deletions.
order(copies, archives, rest) == copies \o archives \o rest

Change(file, year, id, to) == [file |-> file, year |-> year, id |-> id, to |-> to]

\* The changes of a run, in the order they are made.
Plan(cut) ==
  LET q      == Leaving(cut)
      travel == SetToSortSeq(moveArchivedDetail(q, cut), <)
      years  == SetToSortSeq({YearOf(q[i].month) : i \in DOMAIN q}, >)
      copies == [k \in DOMAIN travel |->
                   LET e == q[travel[k]]
                   IN Change("copy", YearOf(e.month), e.line.id, detail[e.line.id])]
      files  == [k \in DOMAIN years |-> Change("archive", years[k], None, Rolled(years[k], q, cut))]
      rest   == [m \in Months |-> IF m < cut THEN <<>> ELSE done[m]]
      drops  == [k \in DOMAIN travel |-> Change("drop", 0, q[travel[k]].line.id, None)]
  IN IF q = <<>> THEN <<>> ELSE order(copies, files, <<Change("done", 0, None, rest)>>) \o drops

\* --archive --before a month.  What is read, planned and checked happens
\* between two changes of the disk.
RunArchive(cut) ==
  /\ Idle
  /\ todo' = Plan(cut)
  /\ todo' # <<>>
  /\ cutoff' = cut
  /\ UNCHANGED <<now, done, archive, detail, moved, rev, closed>>

Apply ==
  /\ todo # <<>>
  /\ LET c == Head(todo)
     IN /\ done' = IF c.file = "done" THEN c.to ELSE done
        /\ archive' = IF c.file = "archive" THEN [archive EXCEPT ![c.year] = c.to] ELSE archive
        /\ moved' = IF c.file = "copy" THEN [moved EXCEPT ![c.year][c.id] = c.to] ELSE moved
        /\ detail' = IF c.file = "drop" THEN [detail EXCEPT ![c.id] = None] ELSE detail
  /\ todo' = Tail(todo)
  /\ cutoff' = IF todo' = <<>> THEN 0 ELSE cutoff
  /\ UNCHANGED <<now, rev, closed>>

\* The process dies, or a write fails, between two changes.
Interrupt == /\ todo # <<>> /\ todo' = <<>> /\ cutoff' = 0
             /\ UNCHANGED <<now, done, archive, detail, moved, rev, closed>>

Next ==
  \/ \E id \in Ids : Edit(id) \/ \E how \in {"none", "own"} : Finish(id, how)
  \/ NextMonth
  \/ \E cut \in 2..(MaxMonth + 1) : RunArchive(cut)
  \/ Apply \/ Interrupt

Spec == Init /\ [][Next]_vars

-----------------------------------------------------------------------------
\* Every line is in one of its forms, and a run in progress has a cutoff.
TypeOK ==
  /\ LinesOf(done) \cup UNION {LinesOf(archive[y]) : y \in Years} \subseteq Line
  /\ cutoff = 0 <=> Idle
  /\ \A id \in Ids : detail[id] \in {None} \cup 0..MaxRev

\* At every point of a run, and however often one is interrupted, a closed
\* item's file is where its line says: an archived line that names a file in
\* details-YYYY/ has it there, and what was last written about an item is in
\* one of the places.  A test of one interruption per place would need one
\* for each order of edits, runs and merges.
DetailsFollow ==
  /\ \A y \in Years : \A l \in LinesOf(archive[y]) : l.detail = "moved" => moved[y][l.id] # None
  /\ \A id \in Ids \ Merged : rev[id] > 0 => rev[id] \in {detail[id]} \cup {moved[y][id] : y \in Years}

\* No id is lost: one that done.md or an archive held, one of them holds, at
\* every point of every run.  And a run that ends leaves nothing of the months
\* it archived in done.md, and every id of them in the year's archive, once:
\* also when an earlier run was interrupted after it had written the archive.
RunsHeal ==
  [][/\ {l.id : l \in Closed} \subseteq {l.id : l \in Closed'}
     /\ Apply /\ todo' = <<>> =>
          \A m \in 1..(cutoff - 1) :
            /\ done'[m] = <<>>
            /\ \A l \in ToSet(done[m]) : l.id \in IdsOf(archive'[YearOf(m)])
            /\ IsInjective(AllIds(archive'[YearOf(m)]))]_vars

=============================================================================
