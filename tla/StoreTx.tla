------------------------------- MODULE StoreTx -------------------------------
(***************************************************************************)
(* The transactions of FileTx over the files and operations of Directory:  *)
(* board.md, done.md, audit.md and details/, and what a crash in the       *)
(* middle of one, or another process reading in the middle of one, leaves  *)
(* to be seen.  One Store writes; others only read.                        *)
(***************************************************************************)
EXTENDS Directory

CONSTANTS
  Stores, Workers, NoWorker, StoreOf, Faults, MaxOps,  \* as in FileTx
  RequestsOf,  \* what each caller asks for
  InitDirs     \* the directories it starts with, one of

VARIABLES content, version, clock, lock, pc, request, at, listing, stamp, copy,
          plan, todo, dels, checked, ops

AuditMd == File("audit")

\* Bug: done.md before board.md.
ReadOrderBug == <<File("done"), File("board"), AuditMd>> \o [id \in Ids |-> DetailName(id)]

\* board.md, done.md, audit.md, then details/ by name.
ReadOrder == <<File("board"), File("done"), AuditMd>> \o [id \in Ids |-> DetailName(id)]
Details   == {DetailName(id) : id \in Ids}
Values    == BoardFile \cup DoneFile \cup DetailFile \cup Nat

\* The directory in the files, and the files of a directory whose audit.md
\* has so many transactions logged in it.
DirOf(c) == [board |-> c[File("board")], done |-> c[File("done")],
             detail |-> [id \in Ids |-> c[DetailName(id)]]]

ContentOf(d, audit) == [f \in ToSet(ReadOrder) |-> IF f = AuditMd THEN audit ELSE Content(d, f)]

\* A request is the operation, its item and its one option.
NewRequest(bodied) ==
  [title |-> CHOOSE t \in Titles : TRUE, stage |-> None, reason |-> FALSE, top |-> FALSE,
   body |-> IF bodied THEN Notes ELSE {}, tickler |-> None, dest |-> None, paused |-> FALSE]

Retitle(d, id) == CHOOSE t \in Titles : t # ItemAt(d, Home(d, id), id).title

Results(d, r) ==
  LET note == CHOOSE n \in Notes : TRUE
  IN CASE r.op = "list"   -> {Result(d, <<>>, <<>>, {})}
       [] r.op = "add"    -> addV2(d, NewRequest(r.option), 1)
       [] r.op = "finish" -> finishV2(d, r.id, IF r.option THEN note ELSE None)
       [] r.op = "remove" -> removeInternal(d, r.id, r.option)
       [] r.op = "note"   -> Note(d, r.id, note)
       [] r.op = "attach" -> AttachDetail(d, r.id, {})
       [] r.op = "detach" -> DetachDetail(d, r.id, r.option)
       [] r.op = "edit"   -> IF Home(d, r.id) = None THEN {}
                             ELSE Update(d, r.id, [field |-> "title", value |-> Retitle(d, r.id)], 1)

\* appendAuditEntries stages audit.md behind the files it is about.
Logged(files) == Append(files, AuditMd)

\* tx.commit up to the writes.  audit.md is staged last, after the check.
Plan(c, request_) ==
  LET d == DirOf(c)
      planned(r) ==
        LET files  == Staged(d, r)
            logged == files # <<>> \/ r.deletes # <<>>
        IN [target  |-> ContentOf(r.dir, IF logged THEN c[AuditMd] + 1 ELSE c[AuditMd]),
            writes  |-> IF logged THEN Logged(files) ELSE files,
            deletes |-> r.deletes]
  IN {planned(r) : r \in {r \in Results(d, request_) : Commits(d, r)}}

\* What a caller may ask for.
Call == [op : {"list", "add"}, id : {0}, option : BOOLEAN]
        \cup [op : {"finish", "remove", "note", "attach", "detach", "edit"}, id : Ids, option : BOOLEAN]

OnlyReads(w) == \A r \in RequestsOf[w] : r.op = "list"

\* Of two Stores one only reads; the directory may be one that --check rejects.
ASSUME StoreTxAssumption ==
  /\ StoreOf \in [Workers -> Stores]
  /\ NoWorker \notin Workers
  /\ MaxOps \in Nat
  /\ DOMAIN RequestsOf = Workers
  /\ \A w \in Workers : RequestsOf[w] \subseteq Call /\ RequestsOf[w] # {}
  /\ \A v, w \in Workers : StoreOf[v] # StoreOf[w] => OnlyReads(v) \/ OnlyReads(w)
  /\ \A d \in InitDirs :
       /\ d \in Dir /\ Grouped(d.board)
       /\ \A id \in Ids : d.board.item[id] # None => id < d.board.next
  /\ Notes # {} /\ Titles # {}
  /\ \A t \in Titles : \E u \in Titles : u # t

InitContents == {ContentOf(d, 0) : d \in InitDirs}

INSTANCE FileTx WITH Absent <- None

-----------------------------------------------------------------------------
Changing(w) == pc[w] = "writing" /\ plan[w].writes \o plan[w].deletes # <<>>

\* What one Store's transactions are to the directory: atomic but for an
\* interruption.  Until the last change is made the directory still counts as
\* it was read; an interrupted transaction is what it left.
Committed == IF \E w \in Workers : Changing(w)
             THEN copy[CHOOSE w \in Workers : Changing(w)] ELSE content

Atomic == INSTANCE AtomicTx WITH
            content <- Committed, Files <- ToSet(ReadOrder),
            Requests <- UNION {RequestsOf[w] : w \in Workers}

\* The transactions of one Store are atomic, one after the other, each from
\* what the last one left; a crash or an I/O error leaves a prefix of one.
TransactionsAtomic == Atomic!Spec

\* No write and no delete takes the last copy of an item off the disk, but
\* those of a --remove of that item.  So a crash between any two of them
\* loses no item (tx.go: "write the copy before removing the original").
ItemsKept ==
  [][\A id \in Ids :
       Home(DirOf(content), id) # None /\ Home(DirOf(content'), id) = None =>
         \E w \in Workers : Changing(w) /\ request[w].op = "remove" /\ request[w].id = id]_vars

\* A directory but for what the detail files say.
Shape(d) == [d EXCEPT !.detail = [id \in Ids |-> IF d.detail[id] = None THEN None
                                                 ELSE d.detail[id].title]]

\* The log never runs ahead of the files: when audit.md has a transaction's
\* entries, every file it wrote is on disk.
AuditNeverAhead ==
  \A w \in Workers : Changing(w) /\ content[AuditMd] # copy[w][AuditMd] =>
    \A i \in DOMAIN plan[w].writes :
      content[plan[w].writes[i]] = plan[w].target[plan[w].writes[i]]

\* What --check may say of an item that half of a transaction has reached.
Concerning(id) ==
  {<<"I1", id>>, <<"I9 orphan", id>>, <<"I9 claims", id>>}
  \cup {<<"I8", h, id>> : h \in {"board", "done"}}
  \cup {<<"I9 title", id, t, u>> : t, u \in Titles}

\* Half a transaction is never mistaken for a whole one: in the middle of its
\* writes the board, done.md and the set of detail files are as before, or as
\* after, or --check reports the very item it is about, that of an --add the
\* one it adds (tx.go: "an interruption fails validation loudly"), and the log
\* does not claim it.
TornIsLoud ==
  /\ AuditNeverAhead
  /\ \A w \in Workers : Changing(w) =>
    LET before == DirOf(copy[w])
        now    == DirOf(content)
        item   == IF request[w].op = "add" THEN before.board.next ELSE request[w].id
    IN \/ Shape(now) \in {Shape(before), Shape(DirOf(plan[w].target))}
       \/ \E v \in Concerning(item) : v \in validate(now)

\* A load() by another process, whatever transaction it overlaps, may see an
\* item twice but never misses one: every item that was on disk from before
\* it read board.md until it is done is in what it read.
LoadMissesNothing ==
  \A w \in Workers : pc[w] = "loading" /\ at[w] > Len(ReadOrder) =>
    \A id \in 1..(copy[w][File("board")].next - 1) :
      Home(DirOf(content), id) # None => Home(DirOf(copy[w]), id) # None

\* The duplicate a crash in the middle of --finish leaves is not a dead end:
\* --remove --force takes the board's copy and leaves the finished one.
DuplicateHeals ==
  LET d == DirOf(content)
  IN \A id \in Ids : <<"I1", id>> \in validate(d) =>
       \E r \in removeInternal(d, id, FALSE) :
         Commits(d, r) /\ Home(r.dir, id) = "done" /\ <<"I1", id>> \notin validate(r.dir)

=============================================================================
