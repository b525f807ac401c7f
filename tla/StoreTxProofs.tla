----------------------------- MODULE StoreTxProofs -----------------------------
(***************************************************************************)
(* What the transactions of StoreTx promise, for any number of Stores of   *)
(* which one writes, any callers, stages, ids and items.  TLC checks two   *)
(* Stores, two items and two operations.                                   *)
(*                                                                         *)
(* The argument.  What a call stages is known from the operations of       *)
(* Directory (ResultFollows, ResultInOrder): its plan is Proper.  Kept is  *)
(* the inductive invariant: the one that writes has read the files as they *)
(* are until its first change, so its stamps hold at the check, and from   *)
(* there on the files are as far along its plan as it is (After).  The     *)
(* refinement maps a Store that is changing files to what it has read; the *)
(* step that makes its last change, or that ends it early, is the one step *)
(* of AtomicTx.  That no item is lost on the way is a fact about plans     *)
(* alone: done.md is written before board.md (Onward).  And a load that    *)
(* has read board.md has seen each item that is not in done.md (AllSeen).  *)
(* Half of a transaction is Torn: where a file has changed, those staged   *)
(* before it are as planned; operation by operation that is Loudly.        *)
(***************************************************************************)
EXTENDS StoreTx, DirectoryProofs

-----------------------------------------------------------------------------
(* The files.                                                              *)

BoardMd == File("board")
DoneMd  == File("done")

DetailNames == [id \in Ids |-> DetailName(id)]
FirstThree  == <<BoardMd, DoneMd, AuditMd>>

\* A file has one name.
LEMMA Names ==
  /\ BoardMd # DoneMd /\ BoardMd # AuditMd /\ DoneMd # AuditMd
  /\ BoardMd \notin Details /\ DoneMd \notin Details /\ AuditMd \notin Details
  /\ \A id, other \in Ids : DetailName(id) = DetailName(other) => id = other
<1>1. \A a, b, x, y : <<a, x>> = <<b, y>> => a = b /\ x = y
  OBVIOUS
<1>2. \A id, other \in Ids : DetailName(id) = DetailName(other) => id = other
  BY <1>1 DEF DetailName
<1>3. \A id \in Ids : DetailName(id) \notin {BoardMd, DoneMd, AuditMd}
  BY <1>1 DEF DetailName, BoardMd, DoneMd, AuditMd, File
<1>4. BoardMd # DoneMd /\ BoardMd # AuditMd /\ DoneMd # AuditMd
  BY <1>1 DEF BoardMd, DoneMd, AuditMd, File
<1> QED
  BY <1>2, <1>3, <1>4 DEF Details

\* load() reads the board, then done.md, then the log, then details/.
LEMMA Order ==
  /\ Len(ReadOrder) = 3 + MaxId
  /\ ReadOrder[1] = BoardMd /\ ReadOrder[2] = DoneMd /\ ReadOrder[3] = AuditMd
  /\ \A id \in Ids : ReadOrder[3 + id] = DetailName(id)
<1> DEFINE S == {BoardMd, DoneMd, AuditMd} \cup Details
           n == MaxId
<1>1. DetailNames \in Seq(S) /\ Len(DetailNames) = n
  BY DirectoryAssumption DEF DetailNames, Details, Ids
<1>2. /\ FirstThree \in Seq(S) /\ Len(FirstThree) = 3
      /\ FirstThree[1] = BoardMd /\ FirstThree[2] = DoneMd /\ FirstThree[3] = AuditMd
  BY DEF FirstThree
<1>3. ReadOrder = FirstThree \o DetailNames
  BY DEF ReadOrder, FirstThree, DetailNames, BoardMd, DoneMd
<1>4. \A id \in Ids : DetailNames[id] = DetailName(id)
  BY DEF DetailNames
<1> HIDE DEF S, n
<1>5. /\ Len(FirstThree \o DetailNames) = 3 + n
      /\ \A i \in 1..(3 + n) :
           (FirstThree \o DetailNames)[i] = IF i <= 3 THEN FirstThree[i] ELSE DetailNames[i - 3]
  <2>1. /\ Len(FirstThree \o DetailNames) = Len(FirstThree) + Len(DetailNames)
        /\ \A i \in 1..(Len(FirstThree) + Len(DetailNames)) :
             (FirstThree \o DetailNames)[i] =
               IF i <= Len(FirstThree) THEN FirstThree[i] ELSE DetailNames[i - Len(FirstThree)]
    BY <1>1, <1>2, ConcatProperties
  <2> QED
    BY <1>1, <1>2, <2>1
<1>6. ASSUME NEW id \in Ids PROVE ReadOrder[3 + id] = DetailName(id)
  <2>1. 3 + id \in 1..(3 + n) /\ ~ (3 + id <= 3) /\ (3 + id) - 3 = id
    BY DirectoryAssumption DEF Ids, n
  <2> QED
    BY <1>3, <1>4, <1>5, <2>1
<1>7. 1 \in 1..(3 + n) /\ 2 \in 1..(3 + n) /\ 3 \in 1..(3 + n)
  BY DirectoryAssumption DEF n
<1>8. /\ (FirstThree \o DetailNames)[1] = FirstThree[1]
      /\ (FirstThree \o DetailNames)[2] = FirstThree[2]
      /\ (FirstThree \o DetailNames)[3] = FirstThree[3]
  BY <1>5, <1>7
<1> QED
  BY <1>2, <1>3, <1>5, <1>6, <1>8 DEF n

\* Which files there are, and which are of details/.
LEMMA FilesAre ==
  /\ Files = {BoardMd, DoneMd, AuditMd} \cup Details
  /\ ToSet(ReadOrder) = Files
  /\ Len(ReadOrder) \in Nat /\ Len(ReadOrder) > 3
  /\ \A i \in 1..Len(ReadOrder) : ReadOrder[i] \in Files /\ (ReadOrder[i] \in Details <=> i > 3)
<1> DEFINE n == MaxId
<1>1. n \in Nat \ {0} /\ Ids = 1..n /\ Len(ReadOrder) = 3 + n
  BY DirectoryAssumption, Order DEF Ids
<1>2. \A i \in 1..(3 + n) : i = 1 \/ i = 2 \/ i = 3 \/ (i > 3 /\ i - 3 \in 1..n /\ 3 + (i - 3) = i)
  BY <1>1
<1>3. ASSUME NEW i \in 1..(3 + n)
      PROVE  /\ ReadOrder[i] \in {BoardMd, DoneMd, AuditMd} \cup Details
             /\ ReadOrder[i] \in Details <=> i > 3
  <2>1. CASE i \in {1, 2, 3}
    BY <2>1, Order, Names
  <2>2. CASE i > 3 /\ i - 3 \in Ids /\ 3 + (i - 3) = i
    <3>1. ReadOrder[i] = DetailName(i - 3)
      BY <2>2, Order
    <3> QED
      BY <2>2, <3>1 DEF Details
  <2> QED
    BY <1>1, <1>2, <2>1, <2>2
<1>4. ASSUME NEW f \in {BoardMd, DoneMd, AuditMd} \cup Details
      PROVE  \E i \in 1..(3 + n) : ReadOrder[i] = f
  <2>1. 1 \in 1..(3 + n) /\ 2 \in 1..(3 + n) /\ 3 \in 1..(3 + n) /\ \A id \in Ids : 3 + id \in 1..(3 + n)
    BY <1>1
  <2> QED
    BY <2>1, Order DEF Details
<1>5. Files = {BoardMd, DoneMd, AuditMd} \cup Details
  BY <1>1, <1>3, <1>4 DEF Files
<1>6. ToSet(ReadOrder) = {ReadOrder[i] : i \in DOMAIN ReadOrder}
  BY DEF ToSet
<1>7. DOMAIN ReadOrder = 1..Len(ReadOrder)
  <2>1. DetailNames \in Seq(Details)
    <3>1. DetailNames \in [1..n -> Details]
      BY <1>1 DEF DetailNames, Details
    <3> QED
      BY <1>1, <3>1
  <2>2. FirstThree \in Seq({BoardMd, DoneMd, AuditMd})
    BY DEF FirstThree
  <2>3. ReadOrder = FirstThree \o DetailNames
    BY DEF ReadOrder, FirstThree, DetailNames, BoardMd, DoneMd
  <2>4. ReadOrder \in Seq({BoardMd, DoneMd, AuditMd} \cup Details)
    <3>1. FirstThree \in Seq({BoardMd, DoneMd, AuditMd} \cup Details) /\ DetailNames \in Seq({BoardMd, DoneMd, AuditMd} \cup Details)
      BY <2>1, <2>2
    <3> QED
      BY <2>3, <3>1, ConcatProperties
  <2> QED
    BY <2>4
<1>8. ToSet(ReadOrder) = Files
  BY <1>6, <1>7 DEF Files
<1> QED
  BY <1>1, <1>3, <1>5, <1>8

-----------------------------------------------------------------------------
(* What is in the files.                                                   *)

\* The directory that the files' contents are.
LEMMA DirOfIs ==
  ASSUME NEW c
  PROVE  /\ DirOf(c).board = c[BoardMd] /\ DirOf(c).done = c[DoneMd]
         /\ DirOf(c).detail = [id \in Ids |-> c[DetailName(id)]]
         /\ DirOf(c) = [board |-> c[BoardMd], done |-> c[DoneMd],
                        detail |-> [id \in Ids |-> c[DetailName(id)]]]
         /\ \A id \in Ids : DirOf(c).detail[id] = c[DetailName(id)]
BY DEF DirOf, BoardMd, DoneMd

\* The contents that a directory and a log are.
LEMMA ContentOfIs ==
  ASSUME NEW d, NEW audit
  PROVE  /\ ContentOf(d, audit) = [f \in Files |-> ContentOf(d, audit)[f]]
         /\ ContentOf(d, audit)[BoardMd] = d.board /\ ContentOf(d, audit)[DoneMd] = d.done
         /\ ContentOf(d, audit)[AuditMd] = audit
         /\ \A id \in Ids : ContentOf(d, audit)[DetailName(id)] = d.detail[id]
<1>1. ContentOf(d, audit) = [f \in Files |-> IF f = AuditMd THEN audit ELSE Content(d, f)]
  BY FilesAre DEF ContentOf
<1>2. Content(d, BoardMd) = d.board /\ Content(d, DoneMd) = d.done
  BY DEF Content, BoardMd, DoneMd, File
<1>3. \A id \in Ids : Content(d, DetailName(id)) = d.detail[id]
  BY DEF Content, DetailName
<1>4. \A id \in Ids : DetailName(id) \in Files /\ DetailName(id) # AuditMd
  BY FilesAre, Names DEF Details
<1> QED
  BY <1>1, <1>2, <1>3, <1>4, FilesAre, Names

\* The files hold a directory that is well formed, whatever --check says of it.
Legal(c) ==
  /\ c \in Contents
  /\ DirOf(c) \in Dir /\ Grouped(c[BoardMd]) /\ Fresh(c[BoardMd])
  /\ c[AuditMd] \in Nat

\* The values a file can have.
LEMMA ValuesAre ==
  /\ BoardFile \subseteq Values /\ DoneFile \subseteq Values
  /\ DetailFile \subseteq Values /\ Nat \subseteq Values
BY DEF Values

\* A directory that is well formed, and a log, make files that are.
LEMMA ContentLegal ==
  ASSUME NEW d \in Dir, Grouped(d.board), Fresh(d.board), NEW audit \in Nat
  PROVE  Legal(ContentOf(d, audit)) /\ DirOf(ContentOf(d, audit)) = d
<1> DEFINE c == ContentOf(d, audit)
<1>1. /\ c[BoardMd] = d.board /\ c[DoneMd] = d.done /\ c[AuditMd] = audit
      /\ c = [f \in Files |-> c[f]]
      /\ \A id \in Ids : c[DetailName(id)] = d.detail[id]
  BY ContentOfIs
<1> HIDE DEF c
<1>2. /\ d = [board |-> d.board, done |-> d.done, detail |-> d.detail]
      /\ d.board \in BoardFile /\ d.done \in DoneFile /\ d.detail \in [Ids -> DetailFile \cup {None}]
  BY DEF Dir
<1>3. [id \in Ids |-> c[DetailName(id)]] = d.detail
  BY <1>1, <1>2
<1>4. DirOf(c) = d
  BY <1>1, <1>2, <1>3, DirOfIs
<1>5. ASSUME NEW f \in Files PROVE c[f] \in Values \cup {None}
  <2>1. CASE f \in {BoardMd, DoneMd, AuditMd}
    BY <1>1, <1>2, <2>1, ValuesAre
  <2>2. CASE f \in Details
    <3>1. PICK id \in Ids : f = DetailName(id)
      BY <2>2 DEF Details
    <3> QED
      BY <1>1, <1>2, <3>1, ValuesAre
  <2> QED
    BY <2>1, <2>2, FilesAre
<1>6. c \in Contents
  BY <1>1, <1>5 DEF Contents
<1> QED
  BY <1>1, <1>4, <1>6 DEF Legal, c

\* Three parts make a directory.
LEMMA ThreeFields ==
  ASSUME NEW board \in BoardFile, NEW done \in DoneFile, NEW detail \in [Ids -> DetailFile \cup {None}]
  PROVE  [board |-> board, done |-> done, detail |-> detail] \in Dir
BY DEF Dir

\* Files of two of them.
LEMMA MixLegal ==
  ASSUME NEW c, Legal(c), NEW t, Legal(t), NEW f \in Files,
         NEW e, e = [c EXCEPT ![f] = t[f]]
  PROVE  Legal(e)
<1>1. c \in Contents /\ t \in Contents
  BY DEF Legal
<1>2. e \in Contents /\ \A g \in Files : e[g] = c[g] \/ e[g] = t[g]
  BY <1>1 DEF Contents
<1>3. BoardMd \in Files /\ DoneMd \in Files /\ AuditMd \in Files /\ \A id \in Ids : DetailName(id) \in Files
  BY FilesAre DEF Details
<1>4. ASSUME NEW x, Legal(x)
      PROVE  /\ x[BoardMd] \in BoardFile /\ x[DoneMd] \in DoneFile
             /\ \A id \in Ids : x[DetailName(id)] \in DetailFile \cup {None}
  <2>1. DirOf(x) \in Dir
    BY <1>4 DEF Legal
  <2>2. /\ DirOf(x).board \in BoardFile /\ DirOf(x).done \in DoneFile
        /\ \A id \in Ids : DirOf(x).detail[id] \in DetailFile \cup {None}
    BY <2>1 DEF Dir
  <2>3. /\ DirOf(x).board = x[BoardMd] /\ DirOf(x).done = x[DoneMd]
        /\ \A id \in Ids : DirOf(x).detail[id] = x[DetailName(id)]
    BY DirOfIs
  <2> QED
    BY <2>2, <2>3
<1>5. /\ e[BoardMd] \in BoardFile /\ e[DoneMd] \in DoneFile
      /\ \A id \in Ids : e[DetailName(id)] \in DetailFile \cup {None}
  BY <1>2, <1>3, <1>4
<1>6. DirOf(e) \in Dir
  <2> DEFINE detail == [id \in Ids |-> e[DetailName(id)]]
  <2>1. detail \in [Ids -> DetailFile \cup {None}]
    BY <1>5
  <2>2. DirOf(e) = [board |-> e[BoardMd], done |-> e[DoneMd], detail |-> detail]
    BY DEF DirOf, BoardMd, DoneMd
  <2> HIDE DEF detail
  <2>3. \A board \in BoardFile, done \in DoneFile :
          [board |-> board, done |-> done, detail |-> detail] \in Dir
    BY <2>1, ThreeFields
  <2>4. [board |-> e[BoardMd], done |-> e[DoneMd], detail |-> detail] \in Dir
    BY <1>5, <2>3
  <2> QED
    BY <2>2, <2>4
<1>7. Grouped(e[BoardMd]) /\ Fresh(e[BoardMd]) /\ e[AuditMd] \in Nat
  BY <1>2, <1>3 DEF Legal
<1> QED
  BY <1>2, <1>6, <1>7 DEF Legal

-----------------------------------------------------------------------------
(* What a request does to the directory.                                   *)

\* An item has a home when one of the files has it.
LEMMA HomeIs ==
  ASSUME NEW d, NEW id
  PROVE  Home(d, id) # None <=> d.board.item[id] # None \/ d.done[id] # None
BY NoneAssumption DEF Home

\* What becomes of the items: the counter only grows, no id below it comes to
\* the board, done.md gets none that was nowhere, and none goes but of gone.
Follows(d, e, gone) ==
  /\ e \in Dir /\ Grouped(e.board) /\ Fresh(e.board)
  /\ d.board.next <= e.board.next
  /\ \A id \in Ids :
       /\ id < d.board.next /\ e.board.item[id] # None => d.board.item[id] # None
       /\ e.done[id] # None => Home(d, id) # None
       /\ id \notin gone => /\ d.done[id] # None => e.done[id] # None
                            /\ d.board.item[id] # None => Home(e, id) # None

\* In which order the files of a result are staged: done.md before the board,
\* and there if an item goes to it; only details/ are deleted.
InOrder(d, x) ==
  /\ x.files \in Seq({BoardMd, DoneMd} \cup Details)
  /\ x.deletes \in Seq(Details)
  /\ \A id \in Ids, i \in 1..Len(x.deletes) :
       x.deletes[i] = DetailName(id) => x.dir.detail[id] = None
  /\ \A i, j \in 1..Len(x.files) : x.files[i] = BoardMd /\ x.files[j] = DoneMd => j < i
  /\ \A id \in Ids :
       d.board.item[id] # None /\ x.dir.board.item[id] = None /\ x.dir.done[id] # None =>
         d.done[id] # None \/ \E i \in 1..Len(x.files) : x.files[i] = DoneMd

\* The item whose last copy a request may take.
Taken(r) == IF r.op = "remove" THEN {r.id} ELSE {}

\* A change of one item alone, which keeps it in one of the two files or is
\* its removal.
LEMMA SameFollows ==
  ASSUME NEW d \in Dir, Fresh(d.board), NEW id \in Ids, NEW e, Same(d, e, id), NEW gone,
         e.board.item[id] # None => d.board.item[id] # None,
         e.done[id] # None => Home(d, id) # None,
         \/ id \in gone
         \/ /\ d.done[id] # None => e.done[id] # None
            /\ d.board.item[id] # None => Home(e, id) # None
  PROVE  Follows(d, e, gone)
<1>1. e \in Dir /\ Grouped(e.board) /\ e.board.next = d.board.next
  BY DEF Same
<1>2. d.board.next \in Nat /\ \A x \in Ids : x \in Nat
  BY DirFields, IdsAreNumbers
<1>3. Fresh(e.board)
  BY <1>1, <1>2 DEF Fresh, Same
<1>4. \A x \in Ids \ {id} : e.board.item[x] = d.board.item[x] /\ e.done[x] = d.done[x]
  BY DEF Same
<1>5. ASSUME NEW x \in Ids
      PROVE  /\ x < d.board.next /\ e.board.item[x] # None => d.board.item[x] # None
             /\ e.done[x] # None => Home(d, x) # None
             /\ x \notin gone => /\ d.done[x] # None => e.done[x] # None
                                 /\ d.board.item[x] # None => Home(e, x) # None
  BY <1>4, HomeIs
<1> QED
  BY <1>1, <1>2, <1>3, <1>5 DEF Follows

\* A change in place is such a change.
LEMMA InPlaceFollows ==
  ASSUME NEW d \in Dir, Fresh(d.board), NEW id \in Ids, NEW e, InPlace(d, e, id), NEW gone
  PROVE  Follows(d, e, gone)
BY SameFollows, HomeIs DEF InPlace

\* And so is an add.
LEMMA AddedFollows ==
  ASSUME NEW d \in Dir, Fresh(d.board), NEW r, Added(d, r, 1), NEW gone
  PROVE  Follows(d, r.dir, gone)
<1> DEFINE e == r.dir
<1>1. /\ e \in Dir /\ Grown(d.board, e.board, 1) /\ e.done = d.done
  BY DEF Added
<1> HIDE DEF e
<1>2. d.board.next \in Nat /\ \A x \in Ids : x \in Nat
  BY DirFields, IdsAreNumbers
<1>3. /\ Grouped(e.board) /\ Fresh(e.board) /\ d.board.next <= e.board.next
      /\ \A x \in Ids : x < d.board.next => e.board.item[x] = d.board.item[x]
  BY <1>1 DEF Grown
<1>4. \A x \in Ids : d.board.item[x] # None => x < d.board.next
  BY <1>2 DEF Fresh
<1> QED
  BY <1>1, <1>3, <1>4, HomeIs DEF Follows, e

\* What --add is asked for is a request.
LEMMA NewRequestIs == \A bodied \in BOOLEAN : NewRequest(bodied) \in AddRequest
<1>1. (CHOOSE t \in Titles : TRUE) \in Titles
  BY StoreTxAssumption
<1> QED
  BY <1>1, StoreTxAssumption DEF NewRequest, AddRequest

\* Another title is a title.
LEMMA RetitleIs ==
  ASSUME NEW d \in Dir, NEW id \in Ids, Home(d, id) # None
  PROVE  [field |-> "title", value |-> Retitle(d, id)] \in FieldUpdate
<1>1. ItemAt(d, Home(d, id), id) \in Item
  BY HomeHas
<1>2. ItemAt(d, Home(d, id), id).title \in Titles
  BY <1>1 DEF Item
<1>3. Retitle(d, id) \in Titles
  BY <1>2, StoreTxAssumption DEF Retitle
<1> QED
  BY <1>3 DEF FieldUpdate

\* The parts of a call.
LEMMA CallIs ==
  ASSUME NEW r \in Call
  PROVE  /\ r.op \in {"list", "add", "finish", "remove", "note", "attach", "detach", "edit"}
         /\ r.op \notin {"list", "add"} => r.id \in Ids
         /\ r.option \in BOOLEAN
BY DEF Call

\* Every request keeps the directory well formed and takes no item's last
\* copy but a --remove its own.
LEMMA ResultFollows ==
  ASSUME NEW d \in Dir, Grouped(d.board), Fresh(d.board), NEW r \in Call, NEW x \in Results(d, r)
  PROVE  Follows(d, x.dir, Taken(r))
<1> DEFINE note == CHOOSE n \in Notes : TRUE
<1>0. note \in Notes /\ 1 \in Nat
  BY StoreTxAssumption
<1> HIDE DEF note
<1>n. d.board.next \in Nat
  BY DirFields, IdsAreNumbers
<1>1. CASE r.op = "list"
  <2>1. x.dir = d
    BY <1>1 DEF Results, Result
  <2> QED
    BY <1>n, <2>1, HomeIs DEF Follows
<1>2. CASE r.op = "add"
  <2>1. x \in addV2(d, NewRequest(r.option), 1)
    BY <1>2 DEF Results
  <2>2. NewRequest(r.option) \in AddRequest
    BY CallIs, NewRequestIs
  <2>3. Added(d, x, 1)
    BY <1>0, <2>1, <2>2, AddSound
  <2> QED
    BY <2>3, AddedFollows
<1>3. CASE r.op = "finish"
  <2>1. x \in finishV2(d, r.id, IF r.option THEN note ELSE None) /\ r.id \in Ids
    BY <1>3, CallIs DEF Results, note
  <2>2. (IF r.option THEN note ELSE None) \in Notes \cup {None}
    BY <1>0
  <2>3. Finished(d, x, r.id)
    BY <2>1, <2>2, FinishSound
  <2>4. /\ Same(d, x.dir, r.id)
        /\ d.board.item[r.id] # None /\ x.dir.board.item[r.id] = None /\ x.dir.done[r.id] # None
    BY <2>3 DEF Finished
  <2> QED
    BY <2>1, <2>4, HomeIs, SameFollows
<1>4. CASE r.op = "remove"
  <2>1. x \in removeInternal(d, r.id, r.option) /\ r.id \in Ids /\ r.option \in BOOLEAN /\ r.id \in Taken(r)
    BY <1>4, CallIs DEF Results, Taken
  <2> DEFINE id == r.id
             withDetail == r.option
  <2>4. x \in removeInternal(d, id, withDetail) /\ id \in Ids /\ withDetail \in BOOLEAN
    BY <2>1
  <2> HIDE DEF id, withDetail
  <2>5. /\ Same(d, x.dir, id) /\ x.dir.board.item[id] = None
        /\ x.dir.done[id] = IF d.board.item[id] # None THEN d.done[id] ELSE None
    BY <2>4, RemoveSound
  <2>2. /\ Same(d, x.dir, r.id) /\ x.dir.board.item[r.id] = None
        /\ x.dir.done[r.id] = IF d.board.item[r.id] # None THEN d.done[r.id] ELSE None
    BY <2>5 DEF id
  <2>3. x.dir.done[r.id] # None => Home(d, r.id) # None
    BY <2>2, HomeIs
  <2> QED
    BY <2>1, <2>2, <2>3, SameFollows
<1>5. CASE r.op = "note"
  <2>1. x \in Note(d, r.id, note) /\ r.id \in Ids
    BY <1>5, CallIs DEF Results, note
  <2>2. InPlace(d, x.dir, r.id)
    BY <1>0, <2>1, NoteSound DEF EditsTo
  <2> QED
    BY <2>1, <2>2, InPlaceFollows
<1>6. CASE r.op = "attach"
  <2>1. x \in AttachDetail(d, r.id, {}) /\ r.id \in Ids
    BY <1>6, CallIs DEF Results
  <2>2. {} \in SUBSET Notes
    OBVIOUS
  <2>3. InPlace(d, x.dir, r.id)
    BY <1>0, <2>1, <2>2, AttachDetailSound DEF EditsTo
  <2> QED
    BY <2>1, <2>3, InPlaceFollows
<1>7. CASE r.op = "detach"
  <2>1. x \in DetachDetail(d, r.id, r.option) /\ r.id \in Ids /\ r.option \in BOOLEAN
    BY <1>7, CallIs DEF Results
  <2>2. InPlace(d, x.dir, r.id)
    BY <1>0, <2>1, DetachDetailSound DEF EditsTo
  <2> QED
    BY <2>1, <2>2, InPlaceFollows
<1>8. CASE r.op = "edit"
  <2> DEFINE u == [field |-> "title", value |-> Retitle(d, r.id)]
  <2>1. Home(d, r.id) # None /\ x \in Update(d, r.id, u, 1) /\ r.id \in Ids
    BY <1>8, CallIs DEF Results
  <2>2. u \in FieldUpdate
    BY <2>1, RetitleIs
  <2> HIDE DEF u
  <2>3. InPlace(d, x.dir, r.id)
    BY <1>0, <2>1, <2>2, UpdateSound
  <2> QED
    BY <2>1, <2>3, InPlaceFollows
<1> QED
  BY <1>1, <1>2, <1>3, <1>4, <1>5, <1>6, <1>7, <1>8, CallIs

-----------------------------------------------------------------------------
(* The order of the files.                                                 *)

Main == {BoardMd, DoneMd}

DoneFirst(files) ==
  /\ files \in Seq(Main \cup Details)
  /\ \A i, j \in 1..Len(files) : files[i] = BoardMd /\ files[j] = DoneMd => j < i

\* The order of staging: no file,
LEMMA NoFiles == DoneFirst(<<>>)
BY DEF DoneFirst

\* one file,
LEMMA OneFile == ASSUME NEW f \in Main \cup Details PROVE DoneFirst(<<f>>)
<1>1. <<f>> \in Seq(Main \cup Details) /\ Len(<<f>>) = 1 /\ <<f>>[1] = f
  OBVIOUS
<1> DEFINE files == <<f>>
<1> HIDE DEF files
<1>2. files \in Seq(Main \cup Details) /\ Len(files) = 1 /\ files[1] = f
  BY <1>1 DEF files
<1>3. DoneFirst(files)
  BY <1>2, Names DEF DoneFirst
<1> QED
  BY <1>3 DEF files

\* two of which one is a detail file,
LEMMA TwoFiles ==
  ASSUME NEW f \in Main \cup Details, NEW g \in Main \cup Details, f \in Details \/ g \in Details
  PROVE  DoneFirst(<<f, g>>)
<1> DEFINE files == <<f, g>>
<1>2. files \in Seq(Main \cup Details) /\ Len(files) = 2 /\ files[1] = f /\ files[2] = g
  OBVIOUS
<1> HIDE DEF files
<1>3. \A i \in 1..Len(files) : i = 1 \/ i = 2
  BY <1>2
<1>4. DoneFirst(files)
  BY <1>2, <1>3, Names DEF DoneFirst
<1> QED
  BY <1>4 DEF files

\* and what --finish stages, are in order.
LEMMA ThreeFiles ==
  ASSUME NEW f \in Details, NEW files, files = <<f, DoneMd, BoardMd>>
  PROVE  DoneFirst(files) /\ Len(files) = 3 /\ files[2] = DoneMd
<1>2. /\ files \in Seq(Main \cup Details) /\ Len(files) = 3
      /\ files[1] = f /\ files[2] = DoneMd /\ files[3] = BoardMd
  BY DEF Main
<1>3. \A i \in 1..Len(files) : i = 1 \/ i = 2 \/ i = 3
  BY <1>2
<1> QED
  BY <1>2, <1>3, Names DEF DoneFirst

\* The file a home is in.
LEMMA HomeFile ==
  ASSUME NEW d, NEW id, Home(d, id) # None
  PROVE  File(Home(d, id)) \in Main
BY DEF Home, Main, BoardMd, DoneMd

\* Nothing is deleted, or the detail file of an item that has none after.
NoneLeft(x) ==
  /\ x.deletes \in Seq(Details)
  /\ \A id \in Ids, i \in 1..Len(x.deletes) :
       x.deletes[i] = DetailName(id) => x.dir.detail[id] = None

\* What is deleted is gone from the result: nothing is,
LEMMA NoDeletes ==
  ASSUME NEW x, x.deletes = <<>>
  PROVE  NoneLeft(x)
BY DEF NoneLeft

\* or the detail file.
LEMMA OneDelete ==
  ASSUME NEW x, NEW id \in Ids, x.deletes = <<DetailName(id)>>, x.dir.detail[id] = None
  PROVE  NoneLeft(x)
<1> DEFINE f == DetailName(id)
<1>0. f \in Details
  BY DEF Details
<1> HIDE DEF f
<1>1. x.deletes \in Seq(Details) /\ Len(x.deletes) = 1 /\ x.deletes[1] = f
  BY <1>0 DEF f
<1>2. \A other \in Ids : DetailName(other) = f => other = id
  BY Names DEF f
<1> QED
  BY <1>1, <1>2 DEF NoneLeft

\* An item that is where it was needs no word of done.md.
LEMMA InPlaceInOrder ==
  ASSUME NEW d \in Dir, NEW id \in Ids, NEW x, InPlace(d, x.dir, id),
         DoneFirst(x.files), NoneLeft(x)
  PROVE  InOrder(d, x)
<1>1. \A k \in Ids : d.board.item[k] # None => x.dir.board.item[k] # None
  BY DEF InPlace, Same
<1> QED
  BY <1>1 DEF InOrder, DoneFirst, NoneLeft, Main

\* Nor one that is on the board with done.md as it was.
LEMMA SameDoneInOrder ==
  ASSUME NEW d, NEW x, DoneFirst(x.files), NoneLeft(x),
         \A k \in Ids : d.board.item[k] # None /\ x.dir.board.item[k] = None =>
                          x.dir.done[k] = d.done[k]
  PROVE  InOrder(d, x)
BY DEF InOrder, DoneFirst, NoneLeft, Main

\* --add stages the detail file and the board.
LEMMA AddInOrder ==
  ASSUME NEW d \in Dir, NEW req, NEW x \in addV2(d, req, 1), x.dir.done = d.done
  PROVE  InOrder(d, x)
<1> DEFINE id     == d.board.next
           index  == IF req.top THEN 0 ELSE Len(d.board.run[AddStage(req)])
           bodied(b) == [d EXCEPT !.board = [b EXCEPT !.item[id].detail = TRUE],
                                  !.detail[id] = [title |-> req.title, body |-> req.body]]
<1>1. PICK b \in Placed(d.board, req, index, 1) :
        x = IF req.body = {} THEN Result([d EXCEPT !.board = b], <<File("board")>>, <<>>, {})
            ELSE Result(bodied(b), <<DetailName(id), File("board")>>, <<>>, {})
  BY DEF addV2
<1> HIDE DEF bodied, index
<1>2. x.files \in {<<BoardMd>>, <<DetailName(id), BoardMd>>} /\ x.deletes = <<>>
  BY <1>1 DEF Result, BoardMd
<1>3. DetailName(id) \in Details /\ BoardMd \in Main
  BY DirFields DEF Details, Main
<1>4. DoneFirst(x.files)
  BY <1>2, <1>3, OneFile, TwoFiles
<1> QED
  BY <1>2, <1>4, NoDeletes, SameDoneInOrder

\* --finish stages done.md before the board.
LEMMA FinishInOrder ==
  ASSUME NEW d \in Dir, NEW id \in Ids, NEW note, NEW x \in finishV2(d, id, note)
  PROVE  InOrder(d, x)
<1> DEFINE closed(e) == [e EXCEPT !.done[id] = [e.board.item[id] EXCEPT !.tickler = None,
                                                                        !.dest    = None],
                                  !.board = RemoveItem(@, id)]
<1>1. \E e : x = Result(closed(e), <<DetailName(id), File("done"), File("board")>>, <<>>, {})
  BY DEF finishV2
<1> HIDE DEF closed
<1>2. x.files = <<DetailName(id), DoneMd, BoardMd>> /\ x.deletes = <<>>
  BY <1>1 DEF Result, BoardMd, DoneMd
<1>3. DetailName(id) \in Details
  BY DEF Details
<1>4. DoneFirst(x.files) /\ Len(x.files) = 3 /\ x.files[2] = DoneMd
  BY <1>2, <1>3, ThreeFiles
<1>5. NoneLeft(x)
  BY <1>2, NoDeletes
<1>6. 2 \in 1..Len(x.files)
  BY <1>4
<1> QED
  BY <1>4, <1>5, <1>6 DEF InOrder, DoneFirst, NoneLeft, Main

\* --remove stages the item's own file, and deletes last.
LEMMA RemoveInOrder ==
  ASSUME NEW d \in Dir, Grouped(d.board), NEW id \in Ids, NEW withDetail \in BOOLEAN,
         NEW x \in removeInternal(d, id, withDetail)
  PROVE  InOrder(d, x)
<1> DEFINE h == Home(d, id)
           without == IF h = "board" THEN [d EXCEPT !.board = RemoveItem(@, id)]
                      ELSE [d EXCEPT !.done[id] = None]
           kept == Result(without, <<File(h)>>, <<>>, {<<"I9 orphan", id>>})
           plain == Result(without, <<File(h)>>, <<>>, {})
           less == [without EXCEPT !.detail[id] = None]
           whole == Result(less, <<File(h)>>, <<DetailName(id)>>, {})
<1>1. h # None
  BY DEF removeInternal
<1>2. x = plain \/ (x = whole /\ kept \in removeInternal(d, id, FALSE)) \/ x = kept
  BY <1>1 DEF removeInternal
<1> HIDE DEF without, less
<1>3. File(h) \in Main
  BY <1>1, HomeFile
<1>4. DoneFirst(<<File(h)>>)
  BY <1>3, OneFile
<1>5. x.files = <<File(h)>>
  <2>1. plain.files = <<File(h)>> /\ whole.files = <<File(h)>> /\ kept.files = <<File(h)>>
    BY DEF Result
  <2> HIDE DEF plain, whole, kept
  <2> QED
    BY <1>2, <2>1
<1>6. NoneLeft(x)
  <2>1. CASE x = plain \/ x = kept
    BY <2>1, NoDeletes DEF Result
  <2>2. CASE x = whole /\ kept \in removeInternal(d, id, FALSE)
    <3>1. kept.dir = without
      BY DEF Result
    <3>2. Same(d, kept.dir, id)
      <4> HIDE DEF kept
      <4> QED
        BY <2>2, RemoveSound
    <3>3. without \in Dir
      BY <3>1, <3>2 DEF Same
    <3>4. x.dir = PutDetail(without, id, None) /\ x.deletes = <<DetailName(id)>>
      BY <2>2 DEF Result, PutDetail, less
    <3>5. x.dir.detail = [without.detail EXCEPT ![id] = None]
      BY <3>3, <3>4, WithDetail
    <3>6. x.dir.detail[id] = None
      BY <3>3, <3>5, DirFields
    <3> QED
      BY <3>4, <3>6, OneDelete
  <2> QED
    BY <1>2, <2>1, <2>2
<1> HIDE DEF plain, whole, kept, h
<1>7. /\ Same(d, x.dir, id)
      /\ x.dir.done[id] = IF d.board.item[id] # None THEN d.done[id] ELSE None
  BY RemoveSound
<1>8. \A k \in Ids : d.board.item[k] # None /\ x.dir.board.item[k] = None =>
                       x.dir.done[k] = d.done[k]
  BY <1>7 DEF Same
<1> QED
  BY <1>4, <1>5, <1>6, <1>8, SameDoneInOrder

\* --detach stages the item's line, and deletes last.
LEMMA DetachInOrder ==
  ASSUME NEW d \in Dir, Grouped(d.board), NEW id \in Ids, NEW delete \in BOOLEAN,
         NEW x \in DetachDetail(d, id, delete)
  PROVE  InOrder(d, x)
<1> DEFINE h == Home(d, id)
           e == ReplaceItem(d, h, id, [ItemAt(d, h, id) EXCEPT !.detail = FALSE])
           kept == Result(e, <<File(h)>>, <<>>, {<<"I9 orphan", id>>})
           less == [e EXCEPT !.detail[id] = None]
           whole == Result(less, <<File(h)>>, <<DetailName(id)>>, {})
<1>1. h # None
  BY DEF DetachDetail
<1>2. (x = whole /\ kept \in DetachDetail(d, id, FALSE)) \/ x = kept
  BY <1>1 DEF DetachDetail
<1> HIDE DEF e, less
<1>3. File(h) \in Main
  BY <1>1, HomeFile
<1>4. DoneFirst(<<File(h)>>)
  BY <1>3, OneFile
<1>5. x.files = <<File(h)>>
  <2>1. whole.files = <<File(h)>> /\ kept.files = <<File(h)>>
    BY DEF Result
  <2> HIDE DEF whole, kept
  <2> QED
    BY <1>2, <2>1
<1>6. NoneLeft(x)
  <2>1. CASE x = kept
    BY <2>1, NoDeletes DEF Result
  <2>2. CASE x = whole /\ kept \in DetachDetail(d, id, FALSE)
    <3>1. kept.dir = e
      BY DEF Result
    <3>2. InPlace(d, kept.dir, id)
      <4>1. 1 \in Nat
        OBVIOUS
      <4> HIDE DEF kept
      <4> QED
        BY <2>2, <4>1, DetachDetailSound DEF EditsTo
    <3>3. e \in Dir
      BY <3>1, <3>2 DEF Same, InPlace
    <3>4. x.dir = PutDetail(e, id, None) /\ x.deletes = <<DetailName(id)>>
      BY <2>2 DEF Result, PutDetail, less
    <3>5. x.dir.detail = [e.detail EXCEPT ![id] = None]
      BY <3>3, <3>4, WithDetail
    <3>6. x.dir.detail[id] = None
      BY <3>3, <3>5, DirFields
    <3> QED
      BY <3>4, <3>6, OneDelete
  <2> QED
    BY <1>2, <2>1, <2>2
<1> HIDE DEF whole, kept, h
<1>7. InPlace(d, x.dir, id)
  <2>1. 1 \in Nat
    OBVIOUS
  <2> QED
    BY <2>1, DetachDetailSound DEF EditsTo
<1> QED
  BY <1>4, <1>5, <1>6, <1>7, InPlaceInOrder

\* A home's file and a detail file, one way or the other.
LEMMA HomeAndDetail ==
  ASSUME NEW d, NEW id \in Ids, Home(d, id) # None, NEW x, x.deletes = <<>>,
         x.files \in {<<File(Home(d, id)), DetailName(id)>>, <<DetailName(id), File(Home(d, id))>>}
  PROVE  DoneFirst(x.files) /\ NoneLeft(x)
<1>1. File(Home(d, id)) \in Main /\ DetailName(id) \in Details
  BY HomeFile DEF Details
<1> QED
  BY <1>1, TwoFiles, NoDeletes

\* Whatever is asked for, the files are staged in order.
LEMMA ResultInOrder ==
  ASSUME NEW d \in Dir, Grouped(d.board), Fresh(d.board), NEW r \in Call, NEW x \in Results(d, r)
  PROVE  InOrder(d, x)
<1> DEFINE note == CHOOSE n \in Notes : TRUE
<1>0. note \in Notes /\ 1 \in Nat
  BY StoreTxAssumption
<1> HIDE DEF note
<1>1. CASE r.op = "list"
  <2>1. x.dir = d /\ x.files = <<>> /\ x.deletes = <<>>
    BY <1>1 DEF Results, Result
  <2> QED
    BY <2>1, NoFiles, NoDeletes, SameDoneInOrder
<1>2. CASE r.op = "add"
  <2>1. x \in addV2(d, NewRequest(r.option), 1)
    BY <1>2 DEF Results
  <2>2. NewRequest(r.option) \in AddRequest
    BY CallIs, NewRequestIs
  <2>3. x.dir.done = d.done
    BY <1>0, <2>1, <2>2, AddSound DEF Added
  <2> QED
    BY <2>1, <2>3, AddInOrder
<1>3. CASE r.op = "finish"
  <2>1. x \in finishV2(d, r.id, IF r.option THEN note ELSE None) /\ r.id \in Ids
    BY <1>3, CallIs DEF Results, note
  <2> QED
    BY <2>1, FinishInOrder
<1>4. CASE r.op = "remove"
  <2>1. x \in removeInternal(d, r.id, r.option) /\ r.id \in Ids /\ r.option \in BOOLEAN
    BY <1>4, CallIs DEF Results
  <2> QED
    BY <2>1, RemoveInOrder
<1>5. CASE r.op = "note"
  <2>1. x \in Note(d, r.id, note) /\ r.id \in Ids
    BY <1>5, CallIs DEF Results, note
  <2>2. InPlace(d, x.dir, r.id) /\ Home(d, r.id) # None
    BY <1>0, <2>1, NoteSound DEF EditsTo
  <2>3. x.files = <<DetailName(r.id), File(Home(d, r.id))>> /\ x.deletes = <<>>
    BY <2>1, <2>2 DEF Note, Result
  <2> QED
    BY <2>1, <2>2, <2>3, HomeAndDetail, InPlaceInOrder
<1>6. CASE r.op = "attach"
  <2>1. x \in AttachDetail(d, r.id, {}) /\ r.id \in Ids /\ {} \in SUBSET Notes
    BY <1>6, CallIs DEF Results
  <2>2. InPlace(d, x.dir, r.id) /\ Home(d, r.id) # None
    BY <1>0, <2>1, AttachDetailSound DEF EditsTo
  <2>3. x.files = <<File(Home(d, r.id)), DetailName(r.id)>> /\ x.deletes = <<>>
    BY <2>1, <2>2 DEF AttachDetail, Result
  <2> QED
    BY <2>1, <2>2, <2>3, HomeAndDetail, InPlaceInOrder
<1>7. CASE r.op = "detach"
  <2>1. x \in DetachDetail(d, r.id, r.option) /\ r.id \in Ids /\ r.option \in BOOLEAN
    BY <1>7, CallIs DEF Results
  <2> QED
    BY <2>1, DetachInOrder
<1>8. CASE r.op = "edit"
  <2> DEFINE u == [field |-> "title", value |-> Retitle(d, r.id)]
  <2>1. Home(d, r.id) # None /\ x \in Update(d, r.id, u, 1) /\ r.id \in Ids
    BY <1>8, CallIs DEF Results
  <2>2. u \in FieldUpdate
    BY <2>1, RetitleIs
  <2> HIDE DEF u
  <2>3. InPlace(d, x.dir, r.id)
    BY <1>0, <2>1, <2>2, UpdateSound
  <2>4. x.files = <<File(Home(d, r.id)), DetailName(r.id)>> /\ x.deletes = <<>>
    BY <2>1 DEF Update, Result
  <2> QED
    BY <2>1, <2>3, <2>4, HomeAndDetail, InPlaceInOrder
<1> QED
  BY <1>1, <1>2, <1>3, <1>4, <1>5, <1>6, <1>7, <1>8, CallIs

-----------------------------------------------------------------------------
(* The files that are staged: of those of the result the ones that change, *)
(* in its order.                                                           *)

\* What is staged of the first files is made of what was before the last.
LEMMA StagedIs ==
  ASSUME NEW d, NEW x, NEW S, x.files \in Seq(S)
  PROVE  \E f : /\ Staged(d, x) = f[Len(x.files)]
                /\ f[0] = <<>>
                /\ \A n \in 1..Len(x.files) :
                     f[n] = IF Content(d, x.files[n]) = Content(x.dir, x.files[n]) THEN f[n - 1]
                            ELSE Append(f[n - 1], x.files[n])
<1> DEFINE step(n, s) == IF Content(d, x.files[n]) = Content(x.dir, x.files[n]) THEN s
                         ELSE Append(s, x.files[n])
           N == Len(x.files)
           Upto(k) == \E g : g = [n \in 0..k |-> IF n = 0 THEN <<>> ELSE step(n, g[n - 1])]
           T == {k \in 0..N : Upto(k)}
           f == CHOOSE g : g = [n \in 0..N |-> IF n = 0 THEN <<>> ELSE step(n, g[n - 1])]
<1>1. Staged(d, x) = f[N]
  <2>1. \A n, s : step(n, s) = IF Content(d, x.files[n]) = Content(x.dir, x.files[n]) THEN s
                               ELSE Append(s, x.files[n])
    OBVIOUS
  <2> QED
    BY DEF Staged
<1>2. N \in Nat
  OBVIOUS
<1> DEFINE ff == f
<1>f. ff = CHOOSE g : g = [n \in 0..N |-> IF n = 0 THEN <<>> ELSE step(n, g[n - 1])]
  OBVIOUS
<1> HIDE DEF ff, f, step, N
<1>3. 0 \in T
  <2> DEFINE g == [n \in 0..0 |-> <<>>]
  <2>1. g = [n \in 0..0 |-> IF n = 0 THEN <<>> ELSE step(n, g[n - 1])]
    OBVIOUS
  <2> HIDE DEF g
  <2> QED
    BY <1>2, <2>1
<1>4. ASSUME NEW k \in 0..(N - 1), k \in T
      PROVE  k + 1 \in T
  <2>1. PICK g : g = [n \in 0..k |-> IF n = 0 THEN <<>> ELSE step(n, g[n - 1])]
    BY <1>4
  <2> DEFINE h == [n \in 0..(k + 1) |-> IF n = k + 1 THEN step(k + 1, g[k]) ELSE g[n]]
  <2>2. \A n \in 0..(k + 1) : h[n] = IF n = 0 THEN <<>> ELSE step(n, h[n - 1])
    <3> SUFFICES ASSUME NEW n \in 0..(k + 1)
                 PROVE  h[n] = IF n = 0 THEN <<>> ELSE step(n, h[n - 1])
      OBVIOUS
    <3>0. k \in Nat
      BY <1>2
    <3>1. CASE n = k + 1
      <4>1. h[n] = step(k + 1, g[k]) /\ n - 1 = k /\ n # 0
        BY <3>0, <3>1
      <4>2. h[k] = g[k]
        BY <3>0
      <4> QED
        BY <3>1, <4>1, <4>2
    <3>2. CASE n # k + 1
      <4>1. n \in 0..k /\ h[n] = g[n]
        BY <3>0, <3>2
      <4>2. g[n] = IF n = 0 THEN <<>> ELSE step(n, g[n - 1])
        BY <2>1, <4>1
      <4>3. n # 0 => h[n - 1] = g[n - 1]
        BY <3>0, <4>1
      <4> QED
        BY <4>1, <4>2, <4>3
    <3> QED
      BY <3>1, <3>2
  <2>3. h = [n \in 0..(k + 1) |-> h[n]]
    OBVIOUS
  <2> HIDE DEF h
  <2>4. h = [n \in 0..(k + 1) |-> IF n = 0 THEN <<>> ELSE step(n, h[n - 1])]
    BY <2>2, <2>3
  <2>5. k + 1 \in 0..N
    BY <1>2
  <2> QED
    BY <2>4, <2>5
<1>5. N \in T
  <2> HIDE DEF T
  <2>1. \A n \in 0..N : n \in T
    BY <1>2, <1>3, <1>4, Induction
  <2> QED
    BY <1>2, <2>1
<1>6. \E g : g = [n \in 0..N |-> IF n = 0 THEN <<>> ELSE step(n, g[n - 1])]
  BY <1>5
<1>7. ff = [n \in 0..N |-> IF n = 0 THEN <<>> ELSE step(n, ff[n - 1])]
  BY <1>f, <1>6
<1>8. ff[0] = <<>> /\ \A n \in 1..N : ff[n] = step(n, ff[n - 1])
  <2>1. \A n \in 0..N : ff[n] = IF n = 0 THEN <<>> ELSE step(n, ff[n - 1])
    BY <1>7
  <2> QED
    BY <1>2, <2>1
<1>9. Staged(d, x) = ff[N]
  BY <1>1 DEF ff
<1>10. \A n \in 1..N : ff[n] = IF Content(d, x.files[n]) = Content(x.dir, x.files[n]) THEN ff[n - 1]
                               ELSE Append(ff[n - 1], x.files[n])
  BY <1>8 DEF step
<1> QED
  BY <1>8, <1>9, <1>10 DEF N

\* Wherever both files are, the one is before the other.
Before(s, f, g) == \A k, l \in 1..Len(s) : s[k] = f /\ s[l] = g => k < l

\* They are in the order the result's are in, and no file that changes is missing.
LEMMA StagedOrder ==
  ASSUME NEW d, NEW x, NEW S, x.files \in Seq(S)
  PROVE  /\ Staged(d, x) \in Seq(S)
         /\ \A f, g \in S : Before(x.files, f, g) => Before(Staged(d, x), f, g)
         /\ \A i \in 1..Len(x.files) : Content(d, x.files[i]) # Content(x.dir, x.files[i]) =>
              \E k \in 1..Len(Staged(d, x)) : Staged(d, x)[k] = x.files[i]
<1> DEFINE N == Len(x.files)
           differs(i) == Content(d, x.files[i]) # Content(x.dir, x.files[i])
           good(n, s) ==
             /\ s \in Seq(S)
             /\ \A k \in 1..Len(s) : \E i \in 1..n : s[k] = x.files[i]
             /\ \A f, g \in S : Before(x.files, f, g) => Before(s, f, g)
             /\ \A i \in 1..n : differs(i) => \E k \in 1..Len(s) : s[k] = x.files[i]
<1>2. PICK f : /\ Staged(d, x) = f[N]
               /\ f[0] = <<>>
               /\ \A n \in 1..N : f[n] = IF ~ differs(n) THEN f[n - 1]
                                         ELSE Append(f[n - 1], x.files[n])
  BY StagedIs
<1>4. N \in Nat /\ \A i \in 1..N : x.files[i] \in S
  OBVIOUS
<1>3. \A g, h \in S : Before(x.files, g, h) =>
        \A i, j \in 1..N : x.files[i] = g /\ x.files[j] = h => i < j
  BY DEF Before
<1> DEFINE T == {n \in 0..N : good(n, f[n])}
<1> HIDE DEF differs, N
<1>5. 0 \in T
  <2>1. f[0] \in Seq(S) /\ Len(f[0]) = 0
    BY <1>2
  <2> QED
    BY <1>4, <2>1 DEF Before
<1>6. ASSUME NEW n \in 0..(N - 1), n \in T
      PROVE  n + 1 \in T
  <2> DEFINE s == f[n]
             e == x.files[n + 1]
             t == f[n + 1]
  <2>0. n + 1 \in 1..N /\ n + 1 \in 0..N /\ (n + 1) - 1 = n /\ n \in Nat
    BY <1>4
  <2>1. good(n, s)
    BY <1>6
  <2>2. e \in S /\ t = IF ~ differs(n + 1) THEN s ELSE Append(s, e)
    BY <1>2, <1>4, <2>0
  <2>3. \A i \in 1..(n + 1) : i \in 1..n \/ i = n + 1
    BY <2>0
  <2>4. \A i \in 1..n : i \in 1..(n + 1) /\ i \in 1..N /\ i < n + 1
    BY <1>4, <2>0
  <2> HIDE DEF s, t
  <2>5. good(n + 1, t)
    <3>1. CASE ~ differs(n + 1)
      BY <2>1, <2>2, <2>3, <2>4, <3>1
    <3>2. CASE differs(n + 1)
      <4>1. /\ t \in Seq(S) /\ Len(t) = Len(s) + 1 /\ Len(s) \in Nat
            /\ \A k \in 1..Len(s) : t[k] = s[k]
            /\ t[Len(s) + 1] = e
        BY <2>1, <2>2, <3>2
      <4>2. \A k \in 1..Len(t) : k \in 1..Len(s) \/ k = Len(s) + 1
        BY <4>1
      <4>3. \A k \in 1..Len(s) : k \in 1..Len(t) /\ k < Len(s) + 1
        BY <4>1
      <4>4. \A k \in 1..Len(t) : \E i \in 1..(n + 1) : t[k] = x.files[i]
        BY <2>1, <2>4, <4>1, <4>2, <2>0, SMTT(30)
      <4>5. ASSUME NEW g \in S, NEW h \in S, Before(x.files, g, h),
                   NEW k \in 1..Len(t), NEW l \in 1..Len(t), t[k] = g, t[l] = h
            PROVE  k < l
        <5>0. \A i, j \in 1..N : x.files[i] = g /\ x.files[j] = h => i < j
          BY <1>3, <4>5
        <5>1. CASE k \in 1..Len(s) /\ l \in 1..Len(s)
          <6>1. Before(s, g, h)
            BY <2>1, <4>5
          <6> QED
            BY <4>1, <4>5, <5>1, <6>1 DEF Before
        <5>2. CASE k = Len(s) + 1 /\ l \in 1..Len(s)
          <6>1. PICK i \in 1..n : s[l] = x.files[i]
            BY <2>1, <5>2
          <6>2. x.files[i] = h /\ x.files[n + 1] = g
            BY <4>1, <4>5, <5>2, <6>1
          <6>3. n + 1 < i
            BY <5>0, <2>0, <2>4, <6>2
          <6> QED
            BY <2>0, <6>3
        <5>3. CASE k \in 1..Len(s) /\ l = Len(s) + 1
          BY <4>3, <5>3
        <5>4. CASE k = Len(s) + 1 /\ l = Len(s) + 1
          <6>1. x.files[n + 1] = g /\ x.files[n + 1] = h
            BY <4>1, <4>5, <5>4
          <6>2. n + 1 < n + 1
            BY <2>0, <5>0, <6>1
          <6> QED
            BY <2>0, <6>2
        <5> QED
          BY <4>2, <5>1, <5>2, <5>3, <5>4
      <4>6. ASSUME NEW i \in 1..(n + 1), differs(i)
            PROVE  \E k \in 1..Len(t) : t[k] = x.files[i]
        <5>1. CASE i \in 1..n
          BY <2>1, <4>1, <4>3, <4>6, <5>1
        <5>2. CASE i = n + 1
          BY <4>1, <5>2
        <5> QED
          BY <2>3, <5>1, <5>2
      <4>7. \A g, h \in S : Before(x.files, g, h) => Before(t, g, h)
        <5> SUFFICES ASSUME NEW g \in S, NEW h \in S, Before(x.files, g, h) PROVE Before(t, g, h)
          OBVIOUS
        <5> QED
          BY <4>5 DEF Before
      <4> QED
        BY <4>1, <4>4, <4>6, <4>7
    <3> QED
      BY <3>1, <3>2
  <2> QED
    BY <2>0, <2>5 DEF t
<1>7. N \in T
  <2> HIDE DEF T
  <2>1. \A n \in 0..N : n \in T
    BY <1>4, <1>5, <1>6, Induction
  <2> QED
    BY <1>4, <2>1
<1>8. good(N, Staged(d, x))
  BY <1>2, <1>7
<1> QED
  BY <1>8 DEF differs, N

\* done.md, then, is staged before the board if the result has it so.
LEMMA StagedInOrder ==
  ASSUME NEW d, NEW x, DoneFirst(x.files)
  PROVE  /\ DoneFirst(Staged(d, x))
         /\ \A i \in 1..Len(x.files) : Content(d, x.files[i]) # Content(x.dir, x.files[i]) =>
              \E k \in 1..Len(Staged(d, x)) : Staged(d, x)[k] = x.files[i]
<1> DEFINE S == Main \cup Details
           files == Staged(d, x)
<1>1. \A s : DoneFirst(s) <=> s \in Seq(S) /\ Before(s, DoneMd, BoardMd)
  BY DEF DoneFirst, Before
<1>2. x.files \in Seq(S) /\ Before(x.files, DoneMd, BoardMd)
  BY <1>1
<1>3. DoneMd \in S /\ BoardMd \in S
  BY DEF Main
<1> HIDE DEF S
<1>4. /\ files \in Seq(S)
      /\ \A f, g \in S : Before(x.files, f, g) => Before(files, f, g)
      /\ \A i \in 1..Len(x.files) : Content(d, x.files[i]) # Content(x.dir, x.files[i]) =>
           \E k \in 1..Len(files) : files[k] = x.files[i]
  BY <1>2, StagedOrder
<1> HIDE DEF files
<1>5. DoneFirst(files)
  BY <1>1, <1>2, <1>3, <1>4
<1> QED
  BY <1>4, <1>5 DEF files

-----------------------------------------------------------------------------
(* The plans.                                                              *)

\* What a Store writes for a request over files that are legal: such files
\* again, done.md before the board, the log last, and what is deleted is gone.
Proper(c, r, p) ==
  /\ Legal(p.target)
  /\ p.writes \in Seq(Files) /\ p.deletes \in Seq(Details)
  /\ \A i \in 1..Len(p.deletes) : p.target[p.deletes[i]] = None
  /\ Follows(DirOf(c), DirOf(p.target), Taken(r))
  /\ \A i, j \in 1..Len(p.writes) : p.writes[i] = BoardMd /\ p.writes[j] = DoneMd => j < i
  /\ \A id \in Ids :
       /\ DirOf(c).board.item[id] # None
       /\ DirOf(p.target).board.item[id] = None /\ DirOf(p.target).done[id] # None
       => DirOf(c).done[id] # None \/ \E i \in 1..Len(p.writes) : p.writes[i] = DoneMd
  /\ \A i \in 1..Len(p.writes) : p.writes[i] = AuditMd => i = Len(p.writes)

\* A plan is what a result comes to.
LEMMA PlanIs ==
  ASSUME NEW c, NEW r, NEW p \in Plan(c, r)
  PROVE  \E x \in Results(DirOf(c), r), logged \in BOOLEAN :
           /\ Commits(DirOf(c), x)
           /\ p.target = ContentOf(x.dir, IF logged THEN c[AuditMd] + 1 ELSE c[AuditMd])
           /\ p.writes = IF logged THEN Append(Staged(DirOf(c), x), AuditMd) ELSE Staged(DirOf(c), x)
           /\ p.deletes = x.deletes
           /\ logged = (Staged(DirOf(c), x) # <<>> \/ x.deletes # <<>>)
<1> DEFINE d == DirOf(c)
           logged(x) == Staged(d, x) # <<>> \/ x.deletes # <<>>
           planned(x) ==
             [target  |-> ContentOf(x.dir, IF logged(x) THEN c[AuditMd] + 1 ELSE c[AuditMd]),
              writes  |-> IF logged(x) THEN Logged(Staged(d, x)) ELSE Staged(d, x),
              deletes |-> x.deletes]
<1>1. PICK x \in Results(d, r) : Commits(d, x) /\ p = planned(x)
  BY DEF Plan
<1>2. logged(x) \in BOOLEAN
  OBVIOUS
<1>3. /\ p.target = ContentOf(x.dir, IF logged(x) THEN c[AuditMd] + 1 ELSE c[AuditMd])
      /\ p.writes = IF logged(x) THEN Append(Staged(d, x), AuditMd) ELSE Staged(d, x)
      /\ p.deletes = x.deletes
  BY <1>1 DEF Logged
<1> QED
  BY <1>1, <1>2, <1>3

\* A list of the directory stages nothing.
LEMMA ListPlan ==
  ASSUME NEW c \in Contents, NEW r, r.op = "list", NEW p \in Plan(c, r)
  PROVE  /\ p.target \in Contents
         /\ p.writes = <<>> /\ p.deletes = <<>>
<1> DEFINE d == DirOf(c)
<1>1. PICK x \in Results(d, r), logged \in BOOLEAN :
        /\ p.target = ContentOf(x.dir, IF logged THEN c[AuditMd] + 1 ELSE c[AuditMd])
        /\ p.writes = IF logged THEN Append(Staged(d, x), AuditMd) ELSE Staged(d, x)
        /\ p.deletes = x.deletes
        /\ logged = (Staged(d, x) # <<>> \/ x.deletes # <<>>)
  BY PlanIs
<1>2. x.dir = d /\ x.files = <<>> /\ x.deletes = <<>>
  BY DEF Results, Result
<1>3. Staged(d, x) = <<>>
  <2>1. x.files \in Seq(Files)
    BY <1>2
  <2>3. Len(x.files) = 0
    BY <1>2
  <2> HIDE DEF d
  <2>2. PICK f : /\ Staged(d, x) = f[Len(x.files)]
                 /\ f[0] = <<>>
                 /\ \A n \in 1..Len(x.files) :
                      f[n] = IF Content(d, x.files[n]) = Content(x.dir, x.files[n]) THEN f[n - 1]
                             ELSE Append(f[n - 1], x.files[n])
    BY <2>1, StagedIs
  <2> QED
    BY <2>2, <2>3
<1>4. p.target = ContentOf(d, c[AuditMd]) /\ p.writes = <<>> /\ p.deletes = <<>>
  BY <1>1, <1>2, <1>3
<1> DEFINE t == ContentOf(d, c[AuditMd])
<1>5. /\ t = [f \in Files |-> t[f]]
      /\ t[BoardMd] = d.board /\ t[DoneMd] = d.done /\ t[AuditMd] = c[AuditMd]
      /\ \A id \in Ids : t[DetailName(id)] = d.detail[id]
  BY ContentOfIs
<1>6. d.board = c[BoardMd] /\ d.done = c[DoneMd] /\ \A id \in Ids : d.detail[id] = c[DetailName(id)]
  BY DirOfIs
<1> HIDE DEF t, d
<1>7. \A f \in Files : t[f] = c[f]
  BY <1>5, <1>6, FilesAre, ZenonT(60) DEF Details
<1>8. t \in Contents
  BY <1>5, <1>7 DEF Contents
<1> QED
  BY <1>4, <1>8 DEF t

\* Every plan of every call: what it writes is its result, in an order that
\* loses nothing.
LEMMA PlanProper ==
  ASSUME NEW c, Legal(c), NEW r \in Call, NEW p \in Plan(c, r)
  PROVE  Proper(c, r, p)
<1> DEFINE d == DirOf(c)
<1>1. d \in Dir /\ Grouped(d.board) /\ Fresh(d.board) /\ c[AuditMd] \in Nat
  BY DirOfIs DEF Legal
<1>2. PICK x \in Results(d, r), logged \in BOOLEAN :
        /\ p.target = ContentOf(x.dir, IF logged THEN c[AuditMd] + 1 ELSE c[AuditMd])
        /\ p.writes = IF logged THEN Append(Staged(d, x), AuditMd) ELSE Staged(d, x)
        /\ p.deletes = x.deletes
  BY PlanIs
<1> HIDE DEF d
<1>3. Follows(d, x.dir, Taken(r)) /\ InOrder(d, x)
  BY <1>1, ResultFollows, ResultInOrder
<1>4. x.dir \in Dir /\ Grouped(x.dir.board) /\ Fresh(x.dir.board)
  BY <1>3 DEF Follows
<1>5. Legal(p.target) /\ DirOf(p.target) = x.dir
  <2> DEFINE audit == IF logged THEN c[AuditMd] + 1 ELSE c[AuditMd]
  <2>1. audit \in Nat /\ p.target = ContentOf(x.dir, audit)
    BY <1>1, <1>2
  <2> HIDE DEF audit
  <2> QED
    BY <1>4, <2>1, ContentLegal
<1>6. DoneFirst(x.files) /\ NoneLeft(x)
  BY <1>3 DEF InOrder, DoneFirst, NoneLeft, Main
<1> DEFINE files == Staged(d, x)
<1>7. /\ DoneFirst(files)
      /\ \A i \in 1..Len(x.files) : Content(d, x.files[i]) # Content(x.dir, x.files[i]) =>
           \E k \in 1..Len(files) : files[k] = x.files[i]
  BY <1>6, StagedInOrder
<1> HIDE DEF files
<1>8. /\ files \in Seq(Main \cup Details)
      /\ \A i, j \in 1..Len(files) : files[i] = BoardMd /\ files[j] = DoneMd => j < i
  BY <1>7 DEF DoneFirst
<1>9. Main \cup Details \subseteq Files /\ AuditMd \in Files
      /\ AuditMd \notin Main \cup Details
  BY FilesAre, Names DEF Main
<1>10. /\ p.writes \in Seq(Files)
       /\ Len(files) \in Nat
       /\ Len(p.writes) = Len(files) \/ (Len(p.writes) = Len(files) + 1 /\ p.writes[Len(files) + 1] = AuditMd)
       /\ \A i \in 1..Len(files) : p.writes[i] = files[i] /\ files[i] \in Main \cup Details
  <2>1. p.writes = Append(files, AuditMd) \/ p.writes = files
    BY <1>2 DEF files
  <2>2. files \in Seq(Files)
    BY <1>8, <1>9
  <2>3. CASE p.writes = files
    BY <1>8, <2>2, <2>3
  <2>4. CASE p.writes = Append(files, AuditMd)
    BY <1>8, <1>9, <2>2, <2>4
  <2> QED
    BY <2>1, <2>3, <2>4
<1>11. \A i \in 1..Len(p.writes) : i \in 1..Len(files) \/ (i = Len(p.writes) /\ p.writes[i] = AuditMd)
  BY <1>10
<1>12. \A i \in 1..Len(p.writes) : p.writes[i] = AuditMd => i = Len(p.writes)
  BY <1>9, <1>10, <1>11
<1>13. \A i, j \in 1..Len(p.writes) : p.writes[i] = BoardMd /\ p.writes[j] = DoneMd => j < i
  BY <1>8, <1>10, <1>11, Names
<1>14. ASSUME NEW id \in Ids, d.board.item[id] # None, x.dir.board.item[id] = None, x.dir.done[id] # None
       PROVE  d.done[id] # None \/ \E i \in 1..Len(p.writes) : p.writes[i] = DoneMd
  <2>1. CASE d.done[id] # None
    BY <2>1
  <2>2. CASE d.done[id] = None
    <3>1. PICK i \in 1..Len(x.files) : x.files[i] = DoneMd
      BY <1>3, <1>14, <2>2 DEF InOrder
    <3>2. Content(d, DoneMd) # Content(x.dir, DoneMd)
      <4>1. Content(d, DoneMd) = d.done /\ Content(x.dir, DoneMd) = x.dir.done
        BY DEF Content, DoneMd, File
      <4> QED
        BY <1>14, <2>2, <4>1
    <3>3. PICK k \in 1..Len(files) : files[k] = DoneMd
      BY <1>7, <3>1, <3>2
    <3>4. k \in 1..Len(p.writes) /\ p.writes[k] = DoneMd
      BY <1>10, <3>3
    <3> QED
      BY <3>4
  <2> QED
    BY <2>1, <2>2
<1>15. /\ p.deletes \in Seq(Details)
       /\ \A i \in 1..Len(p.deletes) : p.target[p.deletes[i]] = None
  <2>1. p.deletes \in Seq(Details) /\ p.deletes = x.deletes
    BY <1>2, <1>6 DEF NoneLeft
  <2>2. ASSUME NEW i \in 1..Len(p.deletes) PROVE p.target[p.deletes[i]] = None
    <3>1. p.deletes[i] \in Details
      BY <2>1
    <3>2. PICK id \in Ids : p.deletes[i] = DetailName(id)
      BY <3>1 DEF Details
    <3>3. x.dir.detail[id] = None
      BY <1>6, <2>1, <3>2 DEF NoneLeft
    <3>4. DirOf(p.target).detail[id] = p.target[DetailName(id)]
      BY DirOfIs
    <3> QED
      BY <1>5, <3>2, <3>3, <3>4
  <2> QED
    BY <2>1, <2>2
<1> QED
  BY <1>3, <1>5, <1>10, <1>12, <1>13, <1>14, <1>15 DEF Proper, d

-----------------------------------------------------------------------------
(* The inductive invariant.                                                *)

\* The changes a plan makes, in their order, and the directory after the
\* first n of them.
ChangesOf(p) == p.writes \o p.deletes

After(c, p, n) ==
  [f \in Files |-> IF \E i \in 1..n : ChangesOf(p)[i] = f THEN p.target[f] ELSE c[f]]

\* Every change of its plan, and those it has still to make.
Changes(w) == ChangesOf(plan[w])
Left(w)    == todo[w] \o dels[w]

\* A caller that writes has read what is there, up to where its load() is.
Loaded(w) ==
  /\ \A i \in 1..(at[w] - 1) : copy[w][ReadOrder[i]] = content[ReadOrder[i]]
  /\ \A i \in at[w]..Len(ReadOrder) : copy[w][ReadOrder[i]] = None
  /\ at[w] > 4 \/ (at[w] = 4 /\ pc[w] \in {"listed", "statted"}) =>
       listing[w] = {f \in Details : content[f] # None}

\* It has made the first n changes of its plan, and nobody else has made any.
Progress(w, n) ==
  /\ Len(Left(w)) = Len(Changes(w)) - n
  /\ \A i \in 1..Len(Left(w)) : Left(w)[i] = Changes(w)[n + i]
  /\ OnlyReads(w) \/ content = After(copy[w], plan[w], n)

\* Its plan is one for what it has read, and legal; that of a list is empty.
Planned(w) ==
  /\ plan[w] \in Plan(copy[w], request[w])
  /\ OnlyReads(w) => plan[w].writes = <<>> /\ plan[w].deletes = <<>>
  /\ ~ OnlyReads(w) => Legal(copy[w]) /\ Proper(copy[w], request[w], plan[w])

Underway(w) ==
  /\ \E n \in 0..Len(Changes(w)) : Progress(w, n)
  /\ \A i \in 1..Len(dels[w]) : plan[w].target[dels[w][i]] = None

InCall(w) ==
  /\ request[w] \in RequestsOf[w]
  /\ pc[w] \in {"idle", "waiting"} => at[w] = 1
  /\ pc[w] = "statted" => at[w] <= Len(ReadOrder)
  /\ pc[w] = "checking" => at[w] = Len(ReadOrder) + 1 /\ dels[w] = plan[w].deletes
  /\ pc[w] # "writing" /\ ~ OnlyReads(w) => Loaded(w)
  /\ pc[w] \in {"checking", "writing"} => Planned(w)
  /\ pc[w] = "writing" => Underway(w)

Kept == TypeOK /\ OneAtATime /\ Legal(content) /\ \A w \in Workers : InCall(w)

Steps(w) == Begin(w) \/ Lock(w) \/ Proceed(w) \/ Fail(w)

-----------------------------------------------------------------------------
(* It holds at first.                                                      *)

\* What a worker may ask for.
LEMMA Asked ==
  ASSUME NEW w \in Workers
  PROVE  RequestsOf[w] \subseteq Requests /\ RequestsOf[w] # {} /\ RequestsOf[w] \subseteq Call
BY StoreTxAssumption DEF Requests

\* Who only reads asks for lists.
LEMMA ReadersList ==
  ASSUME NEW w \in Workers, OnlyReads(w), NEW r \in RequestsOf[w]
  PROVE  r.op = "list"
BY DEF OnlyReads

\* The empty values a caller starts a call with are well typed.
LEMMA Blank == /\ Nothing(None) \in Contents
               /\ \A n \in Nat : Nothing(n) \in [Files -> Nat]
               /\ NoPlan \in Plans
<1>1. Nothing(None) \in Contents
  BY DEF Nothing, Contents
<1>2. \A n \in Nat : Nothing(n) \in [Files -> Nat]
  BY DEF Nothing
<1>3. <<>> \in Seq(Files)
  OBVIOUS
<1> QED BY <1>1, <1>2, <1>3 DEF NoPlan, Plans

\* A caller that is out of a call has read nothing.
LEMMA AtRest ==
  ASSUME NEW w \in Workers, request[w] \in RequestsOf[w], pc[w] = "idle", at[w] = 1,
         copy[w] = Nothing(None)
  PROVE  InCall(w)
<1>1. \A i \in 1..Len(ReadOrder) : copy[w][ReadOrder[i]] = None
  BY FilesAre DEF Nothing
<1>2. Loaded(w)
  BY <1>1 DEF Loaded
<1> QED
  BY <1>2 DEF InCall

\* At first nobody is in a transaction.
LEMMA InitKept == Init => Kept
<1> SUFFICES ASSUME Init PROVE Kept
  OBVIOUS
<1>1. Legal(content) /\ content \in Contents
  <2>1. PICK d \in InitDirs : content = ContentOf(d, 0)
    BY DEF Init, InitContents
  <2>2. d \in Dir /\ Grouped(d.board) /\ \A id \in Ids : d.board.item[id] # None => id < d.board.next
    BY StoreTxAssumption
  <2>3. Fresh(d.board)
    <3>1. d.board.next \in Nat /\ \A x \in Ids : x \in Nat
      BY <2>2, DirFields, IdsAreNumbers
    <3>2. ASSUME NEW x \in Ids, x >= d.board.next PROVE d.board.item[x] = None
      BY <2>2, <3>1, <3>2
    <3> QED
      BY <3>2 DEF Fresh
  <2>4. Legal(content)
    BY <2>1, <2>2, <2>3, ContentLegal
  <2> QED
    BY <2>4 DEF Legal
<1>2. \A w \in Workers : request[w] \in RequestsOf[w]
  <2> SUFFICES ASSUME NEW w \in Workers PROVE request[w] \in RequestsOf[w]
    OBVIOUS
  <2>1. request[w] = CHOOSE r \in RequestsOf[w] : TRUE
    BY DEF Init
  <2> QED
    BY <2>1, Asked
<1>3. TypeOK
  <2> USE DEF Init
  <2>1. version \in [Files -> Nat] /\ clock \in Nat
    BY Blank
  <2>2. lock \in [Stores -> Workers \cup {NoWorker}]
    OBVIOUS
  <2>3. pc \in [Workers -> {"idle", "waiting"} \cup InTransaction]
    OBVIOUS
  <2>4. request \in [Workers -> Requests]
    <3>1. \A w \in Workers : request[w] \in Requests
      BY <1>2, Asked
    <3> QED BY <3>1
  <2>5. at \in [Workers -> 1..(Len(ReadOrder) + 1)]
    BY FilesAre
  <2>6. listing \in [Workers -> SUBSET Details]
    OBVIOUS
  <2>7. /\ stamp \in [Workers -> [Files -> Nat]]
        /\ copy \in [Workers -> Contents]
        /\ plan \in [Workers -> Plans]
    BY Blank
  <2>8. todo \in [Workers -> Seq(Files)] /\ dels \in [Workers -> Seq(Files)]
    OBVIOUS
  <2>9. checked \in [Workers -> Nat] /\ ops \in 0..MaxOps
    BY StoreTxAssumption
  <2> QED BY <1>1, <2>1, <2>2, <2>3, <2>4, <2>5, <2>6, <2>7, <2>8, <2>9 DEF TypeOK
<1>4. OneAtATime
  BY StoreTxAssumption DEF Init, OneAtATime, InTransaction
<1>5. \A w \in Workers : InCall(w)
  BY <1>2, AtRest DEF Init
<1> QED
  BY <1>1, <1>3, <1>4, <1>5 DEF Kept

-----------------------------------------------------------------------------
(* A step keeps it: the callers that are not at it.                        *)

\* Two callers that write share a Store, of which one is in a transaction.
LEMMA OneWriter ==
  ASSUME OneAtATime, NEW v \in Workers, NEW w \in Workers, v # w,
         ~ OnlyReads(v), ~ OnlyReads(w), pc[v] \in InTransaction
  PROVE  pc[w] \notin InTransaction
<1>1. StoreOf[v] = StoreOf[w]
  BY StoreTxAssumption
<1>2. lock[StoreOf[v]] = v
  BY DEF OneAtATime
<1> QED
  BY <1>1, <1>2 DEF OneAtATime

\* A caller whose own variables stay as they are.
LEMMA Bystander ==
  ASSUME NEW w \in Workers, InCall(w),
         pc'[w] = pc[w], request'[w] = request[w], at'[w] = at[w], listing'[w] = listing[w],
         copy'[w] = copy[w], plan'[w] = plan[w], todo'[w] = todo[w], dels'[w] = dels[w],
         content' = content \/ OnlyReads(w) \/ pc[w] \in {"idle", "waiting"}
  PROVE  InCall(w)'
<1>1. ~ OnlyReads(w) /\ pc[w] # "writing" => Loaded(w)'
  <2> SUFFICES ASSUME ~ OnlyReads(w), pc[w] # "writing" PROVE Loaded(w)'
    OBVIOUS
  <2>1. Loaded(w)
    BY DEF InCall
  <2>2. CASE content' = content
    BY <2>1, <2>2 DEF Loaded
  <2>3. CASE pc[w] \in {"idle", "waiting"}
    <3>1. at[w] = 1
      BY <2>3 DEF InCall
    <3> QED
      BY <2>1, <2>3, <3>1 DEF Loaded
  <2> QED
    BY <2>2, <2>3
<1>2. pc[w] = "writing" => Underway(w)'
  <2> SUFFICES ASSUME pc[w] = "writing" PROVE Underway(w)'
    OBVIOUS
  <2>1. Underway(w)
    BY DEF InCall
  <2>2. PICK n \in 0..Len(Changes(w)) : Progress(w, n)
    BY <2>1 DEF Underway
  <2>3. Changes(w)' = Changes(w) /\ Left(w)' = Left(w)
    BY DEF Changes, ChangesOf, Left
  <2>4. Progress(w, n)'
    BY <2>2, <2>3 DEF Progress
  <2> QED
    BY <2>1, <2>3, <2>4 DEF Underway
<1>3. pc[w] \in {"checking", "writing"} => Planned(w)'
  BY DEF InCall, Planned
<1> QED
  BY <1>1, <1>2, <1>3 DEF InCall

\* The other callers, when one takes a step that changes no file.
Others(w) ==
  \A v \in Workers \ {w} :
    /\ pc'[v] = pc[v] /\ request'[v] = request[v] /\ at'[v] = at[v] /\ listing'[v] = listing[v]
    /\ copy'[v] = copy[v] /\ plan'[v] = plan[v] /\ todo'[v] = todo[v] /\ dels'[v] = dels[v]

\* What a step of one worker leaves to the others.
LEMMA OthersKept ==
  ASSUME Kept, NEW w \in Workers, Others(w),
         content' = content \/ (~ OnlyReads(w) /\ pc[w] \in InTransaction), InCall(w)'
  PROVE  \A v \in Workers : InCall(v)'
<1> SUFFICES ASSUME NEW v \in Workers, v # w PROVE InCall(v)'
  OBVIOUS
<1>1. InCall(v) /\ pc[v] \in {"idle", "waiting"} \cup InTransaction
  BY DEF Kept, TypeOK
<1>2. content' = content \/ OnlyReads(v) \/ pc[v] \in {"idle", "waiting"}
  BY <1>1, OneWriter DEF Kept
<1> QED
  BY <1>1, <1>2, Bystander DEF Others

\* A step of a worker touches no other's variables.
LEMMA StepOthers ==
  ASSUME TypeOK, NEW w \in Workers, Steps(w)
  PROVE  Others(w)
<1> USE DEF disk, model, staged
<1>1. CASE Begin(w) \/ Lock(w)
  BY <1>1 DEF TypeOK, Others, Begin, Lock
<1>2. CASE List(w) \/ Stat(w) \/ Read(w) \/ Skip(w)
  BY <1>2 DEF TypeOK, Others, List, Stat, Read, Skip
<1>3. CASE Prepare(w)
  BY <1>3 DEF TypeOK, Others, Prepare
<1>4. CASE CheckOne(w) \/ CheckedAll(w) \/ Write(w) \/ Delete(w)
  BY <1>4 DEF TypeOK, Others, CheckOne, CheckedAll, Write, Delete
<1>5. CASE Refuse(w) \/ Conflict(w) \/ Done(w) \/ Fail(w)
  <2>1. Return(w)
    BY <1>5 DEF Refuse, Conflict, Done, Fail
  <2> QED
    BY <2>1 DEF TypeOK, Others, Return, Leave
<1> QED
  BY <1>1, <1>2, <1>3, <1>4, <1>5 DEF Steps, Proceed

-----------------------------------------------------------------------------
(* Lemmas of the caller that is.                                           *)

\* Of two sequences one after the other, without the first element.
LEMMA TailConcat ==
  ASSUME NEW S, NEW s \in Seq(S), NEW t \in Seq(S), s # <<>>
  PROVE  /\ Tail(s) \o t \in Seq(S) /\ Len(s \o t) \in Nat
         /\ Len(Tail(s) \o t) = Len(s \o t) - 1 /\ Len(s \o t) >= 1
         /\ (s \o t)[1] = Head(s)
         /\ \A i \in 1..(Len(s \o t) - 1) : (Tail(s) \o t)[i] = (s \o t)[i + 1]
<1> DEFINE u == Tail(s)
<1>1. /\ u \in Seq(S) /\ Len(u) = Len(s) - 1 /\ Len(s) \in Nat /\ Len(s) >= 1 /\ Len(t) \in Nat
      /\ Head(s) = s[1] /\ \A i \in 1..(Len(s) - 1) : u[i] = s[i + 1]
  OBVIOUS
<1> HIDE DEF u
<1>2. /\ u \o t \in Seq(S) /\ Len(u \o t) = Len(u) + Len(t)
      /\ \A i \in 1..(Len(u) + Len(t)) : (u \o t)[i] = IF i <= Len(u) THEN u[i] ELSE t[i - Len(u)]
  BY <1>1, ConcatProperties
<1>3. /\ Len(s \o t) = Len(s) + Len(t)
      /\ \A i \in 1..(Len(s) + Len(t)) : (s \o t)[i] = IF i <= Len(s) THEN s[i] ELSE t[i - Len(s)]
  BY ConcatProperties
<1>4. ASSUME NEW i \in 1..(Len(s \o t) - 1) PROVE (u \o t)[i] = (s \o t)[i + 1]
  <2>1. i \in 1..(Len(u) + Len(t)) /\ i + 1 \in 1..(Len(s) + Len(t)) /\ i \in Nat
    BY <1>1, <1>3
  <2>2. CASE i <= Len(u)
    <3>1. i \in 1..(Len(s) - 1) /\ i + 1 <= Len(s)
      BY <1>1, <2>1, <2>2
    <3> QED
      BY <1>1, <1>2, <1>3, <2>1, <2>2, <3>1
  <2>3. CASE ~ (i <= Len(u))
    <3>1. ~ (i + 1 <= Len(s)) /\ i - Len(u) = (i + 1) - Len(s)
      BY <1>1, <2>1, <2>3
    <3> QED
      BY <1>2, <1>3, <2>1, <2>3, <3>1
  <2> QED
    BY <2>2, <2>3
<1>5. 1 \in 1..(Len(s) + Len(t)) /\ 1 <= Len(s)
  BY <1>1
<1>6. (s \o t)[1] = Head(s)
  BY <1>1, <1>3, <1>5
<1> QED
  BY <1>1, <1>2, <1>3, <1>4, <1>6 DEF u

\* One more change of a plan.
LEMMA AfterNext ==
  ASSUME NEW c, NEW p, NEW n \in Nat, NEW f \in Files, (p.writes \o p.deletes)[n + 1] = f
  PROVE  [After(c, p, n) EXCEPT ![f] = p.target[f]] = After(c, p, n + 1)
<1> DEFINE order == p.writes \o p.deletes
           a == After(c, p, n)
           b == After(c, p, n + 1)
<1>1. /\ a = [g \in Files |-> IF \E i \in 1..n : order[i] = g THEN p.target[g] ELSE c[g]]
      /\ b = [g \in Files |-> IF \E i \in 1..(n + 1) : order[i] = g THEN p.target[g] ELSE c[g]]
  BY DEF After, ChangesOf
<1>2. order[n + 1] = f
  OBVIOUS
<1> HIDE DEF order, a, b
<1>3. \A i : i \in 1..(n + 1) <=> i \in 1..n \/ i = n + 1
  OBVIOUS
<1>4. ASSUME NEW g \in Files PROVE b[g] = IF g = f THEN p.target[f] ELSE a[g]
  BY <1>1, <1>2, <1>3
<1> QED
  BY <1>1, <1>4 DEF a, b

\* No change has been made.
LEMMA AfterNone ==
  ASSUME NEW c \in Contents, NEW p
  PROVE  After(c, p, 0) = c
BY DEF After, Contents

\* details/ is listed where its files begin.
LEMMA ToListIs ==
  ASSUME NEW w \in Workers, at[w] \in 1..(Len(ReadOrder) + 1)
  PROVE  ToList(w) <=> at[w] = 4
<1>1. Len(ReadOrder) \in Nat /\ Len(ReadOrder) > 3
  BY FilesAre
<1>2. CASE at[w] = 4
  <2>1. 3 \in 1..Len(ReadOrder) /\ 4 \in 1..Len(ReadOrder) /\ 4 - 1 = 3
    BY <1>1
  <2>2. ReadOrder[3] \notin Details /\ ReadOrder[4] \in Details
    BY <2>1, FilesAre
  <2> QED
    BY <1>1, <1>2, <2>1, <2>2 DEF ToList
<1>3. CASE at[w] < 4
  <2>1. at[w] \in 1..Len(ReadOrder)
    BY <1>1, <1>3
  <2>2. ReadOrder[at[w]] \notin Details
    BY <1>3, <2>1, FilesAre
  <2> QED
    BY <1>3, <2>2 DEF ToList
<1>4. CASE at[w] > 4
  <2> SUFFICES ASSUME ToList(w) PROVE FALSE
    BY <1>4
  <2>1. at[w] \in 1..Len(ReadOrder) /\ at[w] - 1 \in 1..Len(ReadOrder) /\ at[w] - 1 > 3
    BY <1>1, <1>4 DEF ToList
  <2>2. ReadOrder[at[w] - 1] \in Details
    BY <2>1, FilesAre
  <2> QED
    BY <1>4, <2>2 DEF ToList
<1> QED
  BY <1>2, <1>3, <1>4

\* What is read to the end is what is there.
LEMMA AllRead ==
  ASSUME TypeOK, NEW w \in Workers, Loaded(w), at[w] = Len(ReadOrder) + 1
  PROVE  copy[w] = content
<1>1. Len(ReadOrder) \in Nat /\ at[w] - 1 = Len(ReadOrder)
  BY FilesAre
<1>2. \A i \in 1..Len(ReadOrder) : copy[w][ReadOrder[i]] = content[ReadOrder[i]]
  BY <1>1 DEF Loaded
<1>3. \A f \in Files : copy[w][f] = content[f]
  BY <1>2 DEF Files
<1>4. copy[w] \in Contents /\ content \in Contents
  BY DEF TypeOK
<1> QED
  BY <1>3, <1>4 DEF Contents

\* Every plan is well typed.
LEMMA ProperPlan ==
  ASSUME NEW c, NEW r, NEW p, Proper(c, r, p)
  PROVE  p.target \in Contents /\ p.writes \in Seq(Files) /\ p.deletes \in Seq(Files)
<1>1. p.deletes \in Seq(Details) /\ Details \subseteq Files
  BY FilesAre DEF Proper
<1> QED
  BY <1>1 DEF Proper, Legal

\* A plan is a plan of the protocol.
LEMMA PlanTyped ==
  ASSUME NEW c, NEW r, NEW p \in Plan(c, r), p.target \in Contents,
         p.writes \in Seq(Files), p.deletes \in Seq(Files)
  PROVE  p \in Plans
<1> DEFINE d == DirOf(c)
           logged(x) == Staged(d, x) # <<>> \/ x.deletes # <<>>
           planned(x) ==
             [target  |-> ContentOf(x.dir, IF logged(x) THEN c[AuditMd] + 1 ELSE c[AuditMd]),
              writes  |-> IF logged(x) THEN Logged(Staged(d, x)) ELSE Staged(d, x),
              deletes |-> x.deletes]
<1>1. PICK x \in Results(d, r) : p = planned(x)
  BY DEF Plan
<1>2. \E t, ws, ds : p = [target |-> t, writes |-> ws, deletes |-> ds]
  BY <1>1
<1>3. p = [target |-> p.target, writes |-> p.writes, deletes |-> p.deletes]
  BY <1>2
<1> QED
  BY <1>3 DEF Plans

-----------------------------------------------------------------------------
(* A step keeps the types.                                                 *)

\* The plan of a caller that has read all there is.
LEMMA PlanOf ==
  ASSUME Kept, NEW w \in Workers, pc[w] = "loading", at[w] > Len(ReadOrder),
         NEW p \in Plan(copy[w], request[w])
  PROVE  /\ p \in Plans
         /\ OnlyReads(w) => p.writes = <<>> /\ p.deletes = <<>>
         /\ ~ OnlyReads(w) => Legal(copy[w]) /\ Proper(copy[w], request[w], p)
<1>1. /\ TypeOK /\ Legal(content) /\ InCall(w) /\ request[w] \in RequestsOf[w]
      /\ copy[w] \in Contents /\ request[w] \in Call
  BY Asked DEF Kept, TypeOK, InCall
<1>2. at[w] = Len(ReadOrder) + 1
  BY <1>1, FilesAre DEF TypeOK
<1>3. CASE OnlyReads(w)
  <2>1. request[w].op = "list"
    BY <1>1, <1>3, ReadersList
  <2>2. p.target \in Contents /\ p.writes = <<>> /\ p.deletes = <<>>
    BY <1>1, <2>1, ListPlan
  <2>3. p.writes \in Seq(Files) /\ p.deletes \in Seq(Files)
    BY <2>2
  <2>4. p \in Plans
    BY <2>2, <2>3, PlanTyped
  <2> QED
    BY <1>3, <2>2, <2>4
<1>4. CASE ~ OnlyReads(w)
  <2>1. Legal(copy[w])
    BY <1>1, <1>2, <1>4, AllRead DEF InCall
  <2>2. Proper(copy[w], request[w], p)
    BY <1>1, <2>1, PlanProper
  <2>3. p \in Plans
    BY <2>2, ProperPlan, PlanTyped
  <2> QED
    BY <1>4, <2>1, <2>2, <2>3
<1> QED
  BY <1>3, <1>4

\* A stamp is a natural number.
LEMMA StampNat == ASSUME TypeOK, NEW f \in Files PROVE stampOf(f) \in Nat
BY DEF TypeOK, stampOf

\* Callers that leave keep every variable of theirs well typed.
LEMMA LeaveTypes ==
  ASSUME TypeOK, NEW ws, Leave(ws)
  PROVE  /\ pc' \in [Workers -> {"idle", "waiting"} \cup InTransaction]
         /\ at' \in [Workers -> 1..(Len(ReadOrder) + 1)]
         /\ listing' \in [Workers -> SUBSET Details]
         /\ stamp' \in [Workers -> [Files -> Nat]]
         /\ copy' \in [Workers -> Contents]
         /\ plan' \in [Workers -> Plans]
         /\ todo' \in [Workers -> Seq(Files)]
         /\ dels' \in [Workers -> Seq(Files)]
         /\ checked' \in [Workers -> Nat]
<1>1. pc' \in [Workers -> {"idle", "waiting"} \cup InTransaction]
  BY DEF TypeOK, Leave
<1>2. at' \in [Workers -> 1..(Len(ReadOrder) + 1)]
  <2>1. 1 \in 1..(Len(ReadOrder) + 1)
    BY FilesAre
  <2> QED BY <2>1 DEF TypeOK, Leave
<1>3. listing' \in [Workers -> SUBSET Details]
  BY DEF TypeOK, Leave
<1>4. stamp' \in [Workers -> [Files -> Nat]]
  BY Blank DEF TypeOK, Leave
<1>5. copy' \in [Workers -> Contents]
  BY Blank DEF TypeOK, Leave
<1>6. plan' \in [Workers -> Plans]
  BY Blank DEF TypeOK, Leave
<1>7. todo' \in [Workers -> Seq(Files)] /\ dels' \in [Workers -> Seq(Files)]
  <2>1. <<>> \in Seq(Files)
    OBVIOUS
  <2> QED BY <2>1 DEF TypeOK, Leave
<1>8. checked' \in [Workers -> Nat]
  BY DEF TypeOK, Leave
<1> QED BY <1>1, <1>2, <1>3, <1>4, <1>5, <1>6, <1>7, <1>8

\* A caller that returns gives its mutex back.
LEMMA ReturnTypes == ASSUME TypeOK, NEW w \in Workers, Return(w) PROVE TypeOK'
<1>1. Leave({w})
  BY DEF Return
<1>2. lock' \in [Stores -> Workers \cup {NoWorker}]
  BY StoreTxAssumption DEF TypeOK, Return
<1> QED BY <1>1, <1>2, LeaveTypes DEF TypeOK, Return, disk

\* A change of one file keeps the directory well typed.
LEMMA PutTypes ==
  ASSUME TypeOK, NEW f \in Files, NEW c \in Values \cup {None}, Put(f, c)
  PROVE  content' \in Contents /\ version' \in [Files -> Nat] /\ clock' \in Nat
BY DEF TypeOK, Put, Contents

\* Types, through each step of a transaction,
LEMMA StepTypes == ASSUME Kept, NEW w \in Workers, Steps(w) PROVE TypeOK'
<1> USE DEF disk, model, staged
<1>0. TypeOK /\ Len(ReadOrder) \in Nat /\ \A i \in 1..Len(ReadOrder) : ReadOrder[i] \in Files
  BY FilesAre DEF Kept
<1>1. CASE Begin(w)
  <2>1. PICK r \in RequestsOf[w] : request' = [request EXCEPT ![w] = r]
    BY <1>1 DEF Begin
  <2>2. request' \in [Workers -> Requests]
    BY <1>0, <2>1, Asked DEF TypeOK
  <2>3. ops' \in 0..MaxOps
    <3>1. ops \in 0..MaxOps /\ ops < MaxOps /\ ops' = ops + 1
      BY <1>0, <1>1 DEF TypeOK, Begin
    <3> QED BY <3>1, StoreTxAssumption
  <2> QED BY <1>0, <1>1, <2>2, <2>3 DEF TypeOK, Begin
<1>2. CASE Lock(w)
  <2>1. lock' \in [Stores -> Workers \cup {NoWorker}]
    BY <1>0, <1>2 DEF TypeOK, Lock
  <2>2. pc' \in [Workers -> {"idle", "waiting"} \cup InTransaction]
    BY <1>0, <1>2 DEF TypeOK, Lock, InTransaction
  <2> QED BY <1>0, <1>2, <2>1, <2>2 DEF TypeOK, Lock
<1>3. CASE List(w)
  <2>1. listing' \in [Workers -> SUBSET Details]
    BY <1>0, <1>3 DEF TypeOK, List
  <2>2. pc' \in [Workers -> {"idle", "waiting"} \cup InTransaction]
    BY <1>0, <1>3 DEF TypeOK, List, InTransaction
  <2> QED BY <1>0, <1>3, <2>1, <2>2 DEF TypeOK, List
<1>4. CASE Stat(w)
  <2>1. at[w] \in 1..Len(ReadOrder)
    BY <1>0, <1>4 DEF TypeOK, Stat
  <2>2. /\ ReadOrder[at[w]] \in Files
        /\ stampOf(ReadOrder[at[w]]) \in Nat
    BY <1>0, <2>1, StampNat
  <2>3. stamp' \in [Workers -> [Files -> Nat]]
    BY <1>0, <1>4, <2>2 DEF TypeOK, Stat
  <2>4. pc' \in [Workers -> {"idle", "waiting"} \cup InTransaction]
    BY <1>0, <1>4 DEF TypeOK, Stat, InTransaction
  <2> QED BY <1>0, <1>4, <2>3, <2>4 DEF TypeOK, Stat
<1>5. CASE Skip(w)
  <2>1. at' \in [Workers -> 1..(Len(ReadOrder) + 1)]
    BY <1>0, <1>5 DEF TypeOK, Skip
  <2>2. pc' \in [Workers -> {"idle", "waiting"} \cup InTransaction]
    BY <1>0, <1>5 DEF TypeOK, Skip, InTransaction
  <2> QED BY <1>0, <1>5, <2>1, <2>2 DEF TypeOK, Skip
<1>6. CASE Prepare(w)
  <2>1. PICK p \in Plan(copy[w], request[w]) :
          /\ plan' = [plan EXCEPT ![w] = p]
          /\ todo' = [todo EXCEPT ![w] = p.writes]
          /\ dels' = [dels EXCEPT ![w] = p.deletes]
    BY <1>6 DEF Prepare
  <2>2. p \in Plans
    BY <1>6, PlanOf DEF Prepare
  <2>3. p.writes \in Seq(Files) /\ p.deletes \in Seq(Files)
    BY <2>2 DEF Plans
  <2>4. /\ plan' \in [Workers -> Plans]
        /\ todo' \in [Workers -> Seq(Files)]
        /\ dels' \in [Workers -> Seq(Files)]
    BY <1>0, <2>1, <2>2, <2>3 DEF TypeOK
  <2>5. pc' \in [Workers -> {"idle", "waiting"} \cup InTransaction]
    BY <1>0, <1>6 DEF TypeOK, Prepare, InTransaction
  <2>6. checked' \in [Workers -> Nat]
    BY <1>0, <1>6 DEF TypeOK, Prepare
  <2> QED BY <1>0, <1>6, <2>4, <2>5, <2>6 DEF TypeOK, Prepare
<1>7. CASE CheckOne(w)
  <2>1. todo' \in [Workers -> Seq(Files)]
    BY <1>0, <1>7 DEF TypeOK, CheckOne
  <2> QED BY <1>0, <1>7, <2>1 DEF TypeOK, CheckOne
<1>8. CASE CheckedAll(w)
  <2>1. plan[w].writes \in Seq(Files)
    BY <1>0 DEF TypeOK, Plans
  <2>2. todo' \in [Workers -> Seq(Files)]
    BY <1>0, <1>8, <2>1 DEF TypeOK, CheckedAll
  <2>3. pc' \in [Workers -> {"idle", "waiting"} \cup InTransaction]
    BY <1>0, <1>8 DEF TypeOK, CheckedAll, InTransaction
  <2> QED BY <1>0, <1>8, <2>2, <2>3 DEF TypeOK, CheckedAll
<1>9. CASE Write(w)
  <2>1. Head(todo[w]) \in Files /\ Tail(todo[w]) \in Seq(Files)
    BY <1>0, <1>9 DEF TypeOK, Write
  <2>2. plan[w].target[Head(todo[w])] \in Values \cup {None}
    BY <1>0, <2>1 DEF TypeOK, Plans, Contents
  <2>3. content' \in Contents /\ version' \in [Files -> Nat] /\ clock' \in Nat
    BY <1>0, <1>9, <2>1, <2>2, PutTypes DEF Write
  <2>4. todo' \in [Workers -> Seq(Files)]
    BY <1>0, <1>9, <2>1 DEF TypeOK, Write
  <2> QED BY <1>0, <1>9, <2>3, <2>4 DEF TypeOK, Write
<1>10. CASE Delete(w)
  <2>1. Head(dels[w]) \in Files /\ Tail(dels[w]) \in Seq(Files)
    BY <1>0, <1>10 DEF TypeOK, Delete
  <2>2. content' \in Contents /\ version' \in [Files -> Nat] /\ clock' \in Nat
    BY <1>0, <1>10, <2>1, PutTypes DEF Delete
  <2>3. dels' \in [Workers -> Seq(Files)]
    BY <1>0, <1>10, <2>1 DEF TypeOK, Delete
  <2> QED BY <1>0, <1>10, <2>2, <2>3 DEF TypeOK, Delete
<1>11. CASE Read(w)
  <2>1. copy' \in [Workers -> Contents]
    BY <1>0, <1>11 DEF TypeOK, Read, Contents
  <2>2. at' \in [Workers -> 1..(Len(ReadOrder) + 1)]
    <3>1. at[w] \in 1..Len(ReadOrder)
      BY <1>0, <1>11 DEF TypeOK, Read, Kept, InCall
    <3> QED BY <1>0, <1>11, <3>1 DEF TypeOK, Read
  <2>3. pc' \in [Workers -> {"idle", "waiting"} \cup InTransaction]
    BY <1>0, <1>11 DEF TypeOK, Read, InTransaction
  <2> QED BY <1>0, <1>11, <2>1, <2>2, <2>3 DEF TypeOK, Read
<1>12. CASE Refuse(w) \/ Conflict(w) \/ Done(w) \/ Fail(w)
  BY <1>0, <1>12, ReturnTypes DEF Refuse, Conflict, Done, Fail
<1> QED BY <1>1, <1>2, <1>3, <1>4, <1>5, <1>6, <1>7, <1>8, <1>9, <1>10, <1>11, <1>12
        DEF Steps, Proceed

\* and through a crash.
LEMMA CrashTypes == ASSUME TypeOK, NEW s \in Stores, Crash(s) PROVE TypeOK'
<1>1. Leave({w \in Workers : StoreOf[w] = s})
  BY DEF Crash
<1>2. lock' \in [Stores -> Workers \cup {NoWorker}]
  BY DEF TypeOK, Crash
<1> QED BY <1>1, <1>2, LeaveTypes DEF TypeOK, Crash, disk

-----------------------------------------------------------------------------
(* A step keeps the transactions of a Store apart.                         *)

\* One transaction at a time in a Store, through each step,
LEMMA OneStep ==
  ASSUME TypeOK, OneAtATime, NEW w \in Workers, Steps(w)
  PROVE  OneAtATime'
<1> USE DEF InTransaction
<1>1. CASE Begin(w)
  BY <1>1 DEF TypeOK, OneAtATime, Begin
<1>2. CASE Lock(w)
  <2> SUFFICES ASSUME NEW v \in Workers
               PROVE pc'[v] \in InTransaction <=> lock'[StoreOf[v]] = v
    BY DEF OneAtATime
  <2>1. StoreOf[v] \in Stores /\ StoreOf[w] \in Stores /\ v # NoWorker
    BY StoreTxAssumption
  <2>2. CASE v = w
    BY <1>2, <2>1, <2>2 DEF TypeOK, Lock
  <2>3. CASE v # w
    BY <1>2, <2>1, <2>3 DEF TypeOK, OneAtATime, Lock
  <2> QED BY <2>2, <2>3
<1>3. CASE List(w) \/ Stat(w) \/ Skip(w) \/ Read(w)
  BY <1>3 DEF TypeOK, OneAtATime, List, Stat, Skip, Read
<1>4. CASE Prepare(w) \/ CheckOne(w) \/ CheckedAll(w) \/ Write(w) \/ Delete(w)
  BY <1>4 DEF TypeOK, OneAtATime, Prepare, CheckOne, CheckedAll, Write, Delete
<1>5. CASE Refuse(w) \/ Conflict(w) \/ Done(w) \/ Fail(w)
  <2>1. Return(w) /\ pc[w] \in InTransaction
    BY <1>5 DEF Refuse, Conflict, Done, Fail
  <2> SUFFICES ASSUME NEW v \in Workers
               PROVE pc'[v] \in InTransaction <=> lock'[StoreOf[v]] = v
    BY DEF OneAtATime
  <2>2. StoreOf[v] \in Stores /\ StoreOf[w] \in Stores /\ v # NoWorker
    BY StoreTxAssumption
  <2>3. CASE v = w
    BY <2>1, <2>2, <2>3 DEF TypeOK, Return, Leave
  <2>4. CASE v # w
    BY <2>1, <2>2, <2>4 DEF TypeOK, OneAtATime, Return, Leave
  <2> QED BY <2>3, <2>4
<1> QED BY <1>1, <1>2, <1>3, <1>4, <1>5 DEF Steps, Proceed

\* and through a crash.
LEMMA OneCrash ==
  ASSUME TypeOK, OneAtATime, NEW s \in Stores, Crash(s)
  PROVE  OneAtATime'
<1> SUFFICES ASSUME NEW v \in Workers
             PROVE pc'[v] \in InTransaction <=> lock'[StoreOf[v]] = v
  BY DEF OneAtATime
<1>1. StoreOf[v] \in Stores /\ v # NoWorker
  BY StoreTxAssumption
<1>2. CASE StoreOf[v] = s
  BY <1>1, <1>2 DEF TypeOK, Crash, Leave, InTransaction
<1>3. CASE StoreOf[v] # s
  BY <1>1, <1>3 DEF TypeOK, OneAtATime, Crash, Leave
<1> QED BY <1>2, <1>3

-----------------------------------------------------------------------------
(* A step keeps it: the caller that is at it.                              *)

\* load() knows every file by one place in its order.
LEMMA OnePlace ==
  ASSUME NEW i \in 1..Len(ReadOrder), NEW j \in 1..Len(ReadOrder), ReadOrder[i] = ReadOrder[j]
  PROVE  i = j
<1> DEFINE n == MaxId
<1>1. n \in Nat /\ Ids = 1..n /\ Len(ReadOrder) = 3 + n
  BY DirectoryAssumption, Order DEF Ids
<1> HIDE DEF n
<1>2. ASSUME NEW k \in 1..Len(ReadOrder)
      PROVE  k = 1 \/ k = 2 \/ k = 3 \/ (k > 3 /\ k - 3 \in Ids /\ ReadOrder[k] = DetailName(k - 3))
  <2>1. CASE k > 3
    <3>1. k - 3 \in Ids /\ 3 + (k - 3) = k
      BY <1>1, <2>1
    <3> QED
      BY <2>1, <3>1, Order
  <2>2. CASE ~ (k > 3)
    BY <1>1, <2>2
  <2> QED
    BY <2>1, <2>2
<1>3. CASE i > 3
  <2>1. j > 3
    BY <1>1, <1>3, FilesAre
  <2>2. i - 3 \in Ids /\ j - 3 \in Ids /\ DetailName(i - 3) = DetailName(j - 3)
    BY <1>1, <1>2, <1>3, <2>1
  <2>3. i - 3 = j - 3
    BY <2>2, Names
  <2> QED
    BY <1>1, <2>3
<1>4. CASE ~ (i > 3)
  <2>1. ~ (j > 3)
    BY <1>1, <1>4, FilesAre
  <2>2. i \in {1, 2, 3} /\ j \in {1, 2, 3}
    BY <1>1, <1>4, <2>1
  <2> QED
    BY <2>2, Order, Names
<1> QED
  BY <1>3, <1>4

\* The load() of a caller keeps up with the files.
LEMMA LoadStep ==
  ASSUME Kept, NEW w \in Workers,
         Begin(w) \/ Lock(w) \/ List(w) \/ Stat(w) \/ Read(w) \/ Skip(w)
  PROVE  content' = content /\ InCall(w)'
<1> USE DEF disk, model, staged
<1>1. /\ TypeOK /\ InCall(w) /\ request[w] \in RequestsOf[w]
      /\ at[w] \in 1..(Len(ReadOrder) + 1) /\ Len(ReadOrder) \in Nat /\ Len(ReadOrder) > 3
  BY FilesAre DEF Kept, TypeOK, InCall
<1>2. content' = content
  BY DEF Begin, Lock, List, Stat, Read, Skip
<1>3. /\ pc'[w] \in {"waiting", "loading", "listed", "statted"}
      /\ request'[w] \in RequestsOf[w]
      /\ pc'[w] = "waiting" => at'[w] = 1
      /\ pc'[w] = "statted" => at'[w] <= Len(ReadOrder)
      /\ ~ OnlyReads(w) => Loaded(w)'
      => InCall(w)'
  BY DEF InCall
<1>4. CASE Begin(w)
  <2>1. PICK r \in RequestsOf[w] : request' = [request EXCEPT ![w] = r]
    BY <1>4 DEF Begin
  <2>2. request'[w] \in RequestsOf[w]
    BY <1>1, <2>1 DEF TypeOK
  <2>3. pc[w] = "idle" /\ pc'[w] = "waiting" /\ at' = at /\ copy' = copy /\ listing' = listing
    BY <1>1, <1>4 DEF Begin, TypeOK
  <2>4. at[w] = 1
    BY <1>1, <2>3 DEF InCall
  <2>5. ~ OnlyReads(w) => Loaded(w)'
    BY <1>1, <1>2, <2>3, <2>4 DEF InCall, Loaded
  <2> QED
    BY <1>2, <1>3, <2>2, <2>3, <2>4, <2>5
<1>5. CASE Lock(w)
  <2>1. /\ pc[w] = "waiting" /\ pc'[w] = "loading" /\ at' = at /\ copy' = copy
        /\ listing' = listing /\ request' = request
    BY <1>1, <1>5 DEF Lock, TypeOK
  <2>2. at[w] = 1
    BY <1>1, <2>1 DEF InCall
  <2>3. ~ OnlyReads(w) => Loaded(w)'
    BY <1>1, <1>2, <2>1, <2>2 DEF InCall, Loaded
  <2> QED
    BY <1>1, <1>2, <1>3, <2>1, <2>3
<1>6. CASE List(w)
  <2>1. /\ pc[w] = "loading" /\ pc'[w] = "listed" /\ at' = at /\ copy' = copy /\ request' = request
        /\ listing'[w] = {f \in Details : content[f] # None}
    BY <1>1, <1>6 DEF List, TypeOK
  <2>2. at[w] = 4
    BY <1>1, <1>6, ToListIs DEF List
  <2>3. ~ OnlyReads(w) => Loaded(w)'
    BY <1>1, <1>2, <2>1, <2>2 DEF InCall, Loaded
  <2> QED
    BY <1>1, <1>2, <1>3, <2>1, <2>3
<1>7. CASE Stat(w)
  <2>1. /\ pc[w] \in {"loading", "listed"} /\ pc'[w] = "statted" /\ at' = at /\ copy' = copy
        /\ request' = request /\ listing' = listing /\ at[w] <= Len(ReadOrder)
    BY <1>1, <1>7 DEF Stat, TypeOK
  <2>2. at[w] = 4 => pc[w] = "listed"
    BY <1>1, <1>7, <2>1, ToListIs DEF Stat
  <2>3. ~ OnlyReads(w) => Loaded(w)'
    BY <1>1, <1>2, <2>1, <2>2 DEF InCall, Loaded
  <2> QED
    BY <1>1, <1>2, <1>3, <2>1, <2>3
<1>8. CASE Read(w)
  <2>1. /\ pc[w] = "statted" /\ pc'[w] = "loading" /\ at'[w] = at[w] + 1
        /\ request' = request /\ listing' = listing /\ at[w] \in 1..Len(ReadOrder)
        /\ copy' = [copy EXCEPT ![w][ReadOrder[at[w]]] = content[ReadOrder[at[w]]]]
    BY <1>1, <1>8 DEF Read, TypeOK, InCall
  <2>2. ReadOrder[at[w]] \in Files /\ copy \in [Workers -> [Files -> Values \cup {None}]]
    BY <1>1, <2>1, FilesAre DEF TypeOK, Contents
  <2>3. \A f \in Files : copy'[w][f] = IF f = ReadOrder[at[w]] THEN content[f] ELSE copy[w][f]
    BY <2>1, <2>2
  <2>4. ~ OnlyReads(w) => Loaded(w)'
    <3> SUFFICES ASSUME ~ OnlyReads(w) PROVE Loaded(w)'
      OBVIOUS
    <3>1. Loaded(w)
      BY <1>1, <2>1 DEF InCall
    <3>2. ASSUME NEW i \in 1..(at'[w] - 1) PROVE copy'[w][ReadOrder[i]] = content[ReadOrder[i]]
      <4>1. i \in 1..Len(ReadOrder) /\ (i = at[w] \/ i \in 1..(at[w] - 1))
        BY <1>1, <2>1
      <4>2. ReadOrder[i] \in Files
        BY <4>1, FilesAre
      <4> QED
        BY <2>3, <3>1, <4>1, <4>2 DEF Loaded
    <3>3. ASSUME NEW i \in at'[w]..Len(ReadOrder) PROVE copy'[w][ReadOrder[i]] = None
      <4>1. i \in 1..Len(ReadOrder) /\ i # at[w] /\ i \in at[w]..Len(ReadOrder)
        BY <1>1, <2>1
      <4>2. ReadOrder[i] \in Files /\ ReadOrder[i] # ReadOrder[at[w]]
        BY <2>1, <4>1, FilesAre, OnePlace
      <4> QED
        BY <2>3, <3>1, <4>1, <4>2 DEF Loaded
    <3>4. at'[w] > 4 => listing[w] = {f \in Details : content[f] # None}
      BY <1>1, <2>1, <3>1 DEF Loaded
    <3> QED
      BY <1>2, <2>1, <3>2, <3>3, <3>4 DEF Loaded
  <2> QED
    BY <1>1, <1>2, <1>3, <2>1, <2>4
<1>9. CASE Skip(w)
  <2>1. /\ pc[w] \in {"loading", "listed"} /\ pc'[w] = "loading" /\ at'[w] = at[w] + 1 /\ copy' = copy
        /\ request' = request /\ listing' = listing /\ at[w] \in 1..Len(ReadOrder)
        /\ ReadOrder[at[w]] \in Details \ listing[w]
    BY <1>1, <1>9 DEF Skip, TypeOK
  <2>2. at[w] > 3
    BY <2>1, FilesAre
  <2>3. at[w] = 4 => pc[w] = "listed"
    BY <1>1, <1>9, <2>1, ToListIs DEF Skip
  <2>4. ~ OnlyReads(w) => Loaded(w)'
    <3> SUFFICES ASSUME ~ OnlyReads(w) PROVE Loaded(w)'
      OBVIOUS
    <3>1. Loaded(w)
      BY <1>1, <2>1 DEF InCall
    <3>2. listing[w] = {f \in Details : content[f] # None}
      BY <1>1, <2>1, <2>2, <2>3, <3>1 DEF Loaded
    <3>3. content[ReadOrder[at[w]]] = None
      BY <2>1, <3>2
    <3>4. copy[w][ReadOrder[at[w]]] = None
      BY <1>1, <2>1, <3>1 DEF Loaded
    <3>5. ASSUME NEW i \in 1..(at'[w] - 1) PROVE copy[w][ReadOrder[i]] = content[ReadOrder[i]]
      <4>1. i = at[w] \/ i \in 1..(at[w] - 1)
        BY <1>1, <2>1
      <4> QED
        BY <3>1, <3>3, <3>4, <4>1 DEF Loaded
    <3>6. ASSUME NEW i \in at'[w]..Len(ReadOrder) PROVE copy[w][ReadOrder[i]] = None
      <4>1. i \in at[w]..Len(ReadOrder)
        BY <1>1, <2>1
      <4> QED
        BY <3>1, <4>1 DEF Loaded
    <3> QED
      BY <1>2, <2>1, <3>2, <3>5, <3>6 DEF Loaded
  <2> QED
    BY <1>1, <1>2, <1>3, <2>1, <2>4
<1> QED
  BY <1>2, <1>4, <1>5, <1>6, <1>7, <1>8, <1>9

\* How many changes a plan has.
LEMMA ChangesLength == ASSUME TypeOK, NEW w \in Workers PROVE Len(Changes(w)) \in Nat
<1>1. plan[w].writes \in Seq(Files) /\ plan[w].deletes \in Seq(Files)
  BY DEF TypeOK, Plans
<1>2. \A s, t \in Seq(Files) : s \o t \in Seq(Files)
  BY ConcatProperties
<1>3. Changes(w) \in Seq(Files)
  BY <1>1, <1>2 DEF Changes, ChangesOf
<1> QED
  BY <1>3

\* So does what it is about to write.
LEMMA CheckStep ==
  ASSUME Kept, NEW w \in Workers, Prepare(w) \/ CheckOne(w) \/ CheckedAll(w)
  PROVE  content' = content /\ InCall(w)'
<1> USE DEF disk, model, staged
<1>1. /\ TypeOK /\ InCall(w) /\ request[w] \in RequestsOf[w] /\ copy[w] \in Contents
      /\ at[w] \in 1..(Len(ReadOrder) + 1) /\ Len(ReadOrder) \in Nat /\ Len(ReadOrder) > 3
  BY FilesAre DEF Kept, TypeOK, InCall
<1>2. /\ content' = content /\ request' = request /\ at' = at /\ copy' = copy /\ listing' = listing
  BY DEF Prepare, CheckOne, CheckedAll
<1>3. CASE Prepare(w)
  <2>1. PICK p \in Plan(copy[w], request[w]) :
          plan' = [plan EXCEPT ![w] = p] /\ dels' = [dels EXCEPT ![w] = p.deletes]
    BY <1>3 DEF Prepare
  <2>2. /\ pc[w] = "loading" /\ pc'[w] = "checking" /\ plan'[w] = p /\ dels'[w] = p.deletes
        /\ at[w] > Len(ReadOrder)
    BY <1>1, <1>3, <2>1 DEF Prepare, TypeOK
  <2>3. at[w] = Len(ReadOrder) + 1
    BY <1>1, <2>2
  <2>4. /\ OnlyReads(w) => p.writes = <<>> /\ p.deletes = <<>>
        /\ ~ OnlyReads(w) => Legal(copy[w]) /\ Proper(copy[w], request[w], p)
    BY <2>1, <2>2, PlanOf
  <2>5. Planned(w)'
    BY <1>2, <2>1, <2>2, <2>4 DEF Planned
  <2>6. ~ OnlyReads(w) => Loaded(w)'
    BY <1>1, <1>2, <2>2, <2>3 DEF InCall, Loaded
  <2> QED
    BY <1>1, <1>2, <2>2, <2>3, <2>5, <2>6 DEF InCall
<1>4. CASE CheckOne(w)
  <2>1. pc[w] = "checking" /\ pc' = pc /\ plan' = plan /\ dels' = dels
    BY <1>4 DEF CheckOne
  <2>2. Planned(w)' /\ (~ OnlyReads(w) => Loaded(w)')
    BY <1>1, <1>2, <2>1 DEF InCall, Planned, Loaded
  <2> QED
    BY <1>1, <1>2, <2>1, <2>2 DEF InCall
<1>5. CASE CheckedAll(w)
  <2>1. /\ pc[w] = "checking" /\ pc'[w] = "writing" /\ plan' = plan /\ dels' = dels
        /\ todo'[w] = plan[w].writes /\ dels[w] = plan[w].deletes /\ at[w] = Len(ReadOrder) + 1
    BY <1>1, <1>5 DEF CheckedAll, TypeOK, InCall
  <2>2. Planned(w) /\ Planned(w)'
    BY <1>1, <1>2, <2>1 DEF InCall, Planned
  <2>3. Left(w)' = Changes(w) /\ Changes(w)' = Changes(w) /\ Len(Changes(w)) \in Nat
    <3>1. Len(Changes(w)) \in Nat
      BY <1>1, ChangesLength
    <3>2. Left(w)' = todo'[w] \o dels'[w]
      BY DEF Left
    <3>3. Left(w)' = Changes(w) /\ Changes(w)' = Changes(w)
      BY <2>1, <3>2 DEF Changes, ChangesOf
    <3> QED
      BY <3>1, <3>3
  <2>4. OnlyReads(w) \/ content = After(copy[w], plan[w], 0)
    <3> SUFFICES ASSUME ~ OnlyReads(w) PROVE content = After(copy[w], plan[w], 0)
      OBVIOUS
    <3>1. Loaded(w)
      BY <1>1, <2>1 DEF InCall
    <3>2. copy[w] = content
      BY <1>1, <2>1, <3>1, AllRead
    <3> QED
      BY <1>1, <3>2, AfterNone
  <2>5. Progress(w, 0)'
    BY <1>2, <2>1, <2>3, <2>4 DEF Progress
  <2>6. \A i \in 1..Len(plan[w].deletes) : plan[w].target[plan[w].deletes[i]] = None
    <3>1. CASE OnlyReads(w)
      BY <2>2, <3>1 DEF Planned
    <3>2. CASE ~ OnlyReads(w)
      BY <2>2, <3>2 DEF Planned, Proper
    <3> QED
      BY <3>1, <3>2
  <2>7. 0 \in 0..Len(Changes(w))
    BY <2>3
  <2>8. Underway(w)'
    BY <2>1, <2>3, <2>5, <2>6, <2>7 DEF Underway
  <2> QED
    BY <1>1, <1>2, <2>1, <2>2, <2>8 DEF InCall
<1> QED
  BY <1>2, <1>3, <1>4, <1>5

\* One change more, and the files are legal still.
LEMMA ChangeStep ==
  ASSUME Kept, NEW w \in Workers, Write(w) \/ Delete(w)
  PROVE  /\ ~ OnlyReads(w) /\ pc[w] \in InTransaction
         /\ Legal(content)' /\ InCall(w)'
         /\ \E n \in 0..(Len(Changes(w)) - 1) :
              /\ content = After(copy[w], plan[w], n)
              /\ content' = After(copy[w], plan[w], n + 1)
              /\ content' = [content EXCEPT ![Changes(w)[n + 1]] = plan[w].target[Changes(w)[n + 1]]]
              /\ Changes(w)[n + 1] \in Files
<1> USE DEF disk, model, staged
<1>1. /\ TypeOK /\ InCall(w) /\ request[w] \in RequestsOf[w] /\ copy[w] \in Contents
      /\ todo[w] \in Seq(Files) /\ dels[w] \in Seq(Files) /\ pc[w] = "writing" /\ Legal(content)
  <2>1. TypeOK /\ InCall(w) /\ Legal(content) /\ pc[w] = "writing"
    BY DEF Kept, Write, Delete
  <2> QED
    BY <2>1 DEF TypeOK, InCall
<1>2. Planned(w) /\ Underway(w)
  BY <1>1 DEF InCall
<1>3. PICK n \in 0..Len(Changes(w)) : Progress(w, n)
  BY <1>2 DEF Underway
<1>4. /\ request' = request /\ at' = at /\ copy' = copy /\ listing' = listing
      /\ plan' = plan /\ pc' = pc
  BY DEF Write, Delete
<1> DEFINE f == Left(w)[1]
<1>5. /\ Len(Left(w)) \in Nat /\ Len(Left(w)) >= 1
      /\ Len(Left(w)') = Len(Left(w)) - 1
      /\ \A i \in 1..(Len(Left(w)) - 1) : Left(w)'[i] = Left(w)[i + 1]
      /\ f \in Files
      /\ content' = [content EXCEPT ![f] = plan[w].target[f]]
      /\ \A i \in 1..Len(dels'[w]) : plan[w].target[dels'[w][i]] = None
  <2>1. CASE Write(w)
    <3>1. /\ todo[w] # <<>> /\ todo'[w] = Tail(todo[w]) /\ dels' = dels
          /\ Put(Head(todo[w]), plan[w].target[Head(todo[w])])
      BY <1>1, <2>1 DEF Write, TypeOK
    <3>2. /\ Len(Left(w)) \in Nat /\ Len(Left(w)) >= 1 /\ f = Head(todo[w])
          /\ Len(Tail(todo[w]) \o dels[w]) = Len(Left(w)) - 1
          /\ \A i \in 1..(Len(Left(w)) - 1) : (Tail(todo[w]) \o dels[w])[i] = Left(w)[i + 1]
      <4> DEFINE s == todo[w]
                 t == dels[w]
      <4>1. s \in Seq(Files) /\ t \in Seq(Files) /\ s # <<>>
        BY <1>1, <3>1
      <4> HIDE DEF s, t
      <4>2. /\ Len(s \o t) \in Nat /\ Len(s \o t) >= 1 /\ (s \o t)[1] = Head(s)
            /\ Len(Tail(s) \o t) = Len(s \o t) - 1
            /\ \A i \in 1..(Len(s \o t) - 1) : (Tail(s) \o t)[i] = (s \o t)[i + 1]
        BY <4>1, TailConcat
      <4> QED
        BY <4>2 DEF Left, s, t
    <3>3. Left(w)' = Tail(todo[w]) \o dels[w]
      BY <3>1 DEF Left
    <3>4. Head(todo[w]) \in Files
      BY <1>1, <3>1
    <3>5. \A i \in 1..Len(dels'[w]) : plan[w].target[dels'[w][i]] = None
      BY <1>2, <3>1 DEF Underway
    <3> QED
      BY <3>1, <3>2, <3>3, <3>4, <3>5 DEF Put
  <2>2. CASE Delete(w)
    <3>1. /\ todo[w] = <<>> /\ dels[w] # <<>> /\ dels'[w] = Tail(dels[w]) /\ todo' = todo
          /\ Put(Head(dels[w]), None)
      BY <1>1, <2>2 DEF Delete, TypeOK
    <3>2. \A s \in Seq(Files) : <<>> \o s = s
      OBVIOUS
    <3>3. /\ Head(dels[w]) \in Files /\ Head(dels[w]) = dels[w][1] /\ Tail(dels[w]) \in Seq(Files)
          /\ Len(dels[w]) \in Nat /\ Len(dels[w]) >= 1 /\ Len(Tail(dels[w])) = Len(dels[w]) - 1
          /\ \A i \in 1..(Len(dels[w]) - 1) : Tail(dels[w])[i] = dels[w][i + 1]
      BY <1>1, <3>1
    <3>4. Left(w) = dels[w] /\ Left(w)' = Tail(dels[w])
      BY <1>1, <3>1, <3>2, <3>3 DEF Left
    <3>5. \A i \in 1..Len(dels[w]) : plan[w].target[dels[w][i]] = None
      BY <1>2 DEF Underway
    <3>6. \A i \in 1..(Len(dels[w]) - 1) : i + 1 \in 1..Len(dels[w])
      BY <3>3
    <3>7. 1 \in 1..Len(dels[w])
      BY <3>3
    <3>8. plan[w].target[Head(dels[w])] = None
      BY <3>3, <3>5, <3>7
    <3>9. \A i \in 1..Len(dels'[w]) : plan[w].target[dels'[w][i]] = None
      BY <3>1, <3>3, <3>5, <3>6
    <3> QED
      BY <3>1, <3>3, <3>4, <3>8, <3>9 DEF Put
  <2> QED
    BY <2>1, <2>2
<1> HIDE DEF f
<1>6. /\ Len(Changes(w)) \in Nat /\ n \in Nat /\ Len(Left(w)) = Len(Changes(w)) - n
      /\ n + 1 \in 1..Len(Changes(w)) /\ n \in 0..(Len(Changes(w)) - 1)
  <2>1. Len(Changes(w)) \in Nat
    BY <1>1, ChangesLength
  <2>2. Len(Left(w)) = Len(Changes(w)) - n
    BY <1>3 DEF Progress
  <2> QED
    BY <1>5, <2>1, <2>2
<1>7. ~ OnlyReads(w)
  <2> SUFFICES ASSUME OnlyReads(w) PROVE FALSE
    OBVIOUS
  <2>1. plan[w].writes = <<>> /\ plan[w].deletes = <<>>
    BY <1>2 DEF Planned
  <2>2. Changes(w) = <<>>
    BY <2>1 DEF Changes, ChangesOf
  <2>3. Len(Changes(w)) = 0
    BY <2>2
  <2> QED
    BY <1>6, <2>3
<1>8. /\ Legal(copy[w]) /\ Legal(plan[w].target)
      /\ content = After(copy[w], plan[w], n)
      /\ f = Changes(w)[n + 1]
  <2>1. 1 \in 1..Len(Left(w))
    BY <1>5
  <2>2. Left(w)[1] = Changes(w)[n + 1]
    BY <1>3, <2>1 DEF Progress
  <2> QED
    BY <1>2, <1>3, <1>7, <2>2 DEF Planned, Proper, Progress, f
<1>9. content' = After(copy[w], plan[w], n + 1)
  <2>1. (plan[w].writes \o plan[w].deletes)[n + 1] = f
    BY <1>8 DEF Changes, ChangesOf
  <2>2. [After(copy[w], plan[w], n) EXCEPT ![f] = plan[w].target[f]] = After(copy[w], plan[w], n + 1)
    <3>1. f \in Files /\ n \in Nat
      BY <1>5, <1>6
    <3> QED
      BY <2>1, <3>1, AfterNext, Zenon
  <2> QED
    BY <1>5, <1>8, <2>2
<1>10. Legal(content')
  BY <1>1, <1>5, <1>8, MixLegal
<1>11. Legal(content)'
  BY <1>10 DEF Legal
<1>12. Progress(w, n + 1)'
  <2>1. Changes(w)' = Changes(w)
    BY <1>4 DEF Changes, ChangesOf
  <2>2. Len(Left(w)') = Len(Changes(w)) - (n + 1)
    BY <1>5, <1>6
  <2>3. ASSUME NEW i \in 1..Len(Left(w)') PROVE Left(w)'[i] = Changes(w)[(n + 1) + i]
    <3>1. i \in 1..(Len(Left(w)) - 1) /\ i + 1 \in 1..Len(Left(w)) /\ n + (i + 1) = (n + 1) + i
      BY <1>5, <1>6
    <3>2. Left(w)[i + 1] = Changes(w)[n + (i + 1)]
      BY <1>3, <3>1 DEF Progress
    <3> QED
      BY <1>5, <3>1, <3>2
  <2> QED
    BY <1>4, <1>9, <2>1, <2>2, <2>3 DEF Progress
<1>13. Underway(w)'
  <2>1. Changes(w)' = Changes(w)
    BY <1>4 DEF Changes, ChangesOf
  <2>2. n + 1 \in 0..Len(Changes(w))
    BY <1>6
  <2> QED
    BY <1>4, <1>5, <1>12, <2>1, <2>2 DEF Underway
<1>14. Planned(w)'
  BY <1>2, <1>4 DEF Planned
<1>15. InCall(w)'
  BY <1>1, <1>4, <1>13, <1>14 DEF InCall
<1>16. content' = [content EXCEPT ![Changes(w)[n + 1]] = plan[w].target[Changes(w)[n + 1]]] /\ Changes(w)[n + 1] \in Files
  BY <1>5, <1>8
<1> QED
  BY <1>1, <1>6, <1>7, <1>8, <1>9, <1>11, <1>15, <1>16 DEF InTransaction

\* A caller that is out of its call has nothing under way.
LEMMA OutOfCall ==
  ASSUME Kept, NEW ws, Leave(ws), NEW w \in Workers, w \in ws, request' = request
  PROVE  InCall(w)'
<1>1. request'[w] \in RequestsOf[w]
  BY DEF Kept, InCall
<1>2. pc'[w] = "idle" /\ at'[w] = 1 /\ copy'[w] = Nothing(None)
  BY DEF Leave
<1>3. \A i \in 1..Len(ReadOrder) : copy'[w][ReadOrder[i]] = None
  BY <1>2, FilesAre DEF Nothing
<1>4. Loaded(w)'
  BY <1>2, <1>3 DEF Loaded
<1> QED
  BY <1>1, <1>2, <1>4 DEF InCall

\* A step of a worker keeps the invariant,
LEMMA StepKept == ASSUME Kept, NEW w \in Workers, Steps(w) PROVE Kept'
<1>1. TypeOK /\ OneAtATime /\ Legal(content)
  BY DEF Kept
<1>2. TypeOK' /\ OneAtATime' /\ Others(w)
  BY <1>1, StepTypes, OneStep, StepOthers
<1>3. /\ InCall(w)'
      /\ content' = content \/ (~ OnlyReads(w) /\ pc[w] \in InTransaction)
      /\ Legal(content)'
  <2>1. content' = content => Legal(content)'
    BY <1>1 DEF Legal
  <2>2. CASE Begin(w) \/ Lock(w) \/ List(w) \/ Stat(w) \/ Read(w) \/ Skip(w)
    BY <2>1, <2>2, LoadStep
  <2>3. CASE Prepare(w) \/ CheckOne(w) \/ CheckedAll(w)
    BY <2>1, <2>3, CheckStep
  <2>4. CASE Write(w) \/ Delete(w)
    BY <2>4, ChangeStep
  <2>5. CASE Refuse(w) \/ Conflict(w) \/ Done(w) \/ Fail(w)
    <3>1. Return(w)
      BY <2>5 DEF Refuse, Conflict, Done, Fail
    <3>2. Leave({w}) /\ content' = content /\ request' = request
      BY <3>1 DEF Return, disk
    <3> QED
      BY <2>1, <3>2, OutOfCall
  <2> QED
    BY <2>2, <2>3, <2>4, <2>5 DEF Steps, Proceed
<1>4. \A v \in Workers : InCall(v)'
  BY <1>2, <1>3, OthersKept
<1> QED
  BY <1>2, <1>3, <1>4 DEF Kept

\* and so does a crash,
LEMMA CrashKept == ASSUME Kept, NEW s \in Stores, Crash(s) PROVE Kept'
<1>1. TypeOK /\ OneAtATime /\ Legal(content) /\ \A w \in Workers : InCall(w)
  BY DEF Kept
<1> DEFINE ws == {w \in Workers : StoreOf[w] = s}
<1>2. Leave(ws) /\ content' = content /\ request' = request
  BY DEF Crash, disk
<1>3. TypeOK' /\ OneAtATime'
  BY <1>1, CrashTypes, OneCrash
<1> HIDE DEF ws
<1>4. ASSUME NEW v \in Workers PROVE InCall(v)'
  <2>1. CASE v \in ws
    BY <1>2, <2>1, OutOfCall
  <2>2. CASE v \notin ws
    <3>1. /\ pc'[v] = pc[v] /\ at'[v] = at[v] /\ listing'[v] = listing[v] /\ copy'[v] = copy[v]
          /\ plan'[v] = plan[v] /\ todo'[v] = todo[v] /\ dels'[v] = dels[v]
      BY <1>2, <2>2 DEF Leave
    <3> QED
      BY <1>1, <1>2, <3>1, Bystander
  <2> QED
    BY <2>1, <2>2
<1>5. Legal(content)'
  BY <1>1, <1>2 DEF Legal
<1> QED
  BY <1>3, <1>4, <1>5 DEF Kept

\* and so every step.
LEMMA NextKept == Kept /\ [Next]_vars => Kept'
<1> SUFFICES ASSUME Kept, [Next]_vars PROVE Kept'
  OBVIOUS
<1>1. ASSUME NEW w \in Workers, Steps(w) PROVE Kept'
  BY <1>1, StepKept
<1>2. ASSUME NEW s \in Stores, Crash(s) PROVE Kept'
  BY <1>2, CrashKept
<1>3. CASE UNCHANGED vars
  <2> USE <1>3 DEF vars
  <2>1. TypeOK' /\ OneAtATime' /\ Legal(content)'
    BY DEF Kept, TypeOK, OneAtATime, Legal
  <2>2. ASSUME NEW v \in Workers PROVE InCall(v)'
    <3>1. InCall(v)
      BY DEF Kept
    <3> QED
      BY <3>1, Bystander
  <2> QED BY <2>1, <2>2 DEF Kept
<1> QED BY <1>1, <1>2, <1>3 DEF Next, Steps

\* A Store that writes has read the directory as it is until its first write,
\* and from there on the directory is as far along its plan as it is.
THEOREM StoreInvariant == Spec => []Kept
BY InitKept, NextKept, PTL DEF Spec

-----------------------------------------------------------------------------
(* The refinement: a Store's transactions are atomic but for interruptions.*)

\* What Committed says.
NowCommitted ==
  /\ \A w \in Workers : Changing(w) => Committed = copy[w]
  /\ (\A w \in Workers : ~ Changing(w)) => Committed = content

\* Who is in the middle of its changes writes; nobody else that does is in a call.
LEMMA ChangingWrites ==
  ASSUME Kept, NEW w \in Workers, Changing(w)
  PROVE  /\ ~ OnlyReads(w) /\ pc[w] \in InTransaction /\ Planned(w) /\ Underway(w)
         /\ Changes(w) # <<>>
         /\ \A v \in Workers : v # w /\ ~ OnlyReads(v) => pc[v] \notin InTransaction
         /\ \A v \in Workers : Changing(v) => v = w
<1>1. ASSUME NEW v \in Workers, Changing(v)
      PROVE  /\ ~ OnlyReads(v) /\ pc[v] \in InTransaction /\ Planned(v) /\ Underway(v)
             /\ Changes(v) # <<>>
  <2>1. pc[v] = "writing" /\ Changes(v) # <<>>
    BY <1>1 DEF Changing, Changes, ChangesOf
  <2>2. Planned(v) /\ Underway(v)
    BY <2>1 DEF Kept, InCall
  <2>3. ASSUME plan[v].writes = <<>>, plan[v].deletes = <<>> PROVE Changes(v) = <<>>
    BY <2>3 DEF Changes, ChangesOf
  <2> QED
    BY <2>1, <2>2, <2>3 DEF Planned, InTransaction
<1>2. \A v \in Workers : v # w /\ ~ OnlyReads(v) => pc[v] \notin InTransaction
  BY <1>1, OneWriter DEF Kept
<1> QED
  BY <1>1, <1>2

\* What the mapping shows: the copy of the one who is changing files, or the
\* files.
LEMMA CommittedIs == Kept => NowCommitted
<1> SUFFICES ASSUME Kept PROVE NowCommitted
  OBVIOUS
<1>1. ASSUME NEW w \in Workers, Changing(w) PROVE Committed = copy[w]
  <2>1. (CHOOSE v \in Workers : Changing(v)) = w
    <3>1. \A v \in Workers : Changing(v) => v = w
      BY <1>1, ChangingWrites
    <3> QED
      BY <1>1, <3>1
  <2> QED
    BY <1>1, <2>1 DEF Committed
<1> QED
  BY <1>1 DEF NowCommitted, Committed

\* The same of the next state.
LEMMA CommittedThen == Kept' => NowCommitted'
BY CommittedIs, PTL

\* Steps that are none to the directory.
LEMMA StaysCommitted ==
  ASSUME Kept, Kept', \A v \in Workers : Changing(v)' <=> Changing(v),
         \A v \in Workers : Changing(v) => copy'[v] = copy[v],
         content' = content \/ \E v \in Workers : Changing(v)
  PROVE  Committed' = Committed
<1>1. NowCommitted /\ NowCommitted'
  BY CommittedIs, CommittedThen
<1>2. CASE \E v \in Workers : Changing(v)
  <2>1. PICK v \in Workers : Changing(v)
    BY <1>2
  <2>2. Changing(v)' /\ copy'[v] = copy[v]
    BY <2>1
  <2>3. Committed = copy[v]
    BY <1>1, <2>1 DEF NowCommitted
  <2>4. Committed' = copy'[v]
    BY <1>1, <2>2 DEF NowCommitted
  <2> QED
    BY <2>2, <2>3, <2>4
<1>3. CASE \A v \in Workers : ~ Changing(v)
  <2>1. Committed = content
    BY <1>1, <1>3 DEF NowCommitted
  <2>2. Committed' = content'
    BY <1>1, <1>3 DEF NowCommitted
  <2> QED
    BY <1>3, <2>1, <2>2
<1> QED
  BY <1>2, <1>3

\* A transaction that ends, and is one of the abstract specification, or
\* what an interruption leaves of one.
LEMMA EndsCommitted ==
  ASSUME Kept, Kept', NEW w \in Workers, Changing(w), NEW ws, Leave(ws), w \in ws,
         content' = content
  PROVE  /\ plan[w] \in Plan(Committed, request[w]) /\ request[w] \in UNION {RequestsOf[v] : v \in Workers}
         /\ \E n \in 0..Len(Changes(w)) :
              Progress(w, n) /\ Committed' = Atomic!After(Committed, plan[w], n)
<1>1. NowCommitted /\ NowCommitted'
  BY CommittedIs, CommittedThen
<1>2. Committed = copy[w]
  BY <1>1 DEF NowCommitted
<1>3. /\ ~ OnlyReads(w) /\ Planned(w) /\ Underway(w)
      /\ \A v \in Workers : Changing(v) => v = w
  BY ChangingWrites
<1>4. \A v \in Workers : ~ Changing(v)'
  <2> SUFFICES ASSUME NEW v \in Workers, Changing(v)' PROVE FALSE
    OBVIOUS
  <2>1. pc'[v] = "writing"
    BY DEF Changing
  <2>2. v \notin ws
    BY <2>1 DEF Leave
  <2>3. pc'[v] = pc[v] /\ plan'[v] = plan[v]
    BY <2>2 DEF Leave
  <2>4. Changing(v)
    BY <2>3 DEF Changing
  <2> QED
    BY <1>3, <2>2, <2>4
<1>5. Committed' = content
  <2>1. Committed' = content'
    BY <1>1, <1>4 DEF NowCommitted
  <2> QED
    BY <2>1
<1>6. PICK n \in 0..Len(Changes(w)) : Progress(w, n)
  BY <1>3 DEF Underway
<1>7. content = After(copy[w], plan[w], n)
  BY <1>3, <1>6 DEF Progress
<1>8. Atomic!After(copy[w], plan[w], n) = After(copy[w], plan[w], n)
  BY FilesAre DEF Atomic!After, After, ChangesOf
<1>9. Committed' = Atomic!After(Committed, plan[w], n)
  BY <1>2, <1>5, <1>7, <1>8
<1>10. request[w] \in RequestsOf[w]
  BY DEF Kept, InCall
<1> QED
  BY <1>2, <1>3, <1>6, <1>9, <1>10 DEF Planned

\* A caller's step is one of the abstract specification, or none.
LEMMA StepCommitted ==
  ASSUME Kept, Kept', NEW w \in Workers, Steps(w)
  PROVE  Atomic!Next \/ Committed' = Committed
<1> USE DEF disk, model, staged
<1>1. TypeOK /\ InCall(w) /\ Others(w)
  BY StepOthers DEF Kept
<1>2. \A v \in Workers \ {w} : (Changing(v)' <=> Changing(v)) /\ copy'[v] = copy[v]
  BY <1>1 DEF Others, Changing
<1>3. CASE \/ Begin(w) \/ Lock(w) \/ List(w) \/ Stat(w) \/ Read(w) \/ Skip(w)
           \/ Prepare(w) \/ CheckOne(w) \/ Refuse(w) \/ Conflict(w)
  <2>1. pc[w] # "writing" /\ content' = content
    BY <1>3 DEF Begin, Lock, List, Stat, Read, Skip, Prepare, CheckOne, Refuse, Conflict, Return
  <2>2. pc'[w] # "writing"
    BY <1>1, <1>3 DEF TypeOK, Begin, Lock, List, Stat, Read, Skip, Prepare, CheckOne, Refuse, Conflict,
                      Return, Leave
  <2>3. ~ Changing(w) /\ ~ Changing(w)'
    BY <2>1, <2>2 DEF Changing
  <2> QED
    BY <1>2, <2>1, <2>3, StaysCommitted
<1>4. CASE CheckedAll(w)
  <2>1. /\ content' = content /\ copy' = copy /\ plan' = plan /\ pc[w] = "checking" /\ pc'[w] = "writing"
    BY <1>1, <1>4 DEF CheckedAll, TypeOK
  <2>2. ~ Changing(w)
    BY <2>1 DEF Changing
  <2>3. CASE ~ Changing(w)'
    BY <1>2, <2>1, <2>2, <2>3, StaysCommitted
  <2>4. CASE Changing(w)'
    <3>1. NowCommitted /\ NowCommitted'
      BY CommittedIs, CommittedThen
    <3>2. Committed' = copy[w]
      <4>1. Committed' = copy'[w]
        BY <2>4, <3>1 DEF NowCommitted
      <4> QED
        BY <2>1, <4>1
    <3>3. Changes(w) # <<>>
      BY <2>1, <2>4 DEF Changing, Changes, ChangesOf
    <3>4. ~ OnlyReads(w)
      <4>1. Planned(w)
        BY <1>1, <2>1 DEF InCall
      <4>2. plan[w].writes = <<>> /\ plan[w].deletes = <<>> => Changes(w) = <<>>
        BY DEF Changes, ChangesOf
      <4> QED
        BY <3>3, <4>1, <4>2 DEF Planned
    <3>5. copy[w] = content
      BY <1>1, <2>1, <3>4, AllRead DEF InCall
    <3>6. ASSUME NEW v \in Workers, Changing(v) PROVE FALSE
      <4>1. v # w
        BY <2>2, <3>6
      <4>2. pc[w] \notin InTransaction
        BY <3>4, <3>6, <4>1, ChangingWrites
      <4> QED
        BY <2>1, <4>2 DEF InTransaction
    <3>7. Committed = content
      BY <3>1, <3>6 DEF NowCommitted
    <3> QED
      BY <3>2, <3>5, <3>7
  <2> QED
    BY <2>3, <2>4
<1>5. CASE Write(w) \/ Delete(w)
  <2>1. copy' = copy /\ plan' = plan /\ pc' = pc /\ pc[w] = "writing"
    BY <1>5 DEF Write, Delete
  <2>2. Changing(w)
    <3>1. PICK n \in 0..(Len(Changes(w)) - 1) : TRUE
      BY <1>5, ChangeStep
    <3>2. Len(Changes(w)) \in Nat
      BY <1>1, ChangesLength
    <3>3. Len(Changes(w)) # 0
      BY <3>1, <3>2
    <3>4. Changes(w) # <<>>
      BY <3>3
    <3> QED
      BY <2>1, <3>4 DEF Changing, Changes, ChangesOf
  <2>3. Changing(w)'
    BY <2>1, <2>2 DEF Changing
  <2> QED
    BY <1>2, <2>1, <2>2, <2>3, StaysCommitted
<1>6. CASE Done(w) \/ Fail(w)
  <2>1. Leave({w}) /\ content' = content /\ pc'[w] = "idle"
    BY <1>6 DEF Done, Fail, Return, Leave
  <2>2. ~ Changing(w)'
    BY <2>1 DEF Changing
  <2>3. CASE ~ Changing(w)
    BY <1>2, <2>1, <2>2, <2>3, StaysCommitted
  <2>4. CASE Changing(w)
    <3>1. /\ plan[w] \in Plan(Committed, request[w])
          /\ request[w] \in UNION {RequestsOf[v] : v \in Workers}
          /\ \E n \in 0..Len(Changes(w)) :
               Progress(w, n) /\ Committed' = Atomic!After(Committed, plan[w], n)
      BY <2>1, <2>4, EndsCommitted
    <3>2. PICK n \in 0..Len(Changes(w)) :
            Progress(w, n) /\ Committed' = Atomic!After(Committed, plan[w], n)
      BY <3>1
    <3>3. CASE Done(w)
      <4>1. todo[w] = <<>> /\ dels[w] = <<>>
        BY <3>3 DEF Done
      <4>2. Left(w) = <<>>
        BY <4>1 DEF Left
      <4>3. Len(Left(w)) = 0 /\ Len(Changes(w)) \in Nat
        BY <1>1, <4>2, ChangesLength
      <4>4. Len(Left(w)) = Len(Changes(w)) - n
        BY <3>2 DEF Progress
      <4>5. n = Len(Changes(w))
        BY <4>3, <4>4
      <4>6. Atomic!Complete(request[w])
        BY <3>1, <3>2, <4>5 DEF Atomic!Complete, Changes, ChangesOf
      <4> QED
        BY <3>1, <4>6 DEF Atomic!Next
    <3>4. CASE Fail(w)
      <4>1. Atomic!Interrupted(request[w])
        BY <3>1, <3>2 DEF Atomic!Interrupted, Changes, ChangesOf
      <4>2. Faults
        BY <3>4 DEF Fail
      <4> QED
        BY <3>1, <4>1, <4>2 DEF Atomic!Next
    <3> QED
      BY <1>6, <3>3, <3>4
  <2> QED
    BY <2>3, <2>4
<1> QED
  BY <1>3, <1>4, <1>5, <1>6 DEF Steps, Proceed

\* So is a crash.
LEMMA CrashCommitted ==
  ASSUME Kept, Kept', NEW s \in Stores, Crash(s)
  PROVE  Atomic!Next \/ Committed' = Committed
<1> DEFINE ws == {w \in Workers : StoreOf[w] = s}
<1>1. Leave(ws) /\ content' = content /\ Faults
  BY DEF Crash, disk
<1> HIDE DEF ws
<1>2. \A v \in Workers : v \in ws => ~ Changing(v)'
  BY <1>1 DEF Leave, Changing
<1>3. \A v \in Workers : v \notin ws => (Changing(v)' <=> Changing(v)) /\ copy'[v] = copy[v]
  BY <1>1 DEF Leave, Changing
<1>4. CASE \E w \in Workers : w \in ws /\ Changing(w)
  <2>1. PICK w \in Workers : w \in ws /\ Changing(w)
    BY <1>4
  <2>2. /\ plan[w] \in Plan(Committed, request[w])
        /\ request[w] \in UNION {RequestsOf[v] : v \in Workers}
        /\ \E n \in 0..Len(Changes(w)) :
             Progress(w, n) /\ Committed' = Atomic!After(Committed, plan[w], n)
    BY <1>1, <2>1, EndsCommitted
  <2>3. Atomic!Interrupted(request[w])
    BY <2>2 DEF Atomic!Interrupted, Changes, ChangesOf
  <2> QED
    BY <1>1, <2>2, <2>3 DEF Atomic!Next
<1>5. CASE ~ \E w \in Workers : w \in ws /\ Changing(w)
  <2>1. \A v \in Workers : (Changing(v)' <=> Changing(v)) /\ (Changing(v) => copy'[v] = copy[v])
    BY <1>2, <1>3, <1>5
  <2> QED
    BY <1>1, <2>1, StaysCommitted
<1> QED
  BY <1>4, <1>5

\* tx.go's commit: one transaction at a time over the whole directory, each
\* from what the last one left, done completely, or up to where a crash or an
\* I/O error stopped it.
THEOREM StoreIsAtomic == Spec => TransactionsAtomic
<1>1. Init => Atomic!Init
  <2> SUFFICES ASSUME Init PROVE Atomic!Init
    OBVIOUS
  <2>1. \A w \in Workers : ~ Changing(w)
    BY DEF Init, Changing
  <2>2. Committed = content
    BY <2>1 DEF Committed
  <2> QED
    BY <2>2 DEF Init, Atomic!Init
<1>2. Kept /\ Kept' /\ [Next]_vars => [Atomic!Next]_Committed
  <2> SUFFICES ASSUME Kept, Kept', [Next]_vars PROVE Atomic!Next \/ Committed' = Committed
    OBVIOUS
  <2>1. CASE UNCHANGED vars
    BY <2>1, StaysCommitted DEF vars, Changing
  <2>2. ASSUME NEW w \in Workers, Steps(w) PROVE Atomic!Next \/ Committed' = Committed
    BY <2>2, StepCommitted
  <2>3. ASSUME NEW s \in Stores, Crash(s) PROVE Atomic!Next \/ Committed' = Committed
    BY <2>3, CrashCommitted
  <2> QED
    BY <2>1, <2>2, <2>3 DEF Next, Steps
<1> QED
  BY <1>1, <1>2, StoreInvariant, PTL DEF Spec, TransactionsAtomic, Atomic!Spec

-----------------------------------------------------------------------------
(* In the middle of a transaction.                                         *)

\* Which files the first n changes have brought to their target.
LEMMA AfterIs ==
  ASSUME NEW c, NEW p, NEW n, NEW f \in Files
  PROVE  After(c, p, n)[f] =
           IF \E i \in 1..n : ChangesOf(p)[i] = f THEN p.target[f] ELSE c[f]
BY DEF After

\* Two sequences of files one after the other.
LEMMA OrderLength ==
  ASSUME NEW s \in Seq(Files), NEW t \in Seq(Files)
  PROVE  s \o t \in Seq(Files) /\ Len(s \o t) \in Nat /\ Len(s) \in Nat
<1>1. s \o t \in Seq(Files)
  BY ConcatProperties
<1> QED
  BY <1>1

\* The board, done.md and the log are written, never deleted.
LEMMA MainIsWritten ==
  ASSUME NEW c, NEW r, NEW p, Proper(c, r, p), NEW i \in 1..Len(ChangesOf(p)),
         ChangesOf(p)[i] \in {BoardMd, DoneMd, AuditMd}
  PROVE  i \in 1..Len(p.writes) /\ p.writes[i] = ChangesOf(p)[i]
<1> DEFINE a == p.writes
           b == p.deletes
<1>0. ChangesOf(p) = a \o b
  BY DEF ChangesOf
<1>1. a \in Seq(Files) /\ b \in Seq(Details) /\ b \in Seq(Files) /\ Len(a) \in Nat /\ Len(b) \in Nat
  <2>1. Details \subseteq Files
    BY FilesAre
  <2> QED
    BY <2>1 DEF Proper
<1>2. i \in 1..Len(a \o b) /\ (a \o b)[i] \in {BoardMd, DoneMd, AuditMd}
  BY <1>0
<1> HIDE DEF a, b
<1>3. /\ Len(a \o b) = Len(a) + Len(b)
      /\ \A k \in 1..(Len(a) + Len(b)) : (a \o b)[k] = IF k <= Len(a) THEN a[k] ELSE b[k - Len(a)]
  BY <1>1, ConcatProperties
<1>4. ASSUME ~ (i <= Len(a)) PROVE FALSE
  <2>1. i - Len(a) \in 1..Len(b) /\ (a \o b)[i] = b[i - Len(a)]
    BY <1>1, <1>2, <1>3, <1>4
  <2>2. b[i - Len(a)] \in Details
    BY <1>1, <2>1
  <2> QED
    BY <1>2, <2>1, <2>2, Names
<1>5. i \in 1..Len(a) /\ (a \o b)[i] = a[i]
  BY <1>1, <1>2, <1>3, <1>4
<1> QED
  BY <1>0, <1>5 DEF a, b

\* And what is written is among the changes, at its place.
LEMMA WrittenIsChange ==
  ASSUME NEW c, NEW r, NEW p, Proper(c, r, p), NEW i \in 1..Len(p.writes)
  PROVE  i \in 1..Len(ChangesOf(p)) /\ ChangesOf(p)[i] = p.writes[i]
<1> DEFINE a == p.writes
           b == p.deletes
<1>0. ChangesOf(p) = a \o b
  BY DEF ChangesOf
<1>1. a \in Seq(Files) /\ b \in Seq(Files) /\ Len(a) \in Nat /\ Len(b) \in Nat /\ i \in 1..Len(a)
  <2>1. Details \subseteq Files
    BY FilesAre
  <2> QED
    BY <2>1 DEF Proper
<1> HIDE DEF a, b
<1>2. /\ Len(a \o b) = Len(a) + Len(b)
      /\ \A k \in 1..(Len(a) + Len(b)) : (a \o b)[k] = IF k <= Len(a) THEN a[k] ELSE b[k - Len(a)]
  BY <1>1, ConcatProperties
<1>3. i \in 1..Len(a \o b) /\ (a \o b)[i] = a[i]
  BY <1>1, <1>2
<1> QED
  BY <1>0, <1>3 DEF a, b

\* Until the board is written done.md is, if it is to be, and as long as
\* done.md is not the board is as it was.
LEMMA DoneBeforeBoard ==
  ASSUME NEW c, NEW r, NEW p, Proper(c, r, p), NEW n \in 0..(Len(ChangesOf(p)) - 1)
  PROVE  /\ ChangesOf(p)[n + 1] = BoardMd =>
              \A i \in 1..Len(p.writes) : p.writes[i] = DoneMd =>
                \E k \in 1..n : ChangesOf(p)[k] = DoneMd
         /\ ChangesOf(p)[n + 1] = DoneMd =>
              ~ \E k \in 1..n : ChangesOf(p)[k] = BoardMd
<1> DEFINE order == ChangesOf(p)
           m == Len(p.writes)
           l == Len(ChangesOf(p))
<1>0. p.writes \in Seq(Files)
  BY DEF Proper
<1>1. \A i, j \in 1..m : p.writes[i] = BoardMd /\ p.writes[j] = DoneMd => j < i
  BY DEF Proper
<1>2. \A i \in 1..l : order[i] \in {BoardMd, DoneMd, AuditMd} => i \in 1..m /\ p.writes[i] = order[i]
  BY MainIsWritten
<1>3. ASSUME NEW i \in 1..m PROVE i \in 1..l /\ order[i] = p.writes[i]
  BY WrittenIsChange
<1>4. l \in Nat /\ m \in Nat
  <2>1. p.deletes \in Seq(Details) /\ Details \subseteq Files
    BY FilesAre DEF Proper
  <2>2. p.deletes \in Seq(Files)
    BY <2>1
  <2> QED
    BY <1>0, <2>2, OrderLength DEF ChangesOf
<1>5. n \in 0..(l - 1)
  OBVIOUS
<1> HIDE DEF order, m, l
<1>6. n + 1 \in 1..l /\ \A k \in 1..n : k \in 1..l /\ ~ (n + 1 < k)
  BY <1>4, <1>5
<1>7. ASSUME order[n + 1] = BoardMd, NEW i \in 1..m, p.writes[i] = DoneMd
      PROVE  \E k \in 1..n : order[k] = DoneMd
  <2>1. n + 1 \in 1..m /\ p.writes[n + 1] = BoardMd
    BY <1>2, <1>6, <1>7
  <2>2. i < n + 1
    BY <1>1, <1>7, <2>1
  <2>3. i \in 1..n
    BY <1>4, <1>5, <2>2
  <2> QED
    BY <1>3, <1>7, <2>3
<1>8. ASSUME order[n + 1] = DoneMd, NEW k \in 1..n, order[k] = BoardMd
      PROVE  FALSE
  <2>1. n + 1 \in 1..m /\ p.writes[n + 1] = DoneMd /\ k \in 1..m /\ p.writes[k] = BoardMd
    BY <1>2, <1>6, <1>8
  <2> QED
    BY <1>1, <1>6, <2>1
<1> QED
  BY <1>7, <1>8 DEF order, m

\* One change of a transaction: the board and done.md before it and after it.
Between(c, p, x, y) ==
  \/ y[BoardMd] = x[BoardMd] /\ y[DoneMd] = x[DoneMd]
  \/ /\ y[DoneMd] = p.target[DoneMd] /\ y[BoardMd] = x[BoardMd]
     /\ x[BoardMd] = c[BoardMd] /\ x[DoneMd] \in {c[DoneMd], p.target[DoneMd]}
  \/ /\ y[BoardMd] = p.target[BoardMd] /\ y[DoneMd] = x[DoneMd]
     /\ x[BoardMd] \in {c[BoardMd], p.target[BoardMd]}
     /\ \/ x[DoneMd] = p.target[DoneMd]
        \/ x[DoneMd] = c[DoneMd] /\ \A i \in 1..Len(p.writes) : p.writes[i] # DoneMd

\* From one change to the next no item goes missing.
LEMMA OneChange ==
  ASSUME NEW c, NEW r, NEW p, Proper(c, r, p), NEW n \in 0..(Len(ChangesOf(p)) - 1),
         NEW x, x = After(c, p, n), NEW y, y = After(c, p, n + 1)
  PROVE  Between(c, p, x, y)
<1> DEFINE order == ChangesOf(p)
<1>1. BoardMd \in Files /\ DoneMd \in Files /\ BoardMd # DoneMd
  BY FilesAre, Names
<1>2. ASSUME NEW f \in Files
      PROVE  /\ x[f] = IF \E i \in 1..n : order[i] = f THEN p.target[f] ELSE c[f]
             /\ y[f] = IF \E i \in 1..(n + 1) : order[i] = f THEN p.target[f] ELSE c[f]
  <2>1. After(c, p, n)[f] = IF \E i \in 1..n : order[i] = f THEN p.target[f] ELSE c[f]
    BY AfterIs
  <2>2. After(c, p, n + 1)[f] = IF \E i \in 1..(n + 1) : order[i] = f THEN p.target[f] ELSE c[f]
    BY AfterIs
  <2> QED
    BY <2>1, <2>2
<1>3. \A i : i \in 1..(n + 1) <=> i \in 1..n \/ i = n + 1
  OBVIOUS
<1>4. /\ order[n + 1] = BoardMd =>
              \A i \in 1..Len(p.writes) : p.writes[i] = DoneMd => \E k \in 1..n : order[k] = DoneMd
      /\ order[n + 1] = DoneMd => ~ \E k \in 1..n : order[k] = BoardMd
  BY DoneBeforeBoard
<1> HIDE DEF order
<1>5. \A f \in Files : y[f] = IF order[n + 1] = f THEN p.target[f] ELSE x[f]
  BY <1>2, <1>3
<1>6. \A f \in Files : x[f] \in {c[f], p.target[f]}
  BY <1>2
<1>7. CASE order[n + 1] \notin {BoardMd, DoneMd}
  BY <1>1, <1>5, <1>7 DEF Between
<1>8. CASE order[n + 1] = DoneMd
  <2>1. x[BoardMd] = c[BoardMd]
    BY <1>1, <1>2, <1>4, <1>8
  <2> QED
    BY <1>1, <1>5, <1>6, <1>8, <2>1 DEF Between
<1>9. CASE order[n + 1] = BoardMd
  <2>1. CASE \E k \in 1..n : order[k] = DoneMd
    <3>1. x[DoneMd] = p.target[DoneMd]
      BY <1>1, <1>2, <2>1
    <3> QED
      BY <1>1, <1>5, <1>6, <1>9, <3>1 DEF Between
  <2>2. CASE ~ \E k \in 1..n : order[k] = DoneMd
    <3>1. x[DoneMd] = c[DoneMd] /\ \A i \in 1..Len(p.writes) : p.writes[i] # DoneMd
      BY <1>1, <1>2, <1>4, <1>9, <2>2
    <3> QED
      BY <1>1, <1>5, <1>6, <1>9, <3>1 DEF Between
  <2> QED
    BY <2>1, <2>2
<1> QED
  BY <1>7, <1>8, <1>9

\* What Follows says of the files.
Onward(c, p, gone) ==
  /\ c[BoardMd].next <= p.target[BoardMd].next
  /\ \A id \in Ids :
       /\ id < c[BoardMd].next /\ p.target[BoardMd].item[id] # None => c[BoardMd].item[id] # None
       /\ p.target[DoneMd][id] # None => c[BoardMd].item[id] # None \/ c[DoneMd][id] # None
       /\ id \notin gone =>
            /\ c[DoneMd][id] # None => p.target[DoneMd][id] # None
            /\ c[BoardMd].item[id] # None =>
                 p.target[BoardMd].item[id] # None \/ p.target[DoneMd][id] # None
       /\ c[BoardMd].item[id] # None
          /\ p.target[BoardMd].item[id] = None /\ p.target[DoneMd][id] # None
          => c[DoneMd][id] # None \/ \E i \in 1..Len(p.writes) : p.writes[i] = DoneMd

\* The same of all the changes of a plan.
LEMMA GoesOnward == ASSUME NEW c, NEW r, NEW p, Proper(c, r, p) PROVE Onward(c, p, Taken(r))
<1> DEFINE d == DirOf(c)
           e == DirOf(p.target)
<1>1. /\ d.board = c[BoardMd] /\ d.done = c[DoneMd]
      /\ e.board = p.target[BoardMd] /\ e.done = p.target[DoneMd]
  BY DirOfIs
<1>2. Follows(d, e, Taken(r))
  BY DEF Proper
<1>3. \A id \in Ids : d.board.item[id] # None /\ e.board.item[id] = None /\ e.done[id] # None
        => d.done[id] # None \/ \E i \in 1..Len(p.writes) : p.writes[i] = DoneMd
  BY DEF Proper
<1> HIDE DEF d, e
<1> QED
  BY <1>1, <1>2, <1>3, HomeIs DEF Follows, Onward

\* No change takes the last copy of an item, but those of a --remove of it.
LEMMA NoneIsLost ==
  ASSUME NEW c, NEW r, NEW p, Proper(c, r, p), NEW n \in 0..(Len(ChangesOf(p)) - 1),
         NEW x, x = After(c, p, n), NEW y, y = After(c, p, n + 1),
         NEW id \in Ids, id \notin Taken(r), x[BoardMd].item[id] # None \/ x[DoneMd][id] # None
  PROVE  y[BoardMd].item[id] # None \/ y[DoneMd][id] # None
<1>1. Onward(c, p, Taken(r)) /\ Between(c, p, x, y)
  BY GoesOnward, OneChange, Zenon
<1> DEFINE gone == Taken(r)
<1>2. Onward(c, p, gone) /\ id \notin gone
  BY <1>1
<1> HIDE DEF gone
<1> QED
  BY <1>1, <1>2 DEF Onward, Between

\* Who has an item, in the files.
LEMMA HomeInFiles ==
  ASSUME NEW c, NEW id
  PROVE  Home(DirOf(c), id) # None <=> c[BoardMd].item[id] # None \/ c[DoneMd][id] # None
<1> DEFINE d == DirOf(c)
<1>1. d.board = c[BoardMd] /\ d.done = c[DoneMd]
  BY DirOfIs
<1> HIDE DEF d
<1>2. Home(d, id) # None <=> d.board.item[id] # None \/ d.done[id] # None
  BY HomeIs
<1> QED
  BY <1>1, <1>2 DEF d

\* tx.go: "write the copy before removing the original".
THEOREM NoItemIsLost == Spec => ItemsKept
<1>1. Kept /\ [Next]_vars =>
        [\A id \in Ids :
           Home(DirOf(content), id) # None /\ Home(DirOf(content'), id) = None =>
             \E w \in Workers : Changing(w) /\ request[w].op = "remove" /\ request[w].id = id]_vars
  <2> SUFFICES ASSUME Kept, [Next]_vars, NEW id \in Ids,
                      Home(DirOf(content), id) # None, Home(DirOf(content'), id) = None
               PROVE  \E w \in Workers : Changing(w) /\ request[w].op = "remove" /\ request[w].id = id
    OBVIOUS
  <2>1. content' # content
    OBVIOUS
  <2>2. PICK w \in Workers : Write(w) \/ Delete(w)
    BY <2>1 DEF Next, Proceed, Begin, Lock, List, Stat, Read, Skip, Prepare, Refuse, CheckOne, Conflict,
                CheckedAll, Done, Fail, Return, Crash, vars, disk
  <2>3. PICK n \in 0..(Len(Changes(w)) - 1) :
          content = After(copy[w], plan[w], n) /\ content' = After(copy[w], plan[w], n + 1)
    BY <2>2, ChangeStep
  <2>4. Proper(copy[w], request[w], plan[w])
    BY <2>2, ChangeStep DEF Kept, InCall, Planned, Write, Delete
  <2>5. /\ content[BoardMd].item[id] # None \/ content[DoneMd][id] # None
        /\ content'[BoardMd].item[id] = None /\ content'[DoneMd][id] = None
    BY HomeInFiles
  <2>6. id \in Taken(request[w])
    <3> DEFINE c == copy[w]
               p == plan[w]
               x == content
               y == content'
    <3>1. /\ n \in 0..(Len(ChangesOf(p)) - 1) /\ x = After(c, p, n) /\ y = After(c, p, n + 1)
          /\ Proper(c, request[w], p) /\ (x[BoardMd].item[id] # None \/ x[DoneMd][id] # None)
          /\ ~ (y[BoardMd].item[id] # None \/ y[DoneMd][id] # None)
      BY <2>3, <2>4, <2>5 DEF Changes
    <3> HIDE DEF c, p, x, y
    <3> QED
      BY <3>1, NoneIsLost
  <2>7. request[w].op = "remove" /\ request[w].id = id
    BY <2>6 DEF Taken
  <2>8. Changing(w)
    <3>1. Len(Changes(w)) \in Nat
      BY ChangesLength DEF Kept
    <3>2. Len(Changes(w)) # 0
      BY <2>3, <3>1
    <3>3. Changes(w) # <<>>
      BY <3>2
    <3> QED
      BY <2>2, <3>3 DEF Changing, Changes, ChangesOf, Write, Delete
  <2> QED
    BY <2>7, <2>8
<1> QED
  BY <1>1, StoreInvariant, PTL DEF Spec, ItemsKept

-----------------------------------------------------------------------------
(* Who only reads.                                                         *)

\* What a load() that may overlap other transactions has seen so far: every
\* item that was on disk when it read board.md and still is, in what it read.
Seen(w) ==
  /\ at[w] > 1 =>
       /\ copy[w][BoardMd] \in BoardFile
       /\ copy[w][BoardMd].next <= content[BoardMd].next
       /\ \A id \in Ids : id < copy[w][BoardMd].next /\ content[BoardMd].item[id] # None =>
                             copy[w][BoardMd].item[id] # None
  /\ at[w] > 2 =>
       \A id \in Ids : id < copy[w][BoardMd].next /\ content[DoneMd][id] # None =>
                         copy[w][BoardMd].item[id] # None \/ copy[w][DoneMd][id] # None

AllSeen == \A w \in Workers : OnlyReads(w) => Seen(w)

\* A change by another keeps it.
LEMMA ChangeSeen ==
  ASSUME Kept, NEW w \in Workers, Seen(w), NEW v \in Workers, Write(v) \/ Delete(v),
         at'[w] = at[w], copy'[w] = copy[w]
  PROVE  Seen(w)'
<1> DEFINE c == copy[v]
           p == plan[v]
           t == plan[v].target
           x == content
           y == content'
           b == copy[w][BoardMd]
<1>1. PICK n \in 0..(Len(Changes(v)) - 1) : x = After(c, p, n) /\ y = After(c, p, n + 1)
  BY ChangeStep
<1>2. Proper(c, request[v], p)
  BY ChangeStep DEF Kept, InCall, Planned, Write, Delete
<1>3. Between(c, p, x, y)
  <2> HIDE DEF c, p, x, y
  <2> QED
    BY <1>1, <1>2, OneChange, Zenon DEF Changes, p
<1>4. Onward(c, p, Taken(request[v]))
  BY <1>2, GoesOnward
<1>5. \A z : Legal(z) => z[BoardMd] \in BoardFile /\ z[BoardMd].next \in Nat
  <2> SUFFICES ASSUME NEW z, Legal(z) PROVE z[BoardMd] \in BoardFile /\ z[BoardMd].next \in Nat
    OBVIOUS
  <2>1. DirOf(z) \in Dir /\ DirOf(z).board = z[BoardMd]
    BY DirOfIs DEF Legal
  <2> QED
    BY <2>1, DirFields, IdsAreNumbers
<1>6. x[BoardMd].next \in Nat /\ c[BoardMd].next \in Nat /\ t[BoardMd].next \in Nat
  <2>1. Legal(x) /\ Legal(t) /\ Legal(c)
    BY <1>2, ChangeStep DEF Kept, Proper, InCall, Planned, Write, Delete
  <2> QED
    BY <1>5, <2>1, SMTT(30)
<1>7. at'[w] = at[w] /\ copy'[w] = copy[w]
  OBVIOUS
<1> DEFINE k == at[w]
           d == copy[w][DoneMd]
<1>8. /\ k > 1 => /\ b \in BoardFile /\ b.next <= x[BoardMd].next
                  /\ \A id \in Ids : id < b.next /\ x[BoardMd].item[id] # None => b.item[id] # None
      /\ k > 2 => \A id \in Ids : id < b.next /\ x[DoneMd][id] # None => b.item[id] # None \/ d[id] # None
  BY DEF Seen
<1>9. k > 2 => k > 1
  BY DEF Kept, TypeOK
<1>10. \A z \in BoardFile : z.next \in Nat
  BY DirectoryAssumption DEF BoardFile, Ids
<1>11. \A id \in Ids : id \in Nat
  BY IdsAreNumbers
<1>14. t = p.target
  OBVIOUS
<1> HIDE DEF c, p, t, x, y, b, k, d
<1>15. \/ y[BoardMd] = x[BoardMd] /\ y[DoneMd] = x[DoneMd]
       \/ /\ y[DoneMd] = t[DoneMd] /\ y[BoardMd] = x[BoardMd]
          /\ x[BoardMd] = c[BoardMd] /\ x[DoneMd] \in {c[DoneMd], t[DoneMd]}
       \/ /\ y[BoardMd] = t[BoardMd] /\ y[DoneMd] = x[DoneMd]
          /\ x[BoardMd] \in {c[BoardMd], t[BoardMd]}
  BY <1>3, <1>14 DEF Between
<1>16. /\ c[BoardMd].next <= t[BoardMd].next
       /\ \A id \in Ids :
            /\ id < c[BoardMd].next /\ t[BoardMd].item[id] # None => c[BoardMd].item[id] # None
            /\ t[DoneMd][id] # None => c[BoardMd].item[id] # None \/ c[DoneMd][id] # None
  BY <1>4, <1>14 DEF Onward
<1>12. ASSUME k > 1
       PROVE  /\ b.next <= y[BoardMd].next
              /\ \A id \in Ids : id < b.next /\ y[BoardMd].item[id] # None => b.item[id] # None
  <2>1. b.next \in Nat /\ b.next <= x[BoardMd].next
    BY <1>8, <1>10, <1>12
  <2>2. CASE y[BoardMd] = x[BoardMd]
    BY <1>8, <1>12, <2>2
  <2>3. CASE y[BoardMd] = t[BoardMd] /\ x[BoardMd] = c[BoardMd]
    <3>1. b.next <= y[BoardMd].next
      BY <1>16, <1>6, <2>1, <2>3
    <3>2. ASSUME NEW id \in Ids, id < b.next, y[BoardMd].item[id] # None PROVE b.item[id] # None
      <4>1. id < c[BoardMd].next
        BY <1>6, <1>11, <2>1, <2>3, <3>2
      <4> QED
        BY <1>16, <1>8, <1>12, <2>3, <3>2, <4>1
    <3> QED
      BY <3>1, <3>2
  <2>4. CASE y[BoardMd] = t[BoardMd] /\ x[BoardMd] = t[BoardMd]
    BY <1>8, <1>12, <2>4
  <2> QED
    BY <1>15, <2>2, <2>3, <2>4
<1>13. ASSUME k > 2, NEW id \in Ids, id < b.next, y[DoneMd][id] # None
       PROVE  b.item[id] # None \/ d[id] # None
  <2>1. CASE y[DoneMd] = x[DoneMd]
    BY <1>8, <1>13, <2>1
  <2>2. CASE y[DoneMd] = t[DoneMd] /\ x[DoneMd] = c[DoneMd] /\ x[BoardMd] = c[BoardMd]
    <3>1. c[BoardMd].item[id] # None \/ c[DoneMd][id] # None
      BY <1>16, <1>13, <2>2
    <3> QED
      BY <1>8, <1>9, <1>13, <2>2, <3>1
  <2>3. CASE y[DoneMd] = t[DoneMd] /\ x[DoneMd] = t[DoneMd]
    BY <1>8, <1>13, <2>3
  <2> QED
    BY <1>15, <2>1, <2>2, <2>3
<1>17. /\ k > 1 => /\ b \in BoardFile /\ b.next <= y[BoardMd].next
                   /\ \A id \in Ids : id < b.next /\ y[BoardMd].item[id] # None => b.item[id] # None
       /\ k > 2 => \A id \in Ids : id < b.next /\ y[DoneMd][id] # None => b.item[id] # None \/ d[id] # None
  BY <1>8, <1>12, <1>13
<1> QED
  BY <1>7, <1>17 DEF Seen, y, b, k, d

\* So does its own load().
LEMMA LoadSeen ==
  ASSUME Kept, NEW w \in Workers, Seen(w), Read(w) \/ Skip(w)
  PROVE  Seen(w)'
<1> USE DEF disk, model, staged
<1>1. /\ TypeOK /\ Legal(content) /\ content' = content
      /\ at[w] \in 1..Len(ReadOrder) /\ Len(ReadOrder) \in Nat /\ Len(ReadOrder) > 3
      /\ at'[w] = at[w] + 1
  <2>1. TypeOK /\ Legal(content) /\ InCall(w) /\ content' = content
    BY DEF Kept, Read, Skip
  <2>2. at[w] \in 1..(Len(ReadOrder) + 1) /\ at[w] <= Len(ReadOrder) /\ at'[w] = at[w] + 1
    BY <2>1 DEF TypeOK, InCall, Read, Skip
  <2>3. Len(ReadOrder) \in Nat /\ Len(ReadOrder) > 3
    BY FilesAre
  <2> QED
    BY <2>1, <2>2, <2>3
<1>2. /\ ReadOrder[1] = BoardMd /\ ReadOrder[2] = DoneMd
      /\ 1 \in 1..Len(ReadOrder) /\ 2 \in 1..Len(ReadOrder)
      /\ BoardMd \in Files /\ DoneMd \in Files /\ BoardMd # DoneMd
  BY <1>1, Order, FilesAre, Names
<1>3. content[BoardMd] \in BoardFile /\ content[BoardMd].next \in Nat
  <2>1. DirOf(content) \in Dir /\ DirOf(content).board = content[BoardMd]
    BY <1>1, DirOfIs DEF Legal
  <2> QED
    BY <2>1, DirFields, IdsAreNumbers
<1>4. CASE Skip(w)
  <2>1. at[w] > 3 /\ copy' = copy
    BY <1>1, <1>4, FilesAre DEF Skip
  <2> QED
    BY <1>1, <2>1 DEF Seen
<1>5. CASE Read(w)
  <2>1. copy' = [copy EXCEPT ![w][ReadOrder[at[w]]] = content[ReadOrder[at[w]]]]
    BY <1>5 DEF Read
  <2>2. ReadOrder[at[w]] \in Files /\ copy \in [Workers -> [Files -> Values \cup {None}]]
    BY <1>1, FilesAre DEF TypeOK, Contents
  <2>3. \A f \in Files : copy'[w][f] = IF f = ReadOrder[at[w]] THEN content[f] ELSE copy[w][f]
    BY <2>1, <2>2
  <2>4. CASE at[w] = 1
    <3>1. copy'[w][BoardMd] = content[BoardMd] /\ at'[w] = 2
      BY <1>1, <1>2, <2>3, <2>4
    <3> QED
      BY <1>1, <1>3, <3>1 DEF Seen
  <2>5. CASE at[w] = 2
    <3>1. copy'[w][BoardMd] = copy[w][BoardMd] /\ copy'[w][DoneMd] = content[DoneMd]
      BY <1>2, <2>3, <2>5
    <3> QED
      BY <1>1, <2>5, <3>1 DEF Seen
  <2>6. CASE at[w] > 2
    <3>1. ReadOrder[at[w]] # BoardMd /\ ReadOrder[at[w]] # DoneMd
      BY <1>1, <1>2, <2>6, OnePlace
    <3>2. copy'[w][BoardMd] = copy[w][BoardMd] /\ copy'[w][DoneMd] = copy[w][DoneMd]
      BY <1>2, <2>3, <3>1
    <3> QED
      BY <1>1, <2>6, <3>2 DEF Seen
  <2> QED
    BY <1>1, <2>4, <2>5, <2>6
<1> QED
  BY <1>4, <1>5

\* Every step keeps what a load has seen.
LEMMA NextSeen == Kept /\ AllSeen /\ [Next]_vars => AllSeen'
<1> SUFFICES ASSUME Kept, AllSeen, [Next]_vars, NEW w \in Workers, OnlyReads(w) PROVE Seen(w)'
  BY DEF AllSeen
<1> USE DEF disk, model, staged
<1>1. Seen(w) /\ TypeOK
  BY DEF AllSeen, Kept
<1>2. CASE at'[w] = at[w] /\ copy'[w] = copy[w] /\ content' = content
  BY <1>1, <1>2 DEF Seen
<1>3. CASE at'[w] = 1
  BY <1>3 DEF Seen
<1>4. ASSUME NEW v \in Workers, Write(v) \/ Delete(v) PROVE Seen(w)'
  <2>1. at' = at /\ copy' = copy
    BY <1>4 DEF Write, Delete
  <2> QED
    BY <1>1, <1>4, <2>1, ChangeSeen
<1>5. ASSUME NEW v \in Workers, Read(v) \/ Skip(v) PROVE Seen(w)'
  <2>1. CASE v = w
    BY <1>1, <1>5, <2>1, LoadSeen
  <2>2. CASE v # w
    BY <1>1, <1>2, <1>5, <2>2 DEF Read, Skip, TypeOK
  <2> QED
    BY <2>1, <2>2
<1>6. ASSUME NEW ws, Leave(ws), content' = content PROVE Seen(w)'
  <2>1. at'[w] = 1 \/ (at'[w] = at[w] /\ copy'[w] = copy[w])
    BY <1>6 DEF Leave
  <2> QED
    BY <1>2, <1>3, <1>6, <2>1
<1>7. ASSUME NEW v \in Workers,
             Begin(v) \/ Lock(v) \/ List(v) \/ Stat(v) \/ Prepare(v) \/ CheckOne(v) \/ CheckedAll(v)
      PROVE  Seen(w)'
  <2>1. at' = at /\ copy' = copy /\ content' = content
    BY <1>7 DEF Begin, Lock, List, Stat, Prepare, CheckOne, CheckedAll
  <2> QED
    BY <1>2, <2>1
<1>8. ASSUME NEW v \in Workers, Refuse(v) \/ Conflict(v) \/ Done(v) \/ Fail(v) PROVE Seen(w)'
  <2>1. Leave({v}) /\ content' = content
    BY <1>8 DEF Refuse, Conflict, Done, Fail, Return
  <2> QED
    BY <1>6, <2>1
<1>9. ASSUME NEW s \in Stores, Crash(s) PROVE Seen(w)'
  <2>1. Leave({v \in Workers : StoreOf[v] = s}) /\ content' = content
    BY <1>9 DEF Crash
  <2> QED
    BY <1>6, <2>1
<1>10. CASE UNCHANGED vars
  BY <1>2, <1>10 DEF vars
<1> QED
  BY <1>4, <1>5, <1>7, <1>8, <1>9, <1>10 DEF Next, Proceed

\* store.go's load() by another process: it reads board.md, then done.md, and
\* an item only ever goes from the one to the other.
THEOREM LoadsMissNothing == Spec => []LoadMissesNothing
<1>1. Init => AllSeen
  BY DEF Init, AllSeen, Seen
<1>2. Kept /\ AllSeen => LoadMissesNothing
  <2> SUFFICES ASSUME Kept, AllSeen, NEW w \in Workers, pc[w] = "loading", at[w] > Len(ReadOrder),
                      NEW id \in 1..(copy[w][BoardMd].next - 1), Home(DirOf(content), id) # None
               PROVE  Home(DirOf(copy[w]), id) # None
    BY DEF LoadMissesNothing, BoardMd
  <2>1. at[w] = Len(ReadOrder) + 1 /\ at[w] > 2 /\ at[w] > 1 /\ TypeOK /\ InCall(w)
    <3>1. TypeOK /\ InCall(w) /\ at[w] \in 1..(Len(ReadOrder) + 1)
      BY DEF Kept, TypeOK
    <3>2. Len(ReadOrder) \in Nat /\ Len(ReadOrder) > 3
      BY FilesAre
    <3> QED
      BY <3>1, <3>2
  <2>2. CASE ~ OnlyReads(w)
    <3>1. copy[w] = content
      BY <2>1, <2>2, AllRead DEF InCall
    <3> QED
      BY <3>1
  <2>3. CASE OnlyReads(w)
    <3>1. Seen(w)
      BY <2>3 DEF AllSeen
    <3>2. copy[w][BoardMd] \in BoardFile
      BY <2>1, <3>1 DEF Seen
    <3>3. id \in Ids /\ id < copy[w][BoardMd].next
      BY <3>2, DirectoryAssumption, SMTT(30) DEF BoardFile, Ids
    <3>4. content[BoardMd].item[id] # None \/ content[DoneMd][id] # None
      BY HomeInFiles
    <3>5. copy[w][BoardMd].item[id] # None \/ copy[w][DoneMd][id] # None
      BY <2>1, <3>1, <3>3, <3>4 DEF Seen
    <3> QED
      BY <3>5, HomeInFiles
  <2> QED
    BY <2>2, <2>3
<1> QED
  BY <1>1, <1>2, NextSeen, StoreInvariant, PTL DEF Spec

-----------------------------------------------------------------------------
(* The log.                                                                *)

\* tx.go appends the entries of a transaction to audit.md after its files are
\* written: a crash may leave a change unlogged, never a log of no change.
THEOREM LogComesLast == Spec => []AuditNeverAhead
<1>1. Kept => AuditNeverAhead
  <2> SUFFICES ASSUME Kept, NEW w \in Workers, Changing(w), content[AuditMd] # copy[w][AuditMd],
                      NEW i \in DOMAIN plan[w].writes
               PROVE  content[plan[w].writes[i]] = plan[w].target[plan[w].writes[i]]
    BY DEF AuditNeverAhead
  <2> DEFINE p == plan[w]
             order == ChangesOf(p)
  <2>1. ~ OnlyReads(w) /\ Planned(w) /\ Underway(w)
    BY ChangingWrites
  <2>2. Proper(copy[w], request[w], p)
    BY <2>1 DEF Planned
  <2>3. PICK n \in 0..Len(order) : content = After(copy[w], p, n)
    BY <2>1 DEF Underway, Progress, Changes
  <2>4. AuditMd \in Files /\ p.writes \in Seq(Files) /\ i \in 1..Len(p.writes) /\ Len(p.writes) \in Nat
    BY <2>2, FilesAre DEF Proper
  <2>5. \A f \in Files : content[f] = IF \E k \in 1..n : order[k] = f THEN p.target[f] ELSE copy[w][f]
    <3> SUFFICES ASSUME NEW f \in Files
                 PROVE  content[f] = IF \E k \in 1..n : order[k] = f THEN p.target[f] ELSE copy[w][f]
      OBVIOUS
    <3>1. After(copy[w], p, n)[f] = IF \E k \in 1..n : order[k] = f THEN p.target[f] ELSE copy[w][f]
      BY AfterIs
    <3> QED
      BY <2>3, <3>1
  <2>6. Len(order) \in Nat
    BY ChangesLength DEF Kept, Changes
  <2> DEFINE m == Len(p.writes)
             l == Len(order)
  <2>7. \A k \in 1..l : order[k] \in {BoardMd, DoneMd, AuditMd} => k \in 1..m /\ p.writes[k] = order[k]
    BY <2>2, MainIsWritten
  <2>8. order[i] = p.writes[i] /\ p.writes[i] \in Files
    BY <2>2, <2>4, WrittenIsChange
  <2>9. \A k \in 1..m : p.writes[k] = AuditMd => k = m
    BY <2>2 DEF Proper
  <2> HIDE DEF order, p, l, m
  <2>10. PICK k \in 1..n : order[k] = AuditMd
    BY <2>4, <2>5
  <2>11. k \in 1..l /\ n \in Nat /\ n <= l /\ l \in Nat
    BY <2>3, <2>6 DEF l
  <2>12. k = m
    BY <2>7, <2>9, <2>10, <2>11
  <2>13. i \in 1..n
    BY <2>4, <2>11, <2>12 DEF m
  <2>14. content[p.writes[i]] = p.target[p.writes[i]]
    BY <2>5, <2>8, <2>13
  <2> QED
    BY <2>14 DEF p
<1> QED
  BY <1>1, StoreInvariant, PTL

-----------------------------------------------------------------------------
(* Half of a transaction.                                                  *)

\* m has each file as d has it or as the result x does, and no file that is
\* changed without those that are staged before it.
Torn(d, x, m) ==
  /\ \A f \in Main \cup Details : Content(m, f) = Content(d, f) \/ Content(m, f) = Content(x.dir, f)
  /\ \A i \in 1..Len(x.files), g \in Main \cup Details :
       Before(x.files, x.files[i], g) /\ Content(m, g) # Content(d, g) =>
         Content(m, x.files[i]) = Content(x.dir, x.files[i])

\* A file's content is what the directory has of it.
LEMMA ContentIs ==
  ASSUME NEW c, NEW f \in Main \cup Details
  PROVE  Content(DirOf(c), f) = c[f]
<1>1. CASE f = BoardMd
  BY <1>1, DirOfIs DEF Content, BoardMd, File
<1>2. CASE f = DoneMd
  BY <1>2, DirOfIs DEF Content, DoneMd, File
<1>3. CASE f \in Details
  <2>1. PICK id \in Ids : f = DetailName(id)
    BY <1>3 DEF Details
  <2>2. Content(DirOf(c), f) = DirOf(c).detail[id]
    BY <2>1 DEF Content, DetailName
  <2> QED
    BY <2>1, <2>2, DirOfIs
<1> QED
  BY <1>1, <1>2, <1>3 DEF Main

\* That is what is on disk in the middle of a transaction's changes.
LEMMA HalfDone ==
  ASSUME Kept, NEW w \in Workers, Changing(w)
  PROVE  \E x \in Results(DirOf(copy[w]), request[w]) :
           /\ Commits(DirOf(copy[w]), x) /\ x.dir = DirOf(plan[w].target)
           /\ Torn(DirOf(copy[w]), x, DirOf(content))
<1> DEFINE c == copy[w]
           p == plan[w]
           r == request[w]
           d == DirOf(c)
           order == ChangesOf(p)
<1>1. ~ OnlyReads(w) /\ Planned(w) /\ Underway(w)
  BY ChangingWrites
<1>2. Legal(c) /\ p \in Plan(c, r) /\ Proper(c, r, p)
  BY <1>1 DEF Planned
<1>3. r \in Call
  BY Asked DEF Kept, InCall
<1>4. PICK n \in 0..Len(order) : content = After(c, p, n)
  BY <1>1 DEF Underway, Progress, Changes
<1>5. Len(order) \in Nat
  BY ChangesLength DEF Kept, Changes
<1> HIDE DEF c, p, r, order
<1>6. PICK x \in Results(d, r), logged \in BOOLEAN :
        /\ Commits(d, x)
        /\ p.target = ContentOf(x.dir, IF logged THEN c[AuditMd] + 1 ELSE c[AuditMd])
        /\ p.writes = IF logged THEN Append(Staged(d, x), AuditMd) ELSE Staged(d, x)
        /\ p.deletes = x.deletes
        /\ logged = (Staged(d, x) # <<>> \/ x.deletes # <<>>)
  BY <1>2, PlanIs
<1>7. d \in Dir /\ Grouped(d.board) /\ Fresh(d.board) /\ c[AuditMd] \in Nat
  BY <1>2, DirOfIs DEF Legal
<1> HIDE DEF d
<1>8. Follows(d, x.dir, Taken(r)) /\ InOrder(d, x)
  BY <1>3, <1>7, ResultFollows, ResultInOrder
<1>9. x.dir = DirOf(p.target)
  <2> DEFINE audit == IF logged THEN c[AuditMd] + 1 ELSE c[AuditMd]
  <2>1. audit \in Nat /\ p.target = ContentOf(x.dir, audit)
    BY <1>6, <1>7
  <2> HIDE DEF audit
  <2>2. x.dir \in Dir /\ Grouped(x.dir.board) /\ Fresh(x.dir.board)
    BY <1>8 DEF Follows
  <2> QED
    BY <2>1, <2>2, ContentLegal
<1> DEFINE S == Main \cup Details
           files == Staged(d, x)
<1>10. x.files \in Seq(S) /\ S \subseteq Files /\ AuditMd \notin S
  BY <1>8, FilesAre, Names DEF InOrder, Main
<1> HIDE DEF S
<1>11. /\ files \in Seq(S)
       /\ \A f, g \in S : Before(x.files, f, g) => Before(files, f, g)
       /\ \A i \in 1..Len(x.files) : Content(d, x.files[i]) # Content(x.dir, x.files[i]) =>
            \E k \in 1..Len(files) : files[k] = x.files[i]
  BY <1>10, StagedOrder
<1>12. p.writes = Append(files, AuditMd) \/ p.writes = files
  BY <1>6
<1> HIDE DEF files
<1>13. /\ Len(files) \in Nat
       /\ \A k \in 1..Len(files) : k \in 1..Len(p.writes) /\ p.writes[k] = files[k] /\ files[k] \in S
       /\ \A k \in 1..Len(p.writes) : k \in 1..Len(files) \/ p.writes[k] = AuditMd
  <2>1. CASE p.writes = files
    BY <1>11, <2>1
  <2>2. CASE p.writes = Append(files, AuditMd)
    BY <1>11, <2>2
  <2> QED
    BY <1>12, <2>1, <2>2
<1>14. \A k \in 1..Len(p.writes) : k \in 1..Len(order) /\ order[k] = p.writes[k]
  BY <1>2, WrittenIsChange DEF order
<1>15. \A f \in Files : content[f] = IF \E k \in 1..n : order[k] = f THEN p.target[f] ELSE c[f]
  <2> SUFFICES ASSUME NEW f \in Files
               PROVE  content[f] = IF \E k \in 1..n : order[k] = f THEN p.target[f] ELSE c[f]
    OBVIOUS
  <2>1. After(c, p, n)[f] = IF \E k \in 1..n : order[k] = f THEN p.target[f] ELSE c[f]
    BY AfterIs DEF order
  <2> QED
    BY <1>4, <2>1
<1> DEFINE m == DirOf(content)
<1>16. \A f \in S : /\ f \in Files /\ Content(m, f) = content[f]
                    /\ Content(d, f) = c[f] /\ Content(x.dir, f) = p.target[f]
  BY <1>9, <1>10, ContentIs DEF S, d
<1> HIDE DEF m
<1>17. \A f \in S : Content(m, f) = Content(d, f) \/ Content(m, f) = Content(x.dir, f)
  BY <1>15, <1>16
<1>18. ASSUME NEW i \in 1..Len(x.files), NEW g \in S, Before(x.files, x.files[i], g),
              Content(m, g) # Content(d, g)
       PROVE  Content(m, x.files[i]) = Content(x.dir, x.files[i])
  <2> DEFINE f == x.files[i]
  <2>1. f \in S
    BY <1>10
  <2>2. CASE Content(d, f) = Content(x.dir, f)
    BY <1>17, <2>1, <2>2
  <2>3. CASE Content(d, f) # Content(x.dir, f)
    <3>1. PICK a \in 1..Len(files) : files[a] = f
      BY <1>11, <2>3
    <3>2. PICK b \in 1..n : order[b] = g
      BY <1>15, <1>16, <1>18
    <3>3. a \in 1..Len(order) /\ order[a] = f /\ a \in 1..Len(p.writes) /\ a \in Nat /\ b \in Nat
      BY <1>13, <1>14, <3>1
    <3>4. a <= b
      <4>1. CASE b \in 1..Len(p.writes)
        <5>1. p.writes[b] = g /\ p.writes[b] # AuditMd
          BY <1>10, <1>14, <1>18, <3>2, <4>1
        <5>2. b \in 1..Len(files) /\ files[b] = g
          BY <1>13, <4>1, <5>1
        <5>3. Before(files, f, g)
          BY <1>11, <1>18, <2>1
        <5>4. a < b
          BY <3>1, <5>2, <5>3 DEF Before
        <5> QED
          BY <3>3, <5>4
      <4>2. CASE b \notin 1..Len(p.writes)
        <5>1. b \in 1..n /\ n \in Nat /\ b > 0
          BY <1>4, <1>5, <3>2
        <5> QED
          BY <3>3, <4>2, <5>1
      <4> QED
        BY <4>1, <4>2
    <3>5. a \in 1..n
      BY <1>4, <1>5, <3>2, <3>3, <3>4
    <3>6. content[f] = p.target[f]
      BY <1>15, <1>16, <2>1, <3>3, <3>5
    <3> QED
      BY <1>16, <2>1, <3>6
  <2> QED
    BY <2>2, <2>3
<1>19. Torn(d, x, m)
  BY <1>17, <1>18 DEF Torn, S
<1> QED
  BY <1>6, <1>9, <1>19 DEF c, p, r, d, m

\* A detail file is there as the other is, under the same title.
SameFile(f, g) == f = g \/ (f # None /\ g # None /\ f.title = g.title)

\* Directories that are one but for what the detail files say.
LEMMA SameShape ==
  ASSUME NEW d \in Dir, NEW m \in Dir, m.board = d.board, m.done = d.done,
         \A id \in Ids : SameFile(m.detail[id], d.detail[id])
  PROVE  Shape(m) = Shape(d)
<1> DEFINE titles(e) == [id \in Ids |-> IF e.detail[id] = None THEN None ELSE e.detail[id].title]
<1>1. ASSUME NEW e \in Dir
      PROVE  Shape(e) = [board |-> e.board, done |-> e.done, detail |-> titles(e)]
  <2> DEFINE t == titles(e)
  <2>1. Shape(e) = [e EXCEPT !.detail = t]
    BY DEF Shape
  <2> HIDE DEF t
  <2>2. [e EXCEPT !.detail = t] = [board |-> e.board, done |-> e.done, detail |-> t]
    BY DEF Dir
  <2> QED
    BY <2>1, <2>2 DEF t
<1>2. titles(m) = titles(d)
  <2>1. ASSUME NEW id \in Ids
        PROVE  (IF m.detail[id] = None THEN None ELSE m.detail[id].title)
               = (IF d.detail[id] = None THEN None ELSE d.detail[id].title)
    BY DEF SameFile
  <2> QED
    BY <2>1
<1> QED
  BY <1>1, <1>2

\* m is d or e part by part, and of the detail files these differ in one.
Parts(d, e, m, id) ==
  /\ d \in Dir /\ e \in Dir /\ m \in Dir /\ id \in Ids
  /\ m.board \in {d.board, e.board} /\ m.done \in {d.done, e.done}
  /\ m.detail[id] \in {d.detail[id], e.detail[id]}
  /\ \A y \in Ids \ {id} : m.detail[y] = d.detail[y] /\ m.detail[y] = e.detail[y]

\* The board and done.md are the other's.
Lines(d, m) == m.board = d.board /\ m.done = d.done

\* The parts of half a transaction.
LEMMA TornParts ==
  ASSUME NEW d \in Dir, NEW x, x.dir \in Dir, NEW m \in Dir, NEW id \in Ids, Torn(d, x, m),
         \A y \in Ids \ {id} : x.dir.detail[y] = d.detail[y]
  PROVE  Parts(d, x.dir, m, id)
<1>1. \A e : Content(e, BoardMd) = e.board /\ Content(e, DoneMd) = e.done
  BY DEF Content, BoardMd, DoneMd, File
<1>2. \A e, y : Content(e, DetailName(y)) = e.detail[y]
  BY DEF Content, DetailName
<1>3. \A f \in Main \cup Details : Content(m, f) = Content(d, f) \/ Content(m, f) = Content(x.dir, f)
  BY DEF Torn
<1>4. BoardMd \in Main /\ DoneMd \in Main /\ \A y \in Ids : DetailName(y) \in Details
  BY DEF Main, Details
<1>5. m.board \in {d.board, x.dir.board} /\ m.done \in {d.done, x.dir.done}
  BY <1>1, <1>3, <1>4
<1>6. \A y \in Ids : m.detail[y] = d.detail[y] \/ m.detail[y] = x.dir.detail[y]
  BY <1>2, <1>3, <1>4
<1> QED
  BY <1>5, <1>6 DEF Parts

\* What half of a transaction of an item looks like, between d and e.
Loudly(d, e, m, id) ==
  \/ Shape(m) \in {Shape(d), Shape(e)}
  \/ \E v \in Concerning(id) : v \in validate(m)

\* It may look like nothing has happened,
LEMMA LooksOld ==
  ASSUME NEW d, NEW e, NEW m, NEW id, Parts(d, e, m, id), Lines(d, m),
         SameFile(m.detail[id], d.detail[id])
  PROVE  Loudly(d, e, m, id)
<1>1. \A y \in Ids : SameFile(m.detail[y], d.detail[y])
  BY DEF Parts, SameFile
<1>2. Shape(m) = Shape(d)
  BY <1>1, SameShape DEF Parts, Lines
<1> QED
  BY <1>2 DEF Loudly

\* or like all has,
LEMMA LooksNew ==
  ASSUME NEW d, NEW e, NEW m, NEW id, Parts(d, e, m, id), Lines(e, m),
         SameFile(m.detail[id], e.detail[id])
  PROVE  Loudly(d, e, m, id)
<1>1. \A y \in Ids : SameFile(m.detail[y], e.detail[y])
  BY DEF Parts, SameFile
<1>2. Shape(m) = Shape(e)
  BY <1>1, SameShape DEF Parts, Lines
<1> QED
  BY <1>2 DEF Loudly

\* or have an item in both files,
LEMMA IsTwice ==
  ASSUME NEW d, NEW e, NEW m, NEW id \in Ids, m.board.item[id] # None, m.done[id] # None
  PROVE  <<"I1", id>> \in validate(m) /\ Loudly(d, e, m, id)
<1>1. <<"I1", id>> \in checkIDs(m)
  BY DEF checkIDs
<1>2. <<"I1", id>> \in validate(m)
  BY <1>1 DEF validate
<1>3. <<"I1", id>> \in Concerning(id)
  BY DEF Concerning
<1> QED
  BY <1>2, <1>3 DEF Loudly

\* or a detail file no item claims,
LEMMA IsOrphan ==
  ASSUME NEW d, NEW e, NEW m, NEW id \in Ids, m.detail[id] # None, Claims(m, id) = {}
  PROVE  Loudly(d, e, m, id)
<1>1. <<"I9 orphan", id>> \in checkDetails(m)
  BY DEF checkDetails
<1>2. <<"I9 orphan", id>> \in validate(m)
  BY <1>1 DEF validate
<1>3. <<"I9 orphan", id>> \in Concerning(id)
  BY DEF Concerning
<1> QED
  BY <1>2, <1>3 DEF Loudly

\* or a claim to a file that is not there,
LEMMA IsMissing ==
  ASSUME NEW d, NEW e, NEW m, NEW id \in Ids, NEW h \in {"board", "done"},
         m.detail[id] = None, h \in Claims(m, id)
  PROVE  <<"I8", h, id>> \in validate(m) /\ Loudly(d, e, m, id)
<1>1. <<"I8", h, id>> \in checkDetails(m)
  BY DEF checkDetails
<1>2. <<"I8", h, id>> \in validate(m)
  BY <1>1 DEF validate
<1>3. <<"I8", h, id>> \in Concerning(id)
  BY DEF Concerning
<1> QED
  BY <1>2, <1>3 DEF Loudly

\* or one of another title.
LEMMA IsRetitled ==
  ASSUME NEW d, NEW e, NEW m, NEW id \in Ids, NEW h \in {"board", "done"},
         m.detail[id] # None, h \in Claims(m, id), ItemAt(m, h, id).title # m.detail[id].title,
         m.detail[id].title \in Titles, ItemAt(m, h, id).title \in Titles
  PROVE  Loudly(d, e, m, id)
<1> DEFINE v == <<"I9 title", id, m.detail[id].title, ItemAt(m, h, id).title>>
<1>1. v \in checkDetails(m)
  BY DEF checkDetails
<1>2. v \in validate(m)
  BY <1>1 DEF validate
<1>3. v \in Concerning(id)
  BY DEF Concerning
<1> QED
  BY <1>2, <1>3 DEF Loudly

\* What is called missing is.
LEMMA MissingIs ==
  ASSUME NEW d, NEW h, NEW id \in Ids, <<"I8", h, id>> \in validate(d)
  PROVE  d.detail[id] = None
<1> DEFINE v == <<"I8", h, id>>
<1>1. v \notin checkIDs(d)
  BY DEF checkIDs
<1>2. v \notin checkBoard(d)
  BY DEF checkBoard
<1>3. v \notin checkTicklerV2(d)
  BY DEF checkTicklerV2
<1>4. v \in checkDetails(d)
  BY <1>1, <1>2, <1>3 DEF validate
<1>5. \A k, y : <<"I8", h, id>> = <<"I8", k, y>> => y = id
  OBVIOUS
<1> QED
  BY <1>4, <1>5 DEF checkDetails

\* What is called twice is in both files.
LEMMA TwiceIs ==
  ASSUME NEW d, NEW id \in Ids, <<"I1", id>> \in validate(d)
  PROVE  d.board.item[id] # None /\ d.done[id] # None
<1>1. <<"I1", id>> \notin checkBoard(d)
  BY DEF checkBoard
<1>2. <<"I1", id>> \notin checkTicklerV2(d)
  BY DEF checkTicklerV2
<1>3. <<"I1", id>> \notin checkDetails(d)
  BY DEF checkDetails
<1>4. <<"I1", id>> \in checkIDs(d)
  BY <1>1, <1>2, <1>3 DEF validate
<1>5. ASSUME NEW y \in Ids, <<"I1", id>> = <<"I1", y>> PROVE y = id
  BY <1>5
<1> QED
  BY <1>4, <1>5 DEF checkIDs

\* A transaction that deletes a detail file leaves no claim to it.
LEMMA NoClaimLeft ==
  ASSUME NEW d, NEW x, Commits(d, x), NEW id \in Ids, x.accepts \subseteq {<<"I9 orphan", id>>},
         d.detail[id] # None, x.dir.detail[id] = None
  PROVE  Claims(x.dir, id) = {}
<1> SUFFICES ASSUME NEW h \in Claims(x.dir, id) PROVE FALSE
  OBVIOUS
<1>1. h \in {"board", "done"}
  BY DEF Claims
<1>2. <<"I8", h, id>> \in validate(x.dir)
  BY <1>1, IsMissing
<1>3. <<"I8", h, id>> # <<"I9 orphan", id>>
  OBVIOUS
<1>4. <<"I8", h, id>> \in validate(d)
  BY <1>2, <1>3 DEF Commits
<1> QED
  BY <1>4, MissingIs

\* And none puts an item into both files that is not.
LEMMA NoneTwice ==
  ASSUME NEW d, NEW x, Commits(d, x), NEW id \in Ids, x.accepts \subseteq {<<"I9 orphan", id>>},
         d.board.item[id] = None, x.dir.board.item[id] # None
  PROVE  x.dir.done[id] = None
<1> SUFFICES ASSUME x.dir.done[id] # None PROVE FALSE
  OBVIOUS
<1>1. <<"I1", id>> \in validate(x.dir)
  BY IsTwice
<1>2. <<"I1", id>> # <<"I9 orphan", id>>
  OBVIOUS
<1>3. <<"I1", id>> \in validate(d)
  BY <1>1, <1>2 DEF Commits
<1> QED
  BY <1>3, TwiceIs

\* The lines are those of e, or of d, when the home's file is: the other one is
\* the same.
LEMMA HomeLines ==
  ASSUME NEW d, NEW e, NEW m, NEW id, Parts(d, e, m, id), Home(d, id) # None, OtherFile(d, e, id),
         NEW f, f = File(Home(d, id))
  PROVE  /\ f \in Main
         /\ Content(m, f) = Content(d, f) => Lines(d, m)
         /\ Content(m, f) = Content(e, f) => Lines(e, m)
         /\ Lines(d, m) \/ Lines(e, m)
<1>1. \A a : Content(a, BoardMd) = a.board /\ Content(a, DoneMd) = a.done
  BY DEF Content, BoardMd, DoneMd, File
<1>2. CASE Home(d, id) = "board"
  <2>1. f = BoardMd /\ e.done = d.done
    BY <1>2 DEF OtherFile, BoardMd
  <2> QED
    BY <1>1, <2>1 DEF Lines, Parts, Main
<1>3. CASE Home(d, id) # "board"
  <2>1. f = DoneMd /\ e.board = d.board
    BY <1>3 DEF OtherFile, DoneMd, Home
  <2> QED
    BY <1>1, <2>1 DEF Lines, Parts, Main
<1> QED
  BY <1>2, <1>3

\* A detail file that is staged, or deleted, after the line of its item.
LEMMA DetailLast ==
  ASSUME NEW d, NEW x, NEW m, NEW id, Parts(d, x.dir, m, id), Torn(d, x, m),
         Home(d, id) # None, OtherFile(d, x.dir, id),
         x.files = <<File(Home(d, id)), DetailName(id)>> \/ x.files = <<File(Home(d, id))>>
  PROVE  \/ m.detail[id] = d.detail[id] /\ (Lines(d, m) \/ Lines(x.dir, m))
         \/ m.detail[id] = x.dir.detail[id] /\ Lines(x.dir, m)
<1> DEFINE f == File(Home(d, id))
           g == DetailName(id)
           s == x.files
<1>1. id \in Ids /\ g \in Details
  BY DEF Parts, Details
<1>2. /\ f \in Main /\ (Content(m, f) = Content(x.dir, f) => Lines(x.dir, m))
      /\ Lines(d, m) \/ Lines(x.dir, m)
  BY HomeLines
<1>3. Content(m, g) = m.detail[id] /\ Content(d, g) = d.detail[id]
  BY DEF Content, DetailName
<1>4. f # g
  BY <1>1, <1>2, Names DEF Main
<1> HIDE DEF f, g
<1>5. s \in Seq({f, g}) /\ 1 \in 1..Len(s) /\ s[1] = f /\ Before(s, f, g)
  <2>1. CASE s = <<f, g>>
    <3>1. \A k \in 1..Len(s) : (k = 1 /\ s[k] = f) \/ (k = 2 /\ s[k] = g)
      BY <2>1
    <3> QED
      BY <1>4, <2>1, <3>1 DEF Before
  <2>2. CASE s = <<f>>
    <3>1. \A k \in 1..Len(s) : k = 1 /\ s[k] = f
      BY <2>2
    <3> QED
      BY <1>4, <2>2, <3>1 DEF Before
  <2> QED
    BY <2>1, <2>2 DEF f, g
<1>6. \A i \in 1..Len(x.files), h \in Main \cup Details :
        Before(x.files, x.files[i], h) /\ Content(m, h) # Content(d, h) =>
          Content(m, x.files[i]) = Content(x.dir, x.files[i])
  BY DEF Torn
<1>7. Content(m, g) # Content(d, g) => Content(m, f) = Content(x.dir, f)
  BY <1>1, <1>5, <1>6
<1>8. m.detail[id] \in {d.detail[id], x.dir.detail[id]}
  BY DEF Parts
<1> QED
  BY <1>2, <1>3, <1>7, <1>8

\* One that is staged before it.
LEMMA DetailFirst ==
  ASSUME NEW d, NEW x, NEW m, NEW id, Parts(d, x.dir, m, id), Torn(d, x, m),
         Home(d, id) # None, OtherFile(d, x.dir, id),
         x.files = <<DetailName(id), File(Home(d, id))>>
  PROVE  \/ m.detail[id] = x.dir.detail[id] /\ (Lines(d, m) \/ Lines(x.dir, m))
         \/ m.detail[id] = d.detail[id] /\ Lines(d, m)
<1> DEFINE f == File(Home(d, id))
           g == DetailName(id)
           s == x.files
<1>1. id \in Ids /\ g \in Details
  BY DEF Parts, Details
<1>2. /\ f \in Main /\ (Content(m, f) = Content(d, f) => Lines(d, m))
      /\ Lines(d, m) \/ Lines(x.dir, m)
  BY HomeLines
<1>3. /\ Content(m, g) = m.detail[id] /\ Content(d, g) = d.detail[id]
      /\ Content(x.dir, g) = x.dir.detail[id]
  BY DEF Content, DetailName
<1>4. f # g
  BY <1>1, <1>2, Names DEF Main
<1> HIDE DEF f, g
<1>5. s \in Seq({f, g}) /\ 1 \in 1..Len(s) /\ s[1] = g /\ Before(s, g, f)
  <2>1. s = <<g, f>>
    BY DEF f, g
  <2>2. \A k \in 1..Len(s) : (k = 1 /\ s[k] = g) \/ (k = 2 /\ s[k] = f)
    BY <2>1
  <2> QED
    BY <1>4, <2>1, <2>2 DEF Before
<1>6. \A i \in 1..Len(x.files), h \in Main \cup Details :
        Before(x.files, x.files[i], h) /\ Content(m, h) # Content(d, h) =>
          Content(m, x.files[i]) = Content(x.dir, x.files[i])
  BY DEF Torn
<1>7. Content(m, f) # Content(d, f) => Content(m, g) = Content(x.dir, g)
  BY <1>2, <1>5, <1>6
<1>8. m.detail[id] \in {d.detail[id], x.dir.detail[id]}
  BY DEF Parts
<1> QED
  BY <1>2, <1>3, <1>7, <1>8

\* Lines that are the same make the same claims.
LEMMA SameClaims ==
  ASSUME NEW e, NEW m, Lines(e, m), NEW id
  PROVE  Claims(m, id) = Claims(e, id) /\ \A h : ItemAt(m, h, id) = ItemAt(e, h, id)
BY DEF Lines, Claims, ItemAt

\* The line first, then the file it no longer needs: an orphan in between.
LEMMA LetsGoLoudly ==
  ASSUME NEW d \in Dir, NEW x, NEW m \in Dir, NEW id \in Ids, Torn(d, x, m), Commits(d, x),
         Same(d, x.dir, id), OtherFile(d, x.dir, id), Home(d, id) # None,
         x.accepts \subseteq {<<"I9 orphan", id>>},
         x.files = <<File(Home(d, id))>>, x.dir.detail[id] \in {d.detail[id], None}
  PROVE  Loudly(d, x.dir, m, id)
<1> DEFINE e == x.dir
<1>1. Parts(d, e, m, id)
  BY TornParts DEF Same
<1>2. \/ m.detail[id] = d.detail[id] /\ (Lines(d, m) \/ Lines(e, m))
      \/ m.detail[id] = e.detail[id] /\ Lines(e, m)
  BY <1>1, DetailLast
<1>3. CASE m.detail[id] = d.detail[id] /\ Lines(d, m)
  BY <1>1, <1>3, LooksOld DEF SameFile
<1>4. CASE m.detail[id] = e.detail[id] /\ Lines(e, m)
  BY <1>1, <1>4, LooksNew DEF SameFile
<1>5. CASE m.detail[id] = d.detail[id] /\ Lines(e, m) /\ d.detail[id] # e.detail[id]
  <2>1. d.detail[id] # None /\ e.detail[id] = None
    BY <1>5
  <2>2. Claims(e, id) = {}
    BY <2>1, NoClaimLeft
  <2>3. Claims(m, id) = {}
    BY <1>5, <2>2, SameClaims, ZenonT(60)
  <2> QED
    BY <1>5, <2>1, <2>3, IsOrphan
<1> QED
  BY <1>2, <1>3, <1>4, <1>5

\* --remove is of that kind,
LEMMA RemovesLoudly ==
  ASSUME NEW d \in Dir, Grouped(d.board), NEW id \in Ids, NEW withDetail \in BOOLEAN,
         NEW x \in removeInternal(d, id, withDetail), Commits(d, x), NEW m \in Dir, Torn(d, x, m)
  PROVE  Loudly(d, x.dir, m, id)
<1>1. /\ Same(d, x.dir, id) /\ x.accepts \subseteq {<<"I9 orphan", id>>}
      /\ Home(d, id) # None /\ OtherFile(d, x.dir, id)
      /\ x.dir.detail[id] \in {d.detail[id], None}
  BY RemoveSound
<1>2. x.files = <<File(Home(d, id))>>
  <2>1. \E e, deletes, accepts : x = Result(e, <<File(Home(d, id))>>, deletes, accepts)
    BY <1>1, Zenon DEF removeInternal
  <2> QED
    BY <2>1 DEF Result
<1> QED
  BY <1>1, <1>2, LetsGoLoudly

\* and --detach.
LEMMA DetachesLoudly ==
  ASSUME NEW d \in Dir, Grouped(d.board), NEW id \in Ids, NEW delete \in BOOLEAN,
         NEW x \in DetachDetail(d, id, delete), Commits(d, x), NEW m \in Dir, Torn(d, x, m)
  PROVE  Loudly(d, x.dir, m, id)
<1>1. /\ Home(d, id) # None /\ x.accepts \subseteq {<<"I9 orphan", id>>}
      /\ EditsTo(d, x.dir, id, 0)
      /\ OtherFile(d, x.dir, id) /\ x.dir.detail[id] \in {d.detail[id], None}
  BY DetachDetailSound, 0 \in Nat
<1>2. Same(d, x.dir, id)
  BY <1>1 DEF EditsTo, InPlace
<1>3. x.files = <<File(Home(d, id))>>
  <2>1. \E e, deletes, accepts : x = Result(e, <<File(Home(d, id))>>, deletes, accepts)
    BY <1>1, Zenon DEF DetachDetail
  <2> QED
    BY <2>1 DEF Result
<1> QED
  BY <1>1, <1>2, <1>3, LetsGoLoudly

\* --attach: the line first, and no file to it in between.
LEMMA AttachesLoudly ==
  ASSUME NEW d \in Dir, Grouped(d.board), NEW id \in Ids, NEW body \in SUBSET Notes,
         NEW x \in AttachDetail(d, id, body), NEW m \in Dir, Torn(d, x, m)
  PROVE  Loudly(d, x.dir, m, id)
<1> DEFINE e == x.dir
           h == Home(d, id)
<1>1. /\ h # None /\ EditsTo(d, e, id, 0) /\ d.detail[id] = None /\ OtherFile(d, e, id)
      /\ ItemAt(e, h, id) \in Item /\ ItemAt(e, h, id).detail
  BY AttachDetailSound, 0 \in Nat
<1>2. Same(d, e, id) /\ h \in {"board", "done"}
  BY <1>1, HomeHas DEF EditsTo, InPlace
<1>3. x.files = <<File(h), DetailName(id)>>
  BY <1>1 DEF AttachDetail, Result
<1>4. Parts(d, e, m, id)
  BY <1>2, TornParts DEF Same
<1>5. \/ m.detail[id] = d.detail[id] /\ (Lines(d, m) \/ Lines(e, m))
      \/ m.detail[id] = e.detail[id] /\ Lines(e, m)
  BY <1>1, <1>3, <1>4, DetailLast
<1>6. CASE m.detail[id] = d.detail[id] /\ Lines(d, m)
  BY <1>4, <1>6, LooksOld DEF SameFile
<1>7. CASE m.detail[id] = e.detail[id] /\ Lines(e, m)
  BY <1>4, <1>7, LooksNew DEF SameFile
<1>8. CASE m.detail[id] = d.detail[id] /\ Lines(e, m)
  <2>1. ItemAt(m, h, id) = ItemAt(e, h, id)
    BY <1>8, SameClaims
  <2>2. h \in Claims(m, id)
    BY <1>1, <1>2, <2>1, NoneAssumption DEF Claims
  <2> QED
    BY <1>1, <1>2, <1>8, <2>2, IsMissing
<1> QED
  BY <1>5, <1>6, <1>7, <1>8

\* A new title: the line has it first, and is at odds with the file in between.
LEMMA EditsLoudly ==
  ASSUME NEW d \in Dir, Grouped(d.board), NEW id \in Ids, NEW u \in FieldUpdate, NEW today \in Nat,
         NEW x \in Update(d, id, u, today), NEW m \in Dir, Torn(d, x, m)
  PROVE  Loudly(d, x.dir, m, id)
<1> DEFINE e == x.dir
           h == Home(d, id)
<1>1. /\ h # None /\ InPlace(d, e, id) /\ OtherFile(d, e, id)
      /\ \/ e.detail[id] = d.detail[id]
         \/ /\ ItemAt(e, h, id) \in Item /\ ItemAt(e, h, id).detail
            /\ d.detail[id] # None /\ e.detail[id] # None
            /\ e.detail[id].title = ItemAt(e, h, id).title
  BY UpdateSound
<1>2. Same(d, e, id) /\ h \in {"board", "done"}
  BY <1>1, HomeHas DEF InPlace
<1>3. x.files = <<File(h), DetailName(id)>>
  BY DEF Update, Result
<1>4. Parts(d, e, m, id)
  BY <1>2, TornParts DEF Same
<1>5. \/ m.detail[id] = d.detail[id] /\ (Lines(d, m) \/ Lines(e, m))
      \/ m.detail[id] = e.detail[id] /\ Lines(e, m)
  BY <1>1, <1>3, <1>4, DetailLast
<1>6. CASE m.detail[id] = d.detail[id] /\ Lines(d, m)
  BY <1>4, <1>6, LooksOld DEF SameFile
<1>7. CASE SameFile(m.detail[id], e.detail[id]) /\ Lines(e, m)
  BY <1>4, <1>7, LooksNew
<1>8. CASE m.detail[id] = d.detail[id] /\ Lines(e, m) /\ ~ SameFile(d.detail[id], e.detail[id])
  <2>1. /\ ItemAt(e, h, id) \in Item /\ ItemAt(e, h, id).detail
        /\ d.detail[id] # None /\ d.detail[id].title # ItemAt(e, h, id).title
    BY <1>1, <1>8 DEF SameFile
  <2>2. ItemAt(m, h, id) = ItemAt(e, h, id)
    BY <1>8, SameClaims
  <2>3. h \in Claims(m, id)
    BY <1>2, <2>1, <2>2, NoneAssumption DEF Claims
  <2>4. d.detail[id].title \in Titles
    <3>1. d.detail[id] \in DetailFile
      BY <2>1, DetailIs
    <3> QED
      BY <3>1 DEF DetailFile
  <2>5. ItemAt(e, h, id).title \in Titles
    BY <2>1, ItemFields
  <2> QED
    BY <1>2, <1>8, <2>1, <2>2, <2>3, <2>4, <2>5, IsRetitled
<1> QED
  BY <1>5, <1>6, <1>7, <1>8 DEF SameFile

\* A new detail file that is there before the line which claims it.
LEMMA NewFileIsLoud ==
  ASSUME NEW d, NEW e, NEW m, NEW id \in Ids, Lines(d, m), m.detail[id] # None,
         d.board.item[id] # None => ~ d.board.item[id].detail,
         d.done[id] # None => d.board.item[id] # None \/ ~ d.done[id].detail
  PROVE  Loudly(d, e, m, id)
<1>1. CASE d.board.item[id] # None /\ d.done[id] # None
  <2>1. m.board.item[id] # None /\ m.done[id] # None
    BY <1>1 DEF Lines
  <2> QED
    BY <2>1, IsTwice
<1>2. CASE d.board.item[id] = None \/ d.done[id] = None
  <2>1. Claims(d, id) = {}
    BY <1>2 DEF Claims, ItemAt
  <2>2. Claims(m, id) = {}
    BY <2>1, SameClaims
  <2> QED
    BY <2>2, IsOrphan
<1> QED
  BY <1>1, <1>2

\* --note: the file first, and nobody's in between when it is new.
LEMMA NotesLoudly ==
  ASSUME NEW d \in Dir, Grouped(d.board), NEW id \in Ids, NEW note \in Notes,
         NEW x \in Note(d, id, note), NEW m \in Dir, Torn(d, x, m)
  PROVE  Loudly(d, x.dir, m, id)
<1> DEFINE e == x.dir
           h == Home(d, id)
<1>1. /\ h # None /\ EditsTo(d, e, id, 0) /\ OtherFile(d, e, id) /\ e.detail[id] # None
      /\ \/ /\ e.board = d.board /\ e.done = d.done
            /\ d.detail[id] # None /\ e.detail[id].title = d.detail[id].title
         \/ d.detail[id] = None /\ ~ ItemAt(d, h, id).detail
  BY NoteSound, 0 \in Nat
<1>2. Same(d, e, id)
  BY <1>1 DEF EditsTo, InPlace
<1>3. x.files = <<DetailName(id), File(h)>>
  BY <1>1 DEF Note, Result
<1>4. Parts(d, e, m, id)
  BY <1>2, TornParts DEF Same
<1>5. \/ m.detail[id] = e.detail[id] /\ (Lines(d, m) \/ Lines(e, m))
      \/ m.detail[id] = d.detail[id] /\ Lines(d, m)
  BY <1>1, <1>3, <1>4, DetailFirst
<1>6. CASE SameFile(m.detail[id], d.detail[id]) /\ Lines(d, m)
  BY <1>4, <1>6, LooksOld
<1>7. CASE m.detail[id] = e.detail[id] /\ Lines(e, m)
  BY <1>4, <1>7, LooksNew DEF SameFile
<1>8. CASE m.detail[id] = e.detail[id] /\ Lines(d, m) /\ ~ SameFile(e.detail[id], d.detail[id])
  <2>1. ~ ItemAt(d, h, id).detail
    BY <1>1, <1>8 DEF SameFile
  <2>2. /\ d.board.item[id] # None => ~ d.board.item[id].detail
        /\ d.done[id] # None => d.board.item[id] # None \/ ~ d.done[id].detail
    BY <2>1, <1>1, NoneAssumption DEF Home, ItemAt
  <2> QED
    BY <1>1, <1>8, <2>2, NewFileIsLoud
<1> QED
  BY <1>5, <1>6, <1>7, <1>8 DEF SameFile

\* What --finish stages comes in this order.
LEMMA InThisOrder ==
  ASSUME NEW d, NEW x, NEW m, NEW id \in Ids, Torn(d, x, m),
         x.files = <<DetailName(id), DoneMd, BoardMd>>
  PROVE  /\ m.done # d.done => m.detail[id] = x.dir.detail[id]
         /\ m.board # d.board => m.done = x.dir.done /\ m.detail[id] = x.dir.detail[id]
<1> DEFINE g == DetailName(id)
           s == x.files
<1>1. \A a : /\ Content(a, BoardMd) = a.board /\ Content(a, DoneMd) = a.done
             /\ Content(a, g) = a.detail[id]
  BY DEF Content, BoardMd, DoneMd, File, DetailName
<1>2. g \in Details /\ g # DoneMd /\ g # BoardMd /\ DoneMd # BoardMd
  BY Names DEF Details
<1> HIDE DEF g
<1>3. s = <<g, DoneMd, BoardMd>>
  BY DEF g
<1>4. /\ 1 \in 1..Len(s) /\ 2 \in 1..Len(s) /\ s[1] = g /\ s[2] = DoneMd
      /\ \A k \in 1..Len(s) : (k = 1 /\ s[k] = g) \/ (k = 2 /\ s[k] = DoneMd) \/ (k = 3 /\ s[k] = BoardMd)
  BY <1>3
<1>5. Before(s, g, DoneMd) /\ Before(s, g, BoardMd) /\ Before(s, DoneMd, BoardMd)
  BY <1>2, <1>4 DEF Before
<1>6. \A i \in 1..Len(x.files), h \in Main \cup Details :
        Before(x.files, x.files[i], h) /\ Content(m, h) # Content(d, h) =>
          Content(m, x.files[i]) = Content(x.dir, x.files[i])
  BY DEF Torn
<1>7. DoneMd \in Main \cup Details /\ BoardMd \in Main \cup Details
  BY DEF Main
<1>8. Content(m, DoneMd) # Content(d, DoneMd) => Content(m, g) = Content(x.dir, g)
  BY <1>4, <1>5, <1>6, <1>7
<1>9. Content(m, BoardMd) # Content(d, BoardMd) =>
        Content(m, g) = Content(x.dir, g) /\ Content(m, DoneMd) = Content(x.dir, DoneMd)
  BY <1>4, <1>5, <1>6, <1>7
<1> QED
  BY <1>1, <1>8, <1>9

\* --finish: the notes, the closed line, the line that goes; the item is in
\* both files in between.
LEMMA FinishesLoudly ==
  ASSUME NEW d \in Dir, Grouped(d.board), NEW id \in Ids, NEW note \in Notes \cup {None},
         NEW x \in finishV2(d, id, note), NEW m \in Dir, Torn(d, x, m)
  PROVE  Loudly(d, x.dir, m, id)
<1> DEFINE e == x.dir
<1>1. /\ Same(d, e, id) /\ d.board.item[id] # None /\ e.done[id] # None
      /\ \E f \in IF note = None THEN {d} ELSE preserveNotes(d, "board", id, note) : e.detail = f.detail
  <2>1. /\ Finished(d, x, id)
        /\ \E f \in IF note = None THEN {d} ELSE preserveNotes(d, "board", id, note) : x.dir.detail = f.detail
    BY FinishSound
  <2>2. Same(d, x.dir, id) /\ d.board.item[id] # None /\ x.dir.done[id] # None
    BY <2>1 DEF Finished
  <2> QED
    BY <2>1, <2>2
<1>2. Home(d, id) = "board" /\ d.done[id] = None
  BY DEF finishV2
<1>3. \/ SameFile(e.detail[id], d.detail[id])
      \/ e.detail[id] # None /\ ~ d.board.item[id].detail
  <2>1. CASE note = None
    BY <1>1, <2>1 DEF SameFile
  <2>2. CASE note # None
    <3>1. PICK f \in preserveNotes(d, Home(d, id), id, note) : e.detail = f.detail
      BY <1>1, <1>2, <2>2
    <3>2. /\ f.detail[id] # None
          /\ \/ d.detail[id] # None /\ f.detail[id].title = d.detail[id].title
             \/ ~ ItemAt(d, Home(d, id), id).detail
      BY <1>2, <2>2, NoneAssumption, PreserveNotesSound, 0 \in Nat
    <3> QED
      BY <1>2, <3>1, <3>2 DEF ItemAt, SameFile
  <2> QED
    BY <2>1, <2>2
<1>4. x.files = <<DetailName(id), DoneMd, BoardMd>>
  <2>1. \E f : x = Result(f, <<DetailName(id), File("done"), File("board")>>, <<>>, {})
    BY Zenon DEF finishV2
  <2> QED
    BY <2>1 DEF Result, DoneMd, BoardMd
<1>5. Parts(d, e, m, id)
  BY <1>1, TornParts DEF Same
<1>6. /\ m.done # d.done => m.detail[id] = e.detail[id]
      /\ m.board # d.board => m.done = e.done /\ m.detail[id] = e.detail[id]
  BY <1>4, InThisOrder
<1>7. CASE m.board # d.board
  <2>1. Lines(e, m)
    BY <1>5, <1>6, <1>7 DEF Parts, Lines
  <2> QED
    BY <1>5, <1>6, <1>7, <2>1, LooksNew DEF SameFile
<1>8. CASE m.board = d.board /\ m.done # d.done
  <2>1. m.board.item[id] # None /\ m.done[id] # None
    BY <1>1, <1>5, <1>8 DEF Parts
  <2> QED
    BY <2>1, IsTwice
<1>9. CASE m.board = d.board /\ m.done = d.done
  <2>1. Lines(d, m)
    BY <1>9 DEF Lines
  <2>2. CASE SameFile(m.detail[id], d.detail[id])
    BY <1>5, <2>1, <2>2, LooksOld
  <2>3. CASE ~ SameFile(m.detail[id], d.detail[id])
    <3>1. m.detail[id] = e.detail[id]
      BY <1>5, <2>3 DEF Parts, SameFile
    <3>2. m.detail[id] # None /\ ~ d.board.item[id].detail
      BY <1>3, <2>3, <3>1
    <3> QED
      BY <1>2, <2>1, <3>2, NewFileIsLoud
  <2> QED
    BY <2>2, <2>3
<1> QED
  BY <1>7, <1>8, <1>9

\* --add: the notes of the item first, nobody's in between.
LEMMA AddsLoudly ==
  ASSUME NEW d \in Dir, Grouped(d.board), Fresh(d.board), NEW req \in AddRequest, NEW today \in Nat,
         NEW x \in addV2(d, req, today), Commits(d, x), NEW m \in Dir, Torn(d, x, m)
  PROVE  Loudly(d, x.dir, m, d.board.next)
<1> DEFINE e == x.dir
           id == d.board.next
<1>1. id \in Ids /\ id \in Nat /\ d.board.item[id] = None
  <2>1. id \in Ids /\ id \in Nat
    BY DirFields, IdsAreNumbers
  <2> QED
    BY <2>1 DEF Fresh
<1>2. /\ e \in Dir /\ e.done = d.done /\ x.accepts = {} /\ e.board.item[id] # None
      /\ \A y \in Ids \ {id} : e.detail[y] = d.detail[y]
      /\ IF req.body = {} THEN e.detail = d.detail ELSE e.detail[id] # None
  BY AddSound DEF Added
<1>3. Parts(d, e, m, id)
  BY <1>1, <1>2, TornParts
<1>4. d.done[id] = None
  <2> HIDE DEF id
  <2>1. x.accepts \subseteq {<<"I9 orphan", id>>}
    BY <1>2, Zenon
  <2>2. id \in Ids /\ d.board.item[id] = None /\ x.dir.board.item[id] # None
    BY <1>1, <1>2
  <2>3. x.dir.done[id] = None
    BY <2>1, <2>2, NoneTwice, Zenon
  <2> QED
    BY <1>2, <2>3
<1>5. Lines(d, m) \/ Lines(e, m)
  BY <1>2, <1>3 DEF Parts, Lines
<1>6. Lines(d, m) \/ m.detail[id] = e.detail[id]
  <2>1. CASE req.body = {}
    BY <1>2, <1>3, <2>1 DEF Parts
  <2>2. CASE req.body # {}
    <3> DEFINE g == DetailName(id)
               s == x.files
    <3>1. s = <<g, BoardMd>>
      <4>1. \E f : x = Result(f, <<DetailName(id), File("board")>>, <<>>, {})
        BY <2>2, Zenon DEF addV2
      <4> QED
        BY <4>1 DEF Result, BoardMd
    <3>2. /\ Content(m, BoardMd) = m.board /\ Content(d, BoardMd) = d.board
          /\ Content(m, g) = m.detail[id] /\ Content(e, g) = e.detail[id]
      BY DEF Content, BoardMd, File, DetailName
    <3>3. g # BoardMd
      BY <1>1, Names DEF Details
    <3> HIDE DEF g
    <3>4. 1 \in 1..Len(s) /\ s[1] = g /\ Before(s, g, BoardMd)
      <4>1. \A k \in 1..Len(s) : (k = 1 /\ s[k] = g) \/ (k = 2 /\ s[k] = BoardMd)
        BY <3>1
      <4> QED
        BY <3>1, <3>3, <4>1 DEF Before
    <3>5. Content(m, BoardMd) # Content(d, BoardMd) => Content(m, g) = Content(e, g)
      <4>1. \A i \in 1..Len(x.files), h \in Main \cup Details :
              Before(x.files, x.files[i], h) /\ Content(m, h) # Content(d, h) =>
                Content(m, x.files[i]) = Content(x.dir, x.files[i])
        BY DEF Torn
      <4>2. BoardMd \in Main \cup Details
        BY DEF Main
      <4> QED
        BY <3>4, <4>1, <4>2
    <3> QED
      BY <1>2, <1>3, <3>2, <3>5 DEF Parts, Lines
  <2> QED
    BY <2>1, <2>2
<1>7. CASE m.detail[id] = e.detail[id] /\ Lines(e, m)
  BY <1>3, <1>7, LooksNew DEF SameFile
<1>8. CASE m.detail[id] = d.detail[id] /\ Lines(d, m)
  BY <1>3, <1>8, LooksOld DEF SameFile
<1>9. CASE m.detail[id] = e.detail[id] /\ Lines(d, m) /\ m.detail[id] # d.detail[id]
  <2>1. m.detail[id] # None
    BY <1>2, <1>9
  <2> QED
    BY <1>1, <1>4, <1>9, <2>1, NewFileIsLoud
<1> QED
  BY <1>3, <1>5, <1>6, <1>7, <1>8, <1>9 DEF Parts

\* Each call's.
LEMMA ResultIsLoud ==
  ASSUME NEW d \in Dir, Grouped(d.board), Fresh(d.board), NEW r \in Call, NEW x \in Results(d, r),
         Commits(d, x), NEW m \in Dir, Torn(d, x, m)
  PROVE  Loudly(d, x.dir, m, IF r.op = "add" THEN d.board.next ELSE r.id)
<1> DEFINE note == CHOOSE n \in Notes : TRUE
<1>0. note \in Notes
  BY StoreTxAssumption
<1>1. CASE r.op = "list"
  <2>1. x.dir = d
    BY <1>1 DEF Results, Result
  <2> DEFINE id == d.board.next
  <2>2. id \in Ids /\ \A y \in Ids \ {id} : x.dir.detail[y] = d.detail[y]
    BY <2>1, DirFields
  <2>3. Parts(d, x.dir, m, id)
    BY <2>1, <2>2, TornParts
  <2>4. m.board = d.board /\ m.done = d.done /\ \A y \in Ids : m.detail[y] = d.detail[y]
    BY <2>1, <2>3 DEF Parts
  <2>5. Shape(m) = Shape(d)
    BY <2>4, SameShape DEF SameFile
  <2> QED
    BY <2>5 DEF Loudly
<1>2. CASE r.op = "add"
  <2>1. NewRequest(r.option) \in AddRequest /\ x \in addV2(d, NewRequest(r.option), 1)
    BY <1>2, CallIs, NewRequestIs DEF Results
  <2>2. Loudly(d, x.dir, m, d.board.next)
    BY <2>1, AddsLoudly, 1 \in Nat
  <2> QED
    BY <1>2, <2>2
<1>3. CASE r.op = "finish"
  <2>1. r.id \in Ids /\ x \in finishV2(d, r.id, IF r.option THEN note ELSE None)
    BY <1>3, CallIs DEF Results
  <2>2. (IF r.option THEN note ELSE None) \in Notes \cup {None}
    BY <1>0
  <2>3. Loudly(d, x.dir, m, r.id)
    BY <2>1, <2>2, FinishesLoudly
  <2> QED
    BY <1>3, <2>3
<1>4. CASE r.op = "remove"
  <2>1. x \in removeInternal(d, r.id, r.option) /\ r.id \in Ids /\ r.option \in BOOLEAN
    BY <1>4, CallIs DEF Results
  <2> QED
    BY <1>4, <2>1, RemovesLoudly
<1>5. CASE r.op = "note"
  <2>1. x \in Note(d, r.id, note) /\ r.id \in Ids
    BY <1>5, CallIs DEF Results
  <2> QED
    BY <1>0, <1>5, <2>1, NotesLoudly
<1>6. CASE r.op = "attach"
  <2>1. x \in AttachDetail(d, r.id, {}) /\ r.id \in Ids
    BY <1>6, CallIs DEF Results
  <2>2. {} \in SUBSET Notes
    OBVIOUS
  <2> QED
    BY <1>6, <2>1, <2>2, AttachesLoudly
<1>7. CASE r.op = "detach"
  <2>1. x \in DetachDetail(d, r.id, r.option) /\ r.id \in Ids /\ r.option \in BOOLEAN
    BY <1>7, CallIs DEF Results
  <2> QED
    BY <1>7, <2>1, DetachesLoudly
<1>8. CASE r.op = "edit"
  <2> DEFINE u == [field |-> "title", value |-> Retitle(d, r.id)]
  <2>1. Home(d, r.id) # None /\ x \in Update(d, r.id, u, 1) /\ r.id \in Ids
    BY <1>8, CallIs DEF Results
  <2>2. u \in FieldUpdate
    BY <2>1, RetitleIs
  <2> HIDE DEF u
  <2>3. Loudly(d, x.dir, m, r.id)
    BY <2>1, <2>2, EditsLoudly, 1 \in Nat
  <2> QED
    BY <1>8, <2>3
<1> QED
  BY <1>1, <1>2, <1>3, <1>4, <1>5, <1>6, <1>7, <1>8, CallIs

\* tx.go: "an interruption fails validation loudly": what half a transaction
\* leaves is as before, as after, or something --check reports of its item.
THEOREM TornTransactionsAreLoud == Spec => []TornIsLoud
<1>1. Kept /\ AuditNeverAhead => TornIsLoud
  <2> SUFFICES ASSUME Kept, NEW w \in Workers, Changing(w)
               PROVE  Loudly(DirOf(copy[w]), DirOf(plan[w].target), DirOf(content),
                             IF request[w].op = "add" THEN DirOf(copy[w]).board.next ELSE request[w].id)
    BY DEF TornIsLoud, Loudly
  <2> DEFINE d == DirOf(copy[w])
             m == DirOf(content)
             r == request[w]
  <2>1. PICK x \in Results(d, r) :
          Commits(d, x) /\ x.dir = DirOf(plan[w].target) /\ Torn(d, x, m)
    BY HalfDone
  <2>2. d \in Dir /\ Grouped(d.board) /\ Fresh(d.board)
    <3>1. Legal(copy[w])
      BY ChangingWrites DEF Planned
    <3> QED
      BY <3>1, DirOfIs DEF Legal
  <2>3. m \in Dir
    BY DEF Kept, Legal
  <2>4. r \in Call
    BY Asked DEF Kept, InCall
  <2> HIDE DEF d, m, r
  <2>5. Loudly(d, x.dir, m, IF r.op = "add" THEN d.board.next ELSE r.id)
    BY <2>1, <2>2, <2>3, <2>4, ResultIsLoud
  <2> QED
    BY <2>1, <2>5 DEF d, m, r
<1> QED
  BY <1>1, LogComesLast, StoreInvariant, PTL

-----------------------------------------------------------------------------
(* The duplicate an interrupted --finish leaves.                           *)

\* A stage's run as a set.
LEMMA RunSet ==
  ASSUME NEW b \in BoardFile, NEW s \in StageSet, NEW x
  PROVE  x \in ToSet(b.run[s]) <=> Contains(b.run[s], x)
<1>1. b.run[s] \in Seq(Ids)
  BY DEF BoardFile
<1>2. DOMAIN b.run[s] = 1..Len(b.run[s])
  BY <1>1
<1> QED
  BY <1>2 DEF ToSet, Contains

\* The stages that need a reason are stages.
LEMMA ReasonStages == \A s \in ToSet(NeedsReason) : s \in StageSet
<1>1. NeedsReason \in Seq(StageSet)
  BY DirectoryAssumption
<1> QED
  BY <1>1 DEF ToSet

\* e is d without the board's copy of an item that done.md has too.
Single(d, e, id) ==
  /\ d \in Dir /\ e \in Dir /\ id \in Ids
  /\ d.board.item[id] # None /\ d.done[id] # None /\ id < d.board.next
  /\ e.done = d.done /\ e.detail = d.detail /\ e.board.next = d.board.next
  /\ \A x \in Ids : e.board.item[x] = IF x = id THEN None ELSE d.board.item[x]
  /\ \A s \in StageSet, x \in Ids : Contains(e.board.run[s], x) <=> Contains(d.board.run[s], x) /\ x # id
  /\ \A x \in Ids : e.board.item[x] # None => StageOf(e.board, x) = StageOf(d.board, x)

\* RemoveItem leaves such a directory.
LEMMA SingleIs ==
  ASSUME NEW d \in Dir, Grouped(d.board), Fresh(d.board), NEW id \in Ids,
         d.board.item[id] # None, d.done[id] # None,
         NEW e, e = PutBoard(d, RemoveItem(d.board, id))
  PROVE  Single(d, e, id)
<1> DEFINE b == RemoveItem(d.board, id)
<1>1. d.board \in BoardFile /\ d.board.next \in Nat /\ id \in Nat
  BY DirFields, IdsAreNumbers
<1>2. /\ b \in BoardFile /\ Grouped(b) /\ b.next = d.board.next
      /\ \A x \in Ids : b.item[x] = IF x = id THEN None ELSE d.board.item[x]
      /\ \A s \in StageSet, x \in Ids : Contains(b.run[s], x) <=> Contains(d.board.run[s], x) /\ x # id
  BY <1>1, RemoveItemSound
<1> HIDE DEF b
<1>3. e \in Dir /\ e.board = b /\ e.done = d.done /\ e.detail = d.detail
  BY <1>2, WithBoard DEF b
<1>4. ASSUME NEW x \in Ids, b.item[x] # None PROVE StageOf(b, x) = StageOf(d.board, x)
  <2>1. x # id /\ d.board.item[x] # None
    BY <1>2, <1>4
  <2>2. StageOf(b, x) \in StageSet /\ Contains(b.run[StageOf(b, x)], x)
    BY <1>2, <1>4, StageIsOne
  <2>3. Contains(d.board.run[StageOf(b, x)], x)
    BY <1>2, <2>2
  <2> QED
    BY <1>1, <2>1, <2>2, <2>3, StageIsOne
<1>5. id < d.board.next
  BY <1>1 DEF Fresh
<1> QED
  BY <1>2, <1>3, <1>4, <1>5 DEF Single

\* What --check says of it is what it said before, but for the detail file the
\* board's copy alone laid claim to.
LEMMA SingleIDs == ASSUME NEW d, NEW e, NEW id, Single(d, e, id) PROVE checkIDs(e) \subseteq checkIDs(d)
<1> SUFFICES ASSUME NEW v \in checkIDs(e) PROVE v \in checkIDs(d)
  OBVIOUS
<1>1. \/ \E x \in Ids : v = <<"I1", x>> /\ e.board.item[x] # None /\ e.done[x] # None
      \/ \E x \in Ids : v = <<"I2", Home(e, x), x>> /\ Home(e, x) # None /\ x >= e.board.next
  BY DEF checkIDs
<1>2. ASSUME NEW x \in Ids, v = <<"I1", x>>, e.board.item[x] # None, e.done[x] # None
      PROVE  v \in checkIDs(d)
  <2>1. d.board.item[x] # None /\ d.done[x] # None
    BY <1>2 DEF Single
  <2> QED
    BY <1>2, <2>1 DEF checkIDs
<1>3. ASSUME NEW x \in Ids, v = <<"I2", Home(e, x), x>>, Home(e, x) # None, x >= e.board.next
      PROVE  v \in checkIDs(d)
  <2>1. x # id
    <3>1. d.board.next \in Nat /\ id \in Nat /\ id < d.board.next /\ e.board.next = d.board.next
      BY DirFields, IdsAreNumbers DEF Single
    <3> QED
      BY <1>3, <3>1
  <2>2. Home(e, x) = Home(d, x) /\ e.board.next = d.board.next
    BY <2>1 DEF Single, Home
  <2> QED
    BY <1>3, <2>2 DEF checkIDs
<1> QED
  BY <1>1, <1>2, <1>3

\* Nor does the checker find anything new on the board,
LEMMA SingleBoard == ASSUME NEW d, NEW e, NEW id, Single(d, e, id) PROVE checkBoard(e) \subseteq checkBoard(d)
<1> SUFFICES ASSUME NEW v \in checkBoard(e) PROVE v \in checkBoard(d)
  OBVIOUS
<1>0. d.board \in BoardFile /\ e.board \in BoardFile /\ "working" \in StageSet
  BY DirFields, DirectoryAssumption DEF Single
<1>1. \/ \E s \in ToSet(NeedsReason) : \E x \in ToSet(e.board.run[s]) :
           ~ e.board.item[x]["reason"] /\ v = <<"I5", x>>
      \/ \E x \in ToSet(e.board.run["working"]) :
           ~ e.board.item[x]["started"] /\ v = <<"I7 started", x>>
  BY DEF checkBoard
<1>2. ASSUME NEW s \in StageSet, NEW x \in ToSet(e.board.run[s])
      PROVE  x \in ToSet(d.board.run[s]) /\ d.board.item[x] = e.board.item[x]
  <2>1. x \in Ids
    <3>1. e.board.run[s] \in Seq(Ids)
      BY <1>0 DEF BoardFile
    <3> QED
      BY <3>1 DEF ToSet
  <2>2. Contains(e.board.run[s], x)
    BY <1>0, <1>2, RunSet
  <2>3. Contains(d.board.run[s], x) /\ x # id
    BY <2>1, <2>2 DEF Single
  <2>4. e.board.item[x] = d.board.item[x]
    BY <2>1, <2>3 DEF Single
  <2> QED
    BY <1>0, <2>3, <2>4, RunSet
<1>3. ASSUME NEW s \in ToSet(NeedsReason), NEW x \in ToSet(e.board.run[s]),
             ~ e.board.item[x]["reason"], v = <<"I5", x>>
      PROVE  v \in checkBoard(d)
  <2>1. x \in ToSet(d.board.run[s]) /\ ~ d.board.item[x]["reason"]
    BY <1>2, <1>3, ReasonStages
  <2> QED
    BY <1>3, <2>1 DEF checkBoard
<1>4. ASSUME NEW x \in ToSet(e.board.run["working"]),
             ~ e.board.item[x]["started"], v = <<"I7 started", x>>
      PROVE  v \in checkBoard(d)
  <2>1. x \in ToSet(d.board.run["working"]) /\ ~ d.board.item[x]["started"]
    BY <1>0, <1>2, <1>4
  <2> QED
    BY <1>4, <2>1 DEF checkBoard
<1> QED
  BY <1>1, <1>3, <1>4

\* nor about schedules,
LEMMA SingleTickler ==
  ASSUME NEW d, NEW e, NEW id, Single(d, e, id) PROVE checkTicklerV2(e) \subseteq checkTicklerV2(d)
<1> DEFINE source(a, c) == c[1] = "board" /\ StageOf(a.board, c[2]) \in DOMAIN TicklerStages
           it(a, c) == ItemAt(a, c[1], c[2])
<1> SUFFICES ASSUME NEW v \in checkTicklerV2(e) PROVE v \in checkTicklerV2(d)
  OBVIOUS
<1>1. \A a : checkTicklerV2(a) =
        {<<"I7 paused", c>> : c \in {c \in Copies(a) : it(a, c).paused /\ it(a, c).tickler = None}}
        \cup {<<"I7 tickler", c>> : c \in {c \in Copies(a) : it(a, c).tickler # None /\ ~ source(a, c)}}
        \cup {<<"I7 created", c>> : c \in {c \in Copies(a) : it(a, c).tickler # None /\ it(a, c).created = 0}}
  BY DEF checkTicklerV2
<1>2. ASSUME NEW c \in Copies(e)
      PROVE  c \in Copies(d) /\ it(d, c) = it(e, c) /\ (source(d, c) <=> source(e, c))
  <2>1. c \in {"board", "done"} \X Ids /\ ItemAt(e, c[1], c[2]) # None
    BY DEF Copies
  <2>2. c[1] \in {"board", "done"} /\ c[2] \in Ids
    BY <2>1
  <2>3. CASE c[1] = "board"
    <3>1. e.board.item[c[2]] # None
      BY <2>1, <2>3 DEF ItemAt
    <3>2. d.board.item[c[2]] = e.board.item[c[2]] /\ StageOf(e.board, c[2]) = StageOf(d.board, c[2])
      BY <2>2, <3>1 DEF Single
    <3> QED
      BY <2>1, <2>3, <3>2 DEF Copies, ItemAt
  <2>4. CASE c[1] = "done"
    <3>1. e.done = d.done
      BY DEF Single
    <3> QED
      BY <2>1, <2>4, <3>1 DEF Copies, ItemAt
  <2> QED
    BY <2>2, <2>3, <2>4
<1> HIDE DEF source, it
<1> QED
  BY <1>1, <1>2

\* nor in details/, but for the file of the item that lost its line.
LEMMA SingleDetails ==
  ASSUME NEW d, NEW e, NEW id, Single(d, e, id), NEW v \in checkDetails(e)
  PROVE  \/ v \in checkDetails(d)
         \/ v = <<"I9 orphan", id>> /\ d.board.item[id].detail /\ d.detail[id] # None
<1>1. e.detail = d.detail /\ e.done = d.done /\ id \in Ids
  BY DEF Single
<1>2. ASSUME NEW x \in Ids, x # id PROVE Claims(e, x) = Claims(d, x) /\ \A h : ItemAt(e, h, x) = ItemAt(d, h, x)
  BY <1>2 DEF Single, Claims, ItemAt
<1>3. /\ Claims(e, id) = Claims(d, id) \ {"board"} /\ \A h : h # "board" => ItemAt(e, h, id) = ItemAt(d, h, id)
      /\ "board" \in Claims(d, id) => d.board.item[id].detail
  BY DEF Single, Claims, ItemAt
<1>4. /\ Claims(e, id) \subseteq {"done"}
      /\ \A x \in Ids : Claims(e, x) \subseteq Claims(d, x)
      /\ \A x \in Ids : \A h \in Claims(e, x) : ItemAt(e, h, x) = ItemAt(d, h, x)
  BY <1>2, <1>3 DEF Claims
<1> DEFINE present(a) == {x \in Ids : a.detail[x] # None}
           missing(a, x) == {<<"I8", h, x>> : h \in Claims(a, x)}
           titles(a, x) == {<<"I9 title", x, a.detail[x].title, ItemAt(a, h, x).title>> :
                              h \in {k \in Claims(a, x) : ItemAt(a, k, x).title # a.detail[x].title}}
           orphans(a) == {<<"I9 orphan", x>> : x \in {i \in present(a) : Claims(a, i) = {}}}
           claims(a) == {<<"I9 claims", x>> : x \in {i \in present(a) : Cardinality(Claims(a, i)) > 1}}
<1>5. \A a : checkDetails(a) =
        (UNION {missing(a, x) : x \in Ids \ present(a)}) \cup (UNION {titles(a, x) : x \in present(a)})
        \cup orphans(a) \cup claims(a)
  BY DEF checkDetails
<1>6. present(e) = present(d)
  BY <1>1
<1>7. \A x \in Ids : missing(e, x) \subseteq missing(d, x)
  BY <1>4
<1>8. \A x \in Ids : titles(e, x) \subseteq titles(d, x)
  BY <1>1, <1>4
<1>9. ASSUME v \in orphans(e)
      PROVE  v \in orphans(d) \/ (v = <<"I9 orphan", id>> /\ d.board.item[id].detail /\ d.detail[id] # None)
  <2>1. PICK x \in present(e) : Claims(e, x) = {} /\ v = <<"I9 orphan", x>>
    BY <1>9
  <2>2. CASE Claims(d, x) = {}
    BY <1>6, <2>1, <2>2
  <2>3. CASE Claims(d, x) # {}
    <3>1. x = id
      BY <1>2, <2>1, <2>3
    <3>2. "board" \in Claims(d, id)
      BY <1>3, <2>1, <2>3, <3>1
    <3> QED
      BY <1>1, <1>3, <2>1, <3>1, <3>2
  <2> QED
    BY <2>2, <2>3
<1>10. claims(e) \subseteq claims(d)
  <2> SUFFICES ASSUME NEW x \in present(e), Cardinality(Claims(e, x)) > 1
               PROVE  x \in present(d) /\ Cardinality(Claims(d, x)) > 1
    OBVIOUS
  <2>1. CASE x # id
    BY <1>2, <1>6, <2>1
  <2>2. CASE x = id
    <3>1. Claims(e, id) = {} \/ Claims(e, id) = {"done"}
      BY <1>4
    <3>2. Cardinality({}) = 0 /\ Cardinality({"done"}) = 1
      BY FS_EmptySet, FS_Singleton
    <3> QED
      BY <2>2, <3>1, <3>2
  <2> QED
    BY <2>1, <2>2
<1>11. \A x : x \in present(e) => x \in Ids
  OBVIOUS
<1> HIDE DEF present, missing, titles, orphans, claims
<1> QED
  BY <1>5, <1>6, <1>7, <1>8, <1>9, <1>10, <1>11

\* item.go's find() takes the board's copy of an item first, so --remove of a
\* duplicate takes that one, and the transaction passes its own check.
THEOREM DuplicatesHeal == Spec => []DuplicateHeals
<1>1. Kept => DuplicateHeals
  <2> SUFFICES ASSUME Kept, NEW id \in Ids, <<"I1", id>> \in validate(DirOf(content))
               PROVE  \E r \in removeInternal(DirOf(content), id, FALSE) :
                        Commits(DirOf(content), r) /\ Home(r.dir, id) = "done" /\ <<"I1", id>> \notin validate(r.dir)
    BY DEF DuplicateHeals
  <2> DEFINE d == DirOf(content)
             e == PutBoard(d, RemoveItem(d.board, id))
             lone == d.board.item[id].detail /\ d.detail[id] # None
             r == Result(e, <<File("board")>>, <<>>, IF lone THEN {<<"I9 orphan", id>>} ELSE {})
  <2>1. d \in Dir /\ Grouped(d.board) /\ Fresh(d.board)
    BY DirOfIs DEF Kept, Legal
  <2>2. d.board.item[id] # None /\ d.done[id] # None
    BY TwiceIs
  <2> HIDE DEF d
  <2>3. Home(d, id) = "board" /\ Home(d, id) # None
    BY <2>2, NoneAssumption DEF Home
  <2>4. r \in removeInternal(d, id, FALSE)
    <3>1. ItemAt(d, "board", id) = d.board.item[id]
      BY DEF ItemAt
    <3> QED
      BY <2>3, <3>1 DEF removeInternal, PutBoard
  <2> HIDE DEF e
  <2>5. Single(d, e, id)
    BY <2>1, <2>2, SingleIs DEF e
  <2>6. Commits(d, r)
    <3> SUFFICES ASSUME NEW v \in validate(e)
                 PROVE  v \in (IF lone THEN {<<"I9 orphan", id>>} ELSE {}) \/ v \in validate(d)
      BY DEF Commits, Result
    <3>1. /\ checkIDs(e) \subseteq checkIDs(d) /\ checkBoard(e) \subseteq checkBoard(d)
          /\ checkTicklerV2(e) \subseteq checkTicklerV2(d)
      BY <2>5, SingleIDs, SingleBoard, SingleTickler
    <3>2. v \in checkDetails(e) => v \in checkDetails(d) \/ (v = <<"I9 orphan", id>> /\ lone)
      BY <2>5, SingleDetails
    <3> HIDE DEF lone
    <3> QED
      BY <3>1, <3>2 DEF validate
  <2>7. Home(e, id) = "done"
    BY <2>2, <2>5, NoneAssumption DEF Single, Home
  <2>8. <<"I1", id>> \notin validate(e)
    BY <2>5, TwiceIs DEF Single
  <2>9. r.dir = e
    BY DEF Result
  <2> QED
    BY <2>4, <2>6, <2>7, <2>8, <2>9 DEF d
<1> QED
  BY <1>1, StoreInvariant, PTL

==============================================================================
