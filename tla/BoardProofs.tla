------------------------------ MODULE BoardProofs ------------------------------
(***************************************************************************)
(* What holds of a directory whatever its stages, its ids, the requests    *)
(* and updates it is asked for, and the runs that tick it: the checker has *)
(* nothing to say of it, every id handed out is accounted for and none is  *)
(* recycled, no stage overfills but by a pause, notes are kept, and a tick *)
(* fires an item at most once a day, for a day that was owed.              *)
(***************************************************************************)
EXTENDS Board, DirectoryProofs

-----------------------------------------------------------------------------
(* The invariant.                                                          *)

\* The values are well formed, and the checker is content with them.
Sound == TypeOK /\ Clean(dir)

\* An id given out that names nothing is one that --remove was called on.
Retired ==
  /\ \A id \in removed : id < dir.board.next
  /\ \A id \in Ids : id < dir.board.next => (Home(dir, id) = None <=> id \in removed)

\* What an item's fires and its schedule's pauses have to do with its line:
\* all are past, the line is stamped no earlier than the last fire and, once
\* the schedule is no longer paused, than the days it was.
Owed(it, fired, paused, day) ==
  /\ \A i \in 1..Len(fired) : fired[i] <= day
  /\ \A i \in 1..(Len(fired) - 1) : fired[i] < fired[i + 1]
  /\ \A e \in paused : e <= day
  /\ it = None \/ it.tickler = None => paused = {}
  /\ it # None =>
       /\ it.created <= day /\ it.tickled <= day
       /\ fired # <<>> => Last(fired) <= it.tickled
       /\ fired = <<>> /\ it.tickled # 0 => it.created <= it.tickled
       /\ it.tickler # None /\ ~ it.paused => \A e \in paused : e <= it.tickled

\* A run's date has come; only an item there has been was fired.
Timely ==
  /\ \A r \in Runners : runner[r] # None => runner[r].now <= today
  /\ \A id \in Ids : fires[id] # <<>> => id < dir.board.next
  /\ \A id \in Ids : Owed(dir.board.item[id], fires[id], pausedOn[id], today)

-----------------------------------------------------------------------------
(* What an operation that commits has done.                                *)

\* Each id that was given out names what it named, but for those that are
\* gone, and each id given out now names an item.
Legal(d, r, gone) ==
  /\ r.dir \in Dir /\ Grouped(r.dir.board)
  /\ d.board.next <= r.dir.board.next
  /\ Accepts(d, r)
  /\ \A x \in gone : x < d.board.next
  /\ \A x \in Ids : x < r.dir.board.next =>
       (Home(r.dir, x) = None <=> x \in gone \/ (x < d.board.next /\ Home(d, x) = None))

\* An item of the board counts its days from where it did, or is a new one.
Counts(d, e, day) ==
  \A x \in Ids : e.board.item[x] # None =>
    \/ /\ x < d.board.next
       /\ d.board.item[x] # None
       /\ Stamped(d.board.item[x], e.board.item[x], day)
    \/ /\ x >= d.board.next
       /\ e.board.item[x].created = day
       /\ e.board.item[x].tickled = 0

\* No update sets by hand the days that a schedule counts from.
Untimed == \A u \in Updates : u.field \notin {"created", "tickled"}

Does(d, r, gone, day) == Legal(d, r, gone) /\ (Untimed => Counts(d, r.dir, day))

\* The counter is a number, and an id of the grammar.
LEMMA Numbers ==
  ASSUME NEW d \in Dir
  PROVE  d.board.next \in Nat /\ d.board.next \in Ids
<1>1. d.board.next \in Ids
  BY DirFields
<1> QED
  BY <1>1, IdsAreNumbers

\* An item that is as it was has not been restamped.
LEMMA StampedReflexive ==
  ASSUME NEW it, NEW day
  PROVE  Stamped(it, it, day)
BY DEF Stamped

\* The orphan that an operation was asked to make is one that the checker may
\* report.
LEMMA OrphanAccepted ==
  ASSUME NEW d \in Dir, Clean(d), NEW id \in Ids, Home(d, id) # None,
         NEW r, r.accepts \subseteq {<<"I9 orphan", id>>}
  PROVE  Accepts(d, r)
<1>1. id < d.board.next
  BY CleanDirectory
<1> QED
  BY <1>1 DEF Accepts

\* An operation on one item.
LEMMA SameDoes ==
  ASSUME NEW d \in Dir, Grouped(d.board), Clean(d), NEW id \in Ids, Home(d, id) # None,
         NEW r, Same(d, r.dir, id), Accepts(d, r),
         NEW gone \in SUBSET {id}, Home(r.dir, id) = None <=> id \in gone, NEW day \in Nat,
         r.dir.board.item[id] # None => d.board.item[id] # None,
         Untimed => Timed(d, r.dir, id, day)
  PROVE  Does(d, r, gone, day)
<1>1. d.board.next \in Nat /\ r.dir.board.next = d.board.next /\ r.dir \in Dir /\ Grouped(r.dir.board)
  BY Numbers DEF Same
<1>2. id < d.board.next /\ Fresh(d.board)
  BY CleanDirectory
<1>4. \A x \in Ids \ {id} : Home(r.dir, x) = Home(d, x)
  BY DEF Same, Home
<1>5. Legal(d, r, gone)
  <2>1. ASSUME NEW x \in Ids, x < r.dir.board.next
        PROVE  Home(r.dir, x) = None <=> x \in gone \/ (x < d.board.next /\ Home(d, x) = None)
    <3>1. CASE x = id
      BY <3>1
    <3>2. CASE x # id
      BY <1>1, <1>4, <2>1, <3>2
    <3> QED
      BY <3>1, <3>2
  <2>2. d.board.next <= r.dir.board.next
    BY <1>1
  <2>3. \A x \in gone : x < d.board.next
    BY <1>2
  <2> QED
    BY <1>1, <2>1, <2>2, <2>3 DEF Legal
<1>6. ASSUME Untimed
      PROVE  Counts(d, r.dir, day)
  <2> SUFFICES ASSUME NEW x \in Ids, r.dir.board.item[x] # None
               PROVE  /\ x < d.board.next
                      /\ d.board.item[x] # None
                      /\ Stamped(d.board.item[x], r.dir.board.item[x], day)
    BY DEF Counts
  <2>1. CASE x = id
    BY <1>2, <1>6, <2>1 DEF Timed
  <2>2. CASE x # id
    <3>1. r.dir.board.item[x] = d.board.item[x]
      BY <2>2 DEF Same
    <3>2. Home(d, x) # None
      BY <3>1, NoneAssumption DEF Home
    <3> QED
      BY <3>1, <3>2, CleanDirectory, StampedReflexive
  <2> QED
    BY <2>1, <2>2
<1> QED
  BY <1>5, <1>6 DEF Does

\* A change of one item in its place does what Board asks of an operation.
LEMMA EditDoes ==
  ASSUME NEW d \in Dir, Grouped(d.board), Clean(d), NEW id \in Ids, Home(d, id) # None,
         NEW r, InPlace(d, r.dir, id), r.accepts \subseteq {<<"I9 orphan", id>>},
         NEW day \in Nat, Untimed => Timed(d, r.dir, id, day)
  PROVE  Does(d, r, {}, day)
<1>1. Same(d, r.dir, id) /\ (r.dir.board.item[id] # None => d.board.item[id] # None)
  BY DEF InPlace
<1>2. Home(r.dir, id) # None
  BY InPlaceHome
<1>3. Accepts(d, r)
  BY OrphanAccepted
<1> QED
  BY <1>1, <1>2, <1>3, SameDoes

\* So does a move to another stage.
LEMMA MovedDoes ==
  ASSUME NEW d \in Dir, Grouped(d.board), Clean(d), NEW id \in Ids, d.board.item[id] # None,
         NEW r, Moved(d, r, id), NEW day \in Nat, Timed(d, r.dir, id, day)
  PROVE  Does(d, r, {}, day)
<1>1. Same(d, r.dir, id) /\ r.dir.board.item[id] # None /\ r.accepts = {}
  BY DEF Moved
<1>2. Home(d, id) # None /\ Home(r.dir, id) # None
  BY <1>1, NoneAssumption DEF Home
<1>3. Accepts(d, r)
  BY <1>1 DEF Accepts
<1> QED
  BY <1>1, <1>2, <1>3, SameDoes

\* So do an add and a batch.
LEMMA AddedDoes ==
  ASSUME NEW d \in Dir, Grouped(d.board), Clean(d), NEW day \in Nat, NEW r, Added(d, r, day)
  PROVE  Does(d, r, {}, day)
<1>1. /\ r.dir \in Dir /\ Grown(d.board, r.dir.board, day) /\ r.dir.done = d.done /\ r.accepts = {}
  BY DEF Added
<1>2. /\ Grouped(r.dir.board) /\ Fresh(r.dir.board) /\ d.board.next <= r.dir.board.next
      /\ \A x \in Ids : x < d.board.next => r.dir.board.item[x] = d.board.item[x]
      /\ \A x \in Ids : x >= d.board.next /\ x < r.dir.board.next =>
           r.dir.board.item[x] # None /\ r.dir.board.item[x].created = day /\ r.dir.board.item[x].tickled = 0
  BY <1>1 DEF Grown
<1>3. d.board.next \in Nat /\ r.dir.board.next \in Nat
  BY <1>1, Numbers
<1>4. \A x \in Ids : x < d.board.next \/ x >= d.board.next
  BY <1>3, IdsAreNumbers
<1>5. \A x \in Ids : x < d.board.next => Home(r.dir, x) = Home(d, x)
  BY <1>1, <1>2 DEF Home
<1>6. \A x \in Ids : x >= d.board.next /\ x < r.dir.board.next => Home(r.dir, x) # None
  BY <1>2, NoneAssumption DEF Home
<1>n. \A x \in Ids : x >= d.board.next => ~ (x < d.board.next)
  BY <1>3, IdsAreNumbers
<1>7. Legal(d, r, {})
  <2>1. Accepts(d, r)
    BY <1>1 DEF Accepts
  <2> QED
    BY <1>1, <1>2, <1>4, <1>5, <1>6, <1>n, <2>1 DEF Legal
<1>8. Counts(d, r.dir, day)
  <2> SUFFICES ASSUME NEW x \in Ids, r.dir.board.item[x] # None
               PROVE  \/ /\ x < d.board.next
                         /\ d.board.item[x] # None
                         /\ Stamped(d.board.item[x], r.dir.board.item[x], day)
                      \/ /\ x >= d.board.next
                         /\ r.dir.board.item[x].created = day
                         /\ r.dir.board.item[x].tickled = 0
    BY DEF Counts
  <2>1. CASE x < d.board.next
    BY <1>2, <2>1, StampedReflexive
  <2>2. CASE x >= d.board.next
    <3>1. x < r.dir.board.next
      BY <1>2, <1>3, IdsAreNumbers DEF Fresh
    <3> QED
      BY <1>2, <2>2, <3>1
  <2> QED
    BY <1>4, <2>1, <2>2
<1> QED
  BY <1>7, <1>8 DEF Does

\* A fire hands out ids as an addition does; its stamp is its own.
LEMMA FiredIsLegal ==
  ASSUME NEW d \in Dir, Grouped(d.board), Clean(d), NEW id \in Ids, d.board.item[id] # None,
         NEW now, NEW r, Fired(d, r, id, now)
  PROVE  Legal(d, r, {})
<1>1. /\ r.dir \in Dir /\ Grouped(r.dir.board) /\ r.dir.done = d.done /\ r.accepts = {}
      /\ d.board.next <= r.dir.board.next
      /\ \A x \in Ids \ {id} : x < d.board.next => r.dir.board.item[x] = d.board.item[x]
      /\ \A x \in Ids : x >= d.board.next /\ x < r.dir.board.next => r.dir.board.item[x] # None
      /\ r.dir.board.item[id] # None
  BY DEF Fired
<1>2. d.board.next \in Nat /\ r.dir.board.next \in Nat
  BY <1>1, Numbers
<1>3. \A x \in Ids : /\ x < d.board.next \/ x >= d.board.next
                     /\ x >= d.board.next => ~ (x < d.board.next)
  BY <1>2, IdsAreNumbers
<1>4. \A x \in Ids \ {id} : x < d.board.next => Home(r.dir, x) = Home(d, x)
  BY <1>1 DEF Home
<1>5. \A x \in Ids : x >= d.board.next /\ x < r.dir.board.next => Home(r.dir, x) # None
  BY <1>1, NoneAssumption DEF Home
<1>6. Home(r.dir, id) # None /\ Home(d, id) # None
  BY <1>1, NoneAssumption DEF Home
<1>7. Accepts(d, r)
  BY <1>1 DEF Accepts
<1>8. ASSUME NEW x \in Ids, x < r.dir.board.next
      PROVE  Home(r.dir, x) = None <=> x < d.board.next /\ Home(d, x) = None
  <2>1. CASE x = id
    BY <1>6, <2>1
  <2>2. CASE x # id
    BY <1>3, <1>4, <1>5, <1>8, <2>2
  <2> QED
    BY <2>1, <2>2
<1> QED
  BY <1>1, <1>7, <1>8 DEF Legal

\* So does a new cap: it changes nothing but itself.
LEMMA CapDoes ==
  ASSUME NEW d \in Dir, Grouped(d.board), Clean(d), NEW s \in StageSet, NEW n \in Nat,
         NEW r \in SetStageWipLimit(d, s, n), NEW day \in Nat
  PROVE  Does(d, r, {}, day)
<1>1. /\ r.dir \in Dir /\ Grouped(r.dir.board) /\ r.dir.board.item = d.board.item
      /\ r.dir.board.next = d.board.next /\ r.dir.done = d.done /\ r.accepts = {}
  BY SetCapSound
<1>2. d.board.next \in Nat
  BY Numbers
<1>3. \A x \in Ids : Home(r.dir, x) = Home(d, x)
  BY <1>1 DEF Home
<1>4. Legal(d, r, {})
  BY <1>1, <1>2, <1>3 DEF Legal, Accepts
<1>5. Counts(d, r.dir, day)
  <2> SUFFICES ASSUME NEW x \in Ids, d.board.item[x] # None
               PROVE  x < d.board.next /\ Stamped(d.board.item[x], d.board.item[x], day)
    BY <1>1 DEF Counts
  <2>1. Home(d, x) # None
    BY NoneAssumption DEF Home
  <2> QED
    BY <2>1, CleanDirectory, StampedReflexive
<1> QED
  BY <1>4, <1>5 DEF Does

-----------------------------------------------------------------------------
(* The steps.                                                              *)

\* What every operation comes to, --remove with the id that is gone.
OperationStep ==
  \E r, gone : /\ Does(dir, r, gone, today) /\ Commits(dir, r)
               /\ dir' = r.dir
               /\ gone \subseteq Ids /\ removed' = removed \cup gone
               /\ UNCHANGED <<today, runner, fires>>
               /\ NotePauses

\* One turn of a tick run that fires an item.
FireStep(k, id) ==
  /\ runner[k] # None
  /\ id \in Pending(k)
  /\ \E r \in fireOneV2(dir, id, runner[k].now) : Commits(dir, r) /\ dir' = r.dir
  /\ fires' = [fires EXCEPT ![id] = Append(@, runner[k].now)]
  /\ runner' = [runner EXCEPT ![k].done = @ \cup {id}]
  /\ UNCHANGED <<today, removed>>
  /\ NotePauses

\* And one that only notes the item's error.
FailStep(k, id) ==
  /\ runner[k] # None
  /\ runner' = [runner EXCEPT ![k].done = @ \cup {id}]
  /\ UNCHANGED <<dir, fires, today, removed>>
  /\ NotePauses

\* A turn of a run fires one due item, or fails to and enters it in its
\* ledger.
LEMMA FireNextIs ==
  ASSUME NEW k \in Runners, FireNext(k)
  PROVE  \E id \in Ids : FireStep(k, id) \/ FailStep(k, id)
<1>1. PICK id \in Ids :
        /\ First(k, id)
        /\ IF \E res \in fireOneV2(dir, id, runner[k].now) : Commits(dir, res)
           THEN /\ commit(fireOneV2(dir, id, runner[k].now))
                /\ fires' = [fires EXCEPT ![id] = Append(@, runner[k].now)]
           ELSE UNCHANGED <<dir, fires>>
        /\ runner' = [runner EXCEPT ![k].done = @ \cup {id}]
  BY DEF FireNext
<1>2. runner[k] # None /\ UNCHANGED <<today, removed>> /\ NotePauses
  BY DEF FireNext
<1>3. id \in Pending(k)
  BY <1>1 DEF First
<1>4. CASE \E res \in fireOneV2(dir, id, runner[k].now) : Commits(dir, res)
  <2>1. /\ commit(fireOneV2(dir, id, runner[k].now))
        /\ fires' = [fires EXCEPT ![id] = Append(@, runner[k].now)]
    BY <1>1, <1>4
  <2> QED
    BY <1>1, <1>2, <1>3, <2>1 DEF FireStep, commit
<1>5. CASE ~ \E res \in fireOneV2(dir, id, runner[k].now) : Commits(dir, res)
  <2>1. UNCHANGED <<dir, fires>>
    BY <1>1, <1>5
  <2> QED
    BY <1>1, <1>2, <2>1 DEF FailStep
<1> QED
  BY <1>4, <1>5

\* What the proofs take from the invariant.
LEMMA SoundFacts ==
  ASSUME Sound
  PROVE  /\ dir \in Dir /\ Grouped(dir.board) /\ Clean(dir) /\ Fresh(dir.board)
         /\ today \in Nat /\ today \in 1..MaxDay
<1>1. dir \in Dir /\ Grouped(dir.board) /\ Clean(dir) /\ today \in 1..MaxDay
  BY DEF Sound, TypeOK
<1>2. MaxDay \in Nat
  BY BoardAssumption
<1> QED
  BY <1>1, <1>2, CleanDirectory

\* Every operation, once it commits, is one such step.
LEMMA OperationIs ==
  ASSUME Sound,
         \/ Add \/ AddMany \/ SetCap
         \/ \E id \in Ids :
              \/ Start(id) \/ Pause(id) \/ Finish(id) \/ Move(id) \/ RemoveForced(id)
              \/ EditField(id) \/ EditBody(id) \/ AddNote(id)
              \/ Attach(id) \/ SetBody(id) \/ AppendSection(id) \/ Detach(id)
  PROVE  OperationStep
<1> USE SoundFacts
<1>0. ASSUME NEW r, Does(dir, r, {}, today), Commits(dir, r), dir' = r.dir,
             UNCHANGED <<today, runner, removed, fires>>, NotePauses
      PROVE  OperationStep
  <2>1. {} \subseteq Ids /\ removed' = removed \cup {}
    BY <1>0
  <2> QED
    BY <1>0, <2>1 DEF OperationStep
<1>1. CASE Add
  <2>1. PICK req \in AddRequests : Operation(addV2(dir, req, today))
    BY <1>1 DEF Add
  <2>2. PICK r \in addV2(dir, req, today) : Commits(dir, r) /\ dir' = r.dir
    BY <2>1 DEF Operation, commit
  <2>3. req \in AddRequest
    BY BoardAssumption
  <2>4. Does(dir, r, {}, today)
    BY <2>3, AddSound, AddedDoes
  <2> QED
    BY <1>0, <2>1, <2>2, <2>4 DEF Operation
<1>2. CASE AddMany
  <2>1. PICK reqs \in Batches : Operation(addManyV2(dir, reqs, today))
    BY <1>2 DEF AddMany
  <2>2. PICK r \in addManyV2(dir, reqs, today) : Commits(dir, r) /\ dir' = r.dir
    BY <2>1 DEF Operation, commit
  <2>3. reqs \in Seq(AddRequest)
    BY BoardAssumption
  <2>4. Does(dir, r, {}, today)
    BY <2>3, AddManySound, AddedDoes
  <2> QED
    BY <1>0, <2>1, <2>2, <2>4 DEF Operation
<1>3. CASE SetCap
  <2>1. PICK c \in Caps : Operation(SetStageWipLimit(dir, c[1], c[2]))
    BY <1>3 DEF SetCap
  <2>2. PICK r \in SetStageWipLimit(dir, c[1], c[2]) : Commits(dir, r) /\ dir' = r.dir
    BY <2>1 DEF Operation, commit
  <2>3. c[1] \in StageSet /\ c[2] \in Nat
    BY BoardAssumption
  <2>4. Does(dir, r, {}, today)
    BY <2>2, <2>3, CapDoes
  <2> QED
    BY <1>0, <2>1, <2>2, <2>4 DEF Operation
<1>4. ASSUME NEW id \in Ids, Start(id)
      PROVE  OperationStep
  <2>1. Operation(startV2(dir, id))
    BY <1>4 DEF Start
  <2>2. PICK r \in startV2(dir, id) : Commits(dir, r) /\ dir' = r.dir
    BY <2>1 DEF Operation, commit
  <2>4. dir.board.item[id] # None /\ Moved(dir, r, id) /\ Timed(dir, r.dir, id, today)
    BY StartSound
  <2>5. Does(dir, r, {}, today)
    BY <2>4, MovedDoes
  <2> QED
    BY <1>0, <2>1, <2>2, <2>5 DEF Operation
<1>5. ASSUME NEW id \in Ids, Pause(id)
      PROVE  OperationStep
  <2>1. PICK s \in StageSet \cup {None}, end \in BOOLEAN : Operation(pauseV2(dir, id, s, end))
    BY <1>5 DEF Pause
  <2>2. PICK r \in pauseV2(dir, id, s, end) : Commits(dir, r) /\ dir' = r.dir
    BY <2>1 DEF Operation, commit
  <2>4. dir.board.item[id] # None /\ Moved(dir, r, id) /\ Timed(dir, r.dir, id, today)
    BY PauseSound
  <2>5. Does(dir, r, {}, today)
    BY <2>4, MovedDoes
  <2> QED
    BY <1>0, <2>1, <2>2, <2>5 DEF Operation
<1>6. ASSUME NEW id \in Ids, Finish(id)
      PROVE  OperationStep
  <2>1. PICK note \in Notes \cup {None} : Operation(finishV2(dir, id, note))
    BY <1>6 DEF Finish
  <2>2. PICK r \in finishV2(dir, id, note) : Commits(dir, r) /\ dir' = r.dir
    BY <2>1 DEF Operation, commit
  <2>4. /\ Same(dir, r.dir, id) /\ r.accepts = {}
        /\ dir.board.item[id] # None /\ r.dir.board.item[id] = None /\ r.dir.done[id] # None
    <3>1. Finished(dir, r, id)
      BY FinishSound
    <3> QED
      BY <3>1 DEF Finished
  <2>6. /\ Home(dir, id) # None /\ Home(r.dir, id) # None /\ Timed(dir, r.dir, id, today)
        /\ Accepts(dir, r)
    BY <2>4, NoneAssumption DEF Home, Timed, Accepts
  <2>5. Does(dir, r, {}, today)
    BY <2>4, <2>6, SameDoes
  <2> QED
    BY <1>0, <2>1, <2>2, <2>5 DEF Operation
<1>7. ASSUME NEW id \in Ids, Move(id)
      PROVE  OperationStep
  <2>1. PICK s \in StageSet \cup {None}, index \in 0..(MaxId - 2), reason \in BOOLEAN : Operation(moveV2(dir, id, s, index, reason))
    BY <1>7 DEF Move
  <2>2. PICK r \in moveV2(dir, id, s, index, reason) : Commits(dir, r) /\ dir' = r.dir
    BY <2>1 DEF Operation, commit
  <2>3. index \in Nat
    BY BoardAssumption, DirectoryAssumption
  <2>4. dir.board.item[id] # None /\ Moved(dir, r, id) /\ Timed(dir, r.dir, id, today)
    BY <2>3, MoveSound
  <2>5. Does(dir, r, {}, today)
    BY <2>4, MovedDoes
  <2> QED
    BY <1>0, <2>1, <2>2, <2>5 DEF Operation
<1>8. ASSUME NEW id \in Ids, EditField(id)
      PROVE  OperationStep
  <2>1. PICK u \in Updates : Operation(Update(dir, id, u, today))
    BY <1>8 DEF EditField
  <2>2. PICK r \in Update(dir, id, u, today) : Commits(dir, r) /\ dir' = r.dir
    BY <2>1 DEF Operation, commit
  <2>3. u \in FieldUpdate
    BY BoardAssumption
  <2>4. /\ Home(dir, id) # None /\ r.accepts \subseteq {<<"I9 orphan", id>>} /\ InPlace(dir, r.dir, id)
        /\ Untimed => Timed(dir, r.dir, id, today)
    BY <2>3, UpdateSound DEF Untimed
  <2>5. Does(dir, r, {}, today)
    BY <2>4, EditDoes
  <2> QED
    BY <1>0, <2>1, <2>2, <2>5 DEF Operation
<1>9. ASSUME NEW id \in Ids, EditBody(id)
      PROVE  OperationStep
  <2>1. PICK u \in Updates, body \in Bodies : Operation(Edit(dir, id, u, body, today))
    BY <1>9 DEF EditBody
  <2>2. PICK r \in Edit(dir, id, u, body, today) : Commits(dir, r) /\ dir' = r.dir
    BY <2>1 DEF Operation, commit
  <2>3. u \in FieldUpdate /\ body \in SUBSET Notes
    BY BoardAssumption
  <2>4. /\ Home(dir, id) # None /\ r.accepts \subseteq {<<"I9 orphan", id>>} /\ InPlace(dir, r.dir, id)
        /\ Untimed => Timed(dir, r.dir, id, today)
    BY <2>3, EditSound DEF Untimed
  <2>5. Does(dir, r, {}, today)
    BY <2>4, EditDoes
  <2> QED
    BY <1>0, <2>1, <2>2, <2>5 DEF Operation
<1>10. ASSUME NEW id \in Ids, AddNote(id)
      PROVE  OperationStep
  <2>1. PICK note \in Notes : Operation(Note(dir, id, note))
    BY <1>10 DEF AddNote
  <2>2. PICK r \in Note(dir, id, note) : Commits(dir, r) /\ dir' = r.dir
    BY <2>1 DEF Operation, commit
  <2>4. Home(dir, id) # None /\ r.accepts \subseteq {<<"I9 orphan", id>>} /\ EditsTo(dir, r.dir, id, today)
    BY NoteSound
  <2>5. Does(dir, r, {}, today)
    BY <2>4, EditDoes DEF EditsTo
  <2> QED
    BY <1>0, <2>1, <2>2, <2>5 DEF Operation
<1>11. ASSUME NEW id \in Ids, Attach(id)
      PROVE  OperationStep
  <2>1. PICK body \in Bodies : Operation(AttachDetail(dir, id, body))
    BY <1>11 DEF Attach
  <2>2. PICK r \in AttachDetail(dir, id, body) : Commits(dir, r) /\ dir' = r.dir
    BY <2>1 DEF Operation, commit
  <2>3. body \in SUBSET Notes
    BY BoardAssumption
  <2>4. Home(dir, id) # None /\ r.accepts \subseteq {<<"I9 orphan", id>>} /\ EditsTo(dir, r.dir, id, today)
    BY <2>3, AttachDetailSound
  <2>5. Does(dir, r, {}, today)
    BY <2>4, EditDoes DEF EditsTo
  <2> QED
    BY <1>0, <2>1, <2>2, <2>5 DEF Operation
<1>12. ASSUME NEW id \in Ids, SetBody(id)
      PROVE  OperationStep
  <2>1. PICK body \in Bodies : Operation(SetDetailBody(dir, id, body))
    BY <1>12 DEF SetBody
  <2>2. PICK r \in SetDetailBody(dir, id, body) : Commits(dir, r) /\ dir' = r.dir
    BY <2>1 DEF Operation, commit
  <2>3. body \in SUBSET Notes
    BY BoardAssumption
  <2>4. Home(dir, id) # None /\ r.accepts \subseteq {<<"I9 orphan", id>>} /\ EditsTo(dir, r.dir, id, today)
    BY <2>3, SetDetailBodySound
  <2>5. Does(dir, r, {}, today)
    BY <2>4, EditDoes DEF EditsTo
  <2> QED
    BY <1>0, <2>1, <2>2, <2>5 DEF Operation
<1>13. ASSUME NEW id \in Ids, AppendSection(id)
      PROVE  OperationStep
  <2>1. PICK note \in Notes : Operation(AppendDetailSection(dir, id, note))
    BY <1>13 DEF AppendSection
  <2>2. PICK r \in AppendDetailSection(dir, id, note) : Commits(dir, r) /\ dir' = r.dir
    BY <2>1 DEF Operation, commit
  <2>4. Home(dir, id) # None /\ r.accepts \subseteq {<<"I9 orphan", id>>} /\ EditsTo(dir, r.dir, id, today)
    BY AppendDetailSectionSound
  <2>5. Does(dir, r, {}, today)
    BY <2>4, EditDoes DEF EditsTo
  <2> QED
    BY <1>0, <2>1, <2>2, <2>5 DEF Operation
<1>14. ASSUME NEW id \in Ids, Detach(id)
      PROVE  OperationStep
  <2>1. PICK delete \in BOOLEAN : Operation(DetachDetail(dir, id, delete))
    BY <1>14 DEF Detach
  <2>2. PICK r \in DetachDetail(dir, id, delete) : Commits(dir, r) /\ dir' = r.dir
    BY <2>1 DEF Operation, commit
  <2>4. Home(dir, id) # None /\ r.accepts \subseteq {<<"I9 orphan", id>>} /\ EditsTo(dir, r.dir, id, today)
    BY DetachDetailSound
  <2>5. Does(dir, r, {}, today)
    BY <2>4, EditDoes DEF EditsTo
  <2> QED
    BY <1>0, <2>1, <2>2, <2>5 DEF Operation
<1>15. ASSUME NEW id \in Ids, RemoveForced(id)
       PROVE  OperationStep
  <2>1. PICK withDetail \in BOOLEAN : commit(removeInternal(dir, id, withDetail))
    BY <1>15 DEF RemoveForced
  <2>2. PICK r \in removeInternal(dir, id, withDetail) : Commits(dir, r) /\ dir' = r.dir
    BY <2>1 DEF commit
  <2>4. /\ Same(dir, r.dir, id) /\ r.accepts \subseteq {<<"I9 orphan", id>>}
        /\ Home(dir, id) # None
        /\ r.dir.board.item[id] = None
        /\ r.dir.done[id] = IF dir.board.item[id] # None THEN dir.done[id] ELSE None
    BY RemoveSound
  <2>5. Accepts(dir, r)
    BY <2>4, OrphanAccepted
  <2>6. Home(r.dir, id) = None /\ Timed(dir, r.dir, id, today)
    BY <2>4, CleanDirectory DEF Home, Timed
  <2>7. Does(dir, r, {id}, today)
    BY <2>4, <2>5, <2>6, SameDoes
  <2>8. {id} \subseteq Ids /\ removed' = removed \cup {id} /\ UNCHANGED <<today, runner, fires>> /\ NotePauses
    BY <1>15 DEF RemoveForced
  <2> QED
    BY <2>2, <2>7, <2>8 DEF OperationStep
<1> QED
  BY <1>1, <1>2, <1>3, <1>4, <1>5, <1>6, <1>7, <1>8, <1>9, <1>10, <1>11, <1>12, <1>13, <1>14, <1>15

\* The next state is reached by an operation, the turn of the day, or a run.
LEMMA NextIs ==
  ASSUME Sound, Next
  PROVE  \/ OperationStep
         \/ NextDay
         \/ \E k \in Runners : BeginTick(k) \/ EndTick(k) \/ \E id \in Ids : FireStep(k, id) \/ FailStep(k, id)
BY OperationIs, FireNextIs DEF Next

-----------------------------------------------------------------------------
(* The directory is well formed, and clean.                                *)

\* The empty board is sound.
LEMMA InitSound == Init => Sound
<1> SUFFICES ASSUME Init
             PROVE  Sound
  OBVIOUS
<1>1. /\ dir.board = EmptyBoard /\ dir.done = [id \in Ids |-> None] /\ dir.detail = [id \in Ids |-> None]
      /\ dir = [board |-> EmptyBoard, done |-> [id \in Ids |-> None], detail |-> [id \in Ids |-> None]]
  BY DEF Init
<1>2. /\ EmptyBoard.item = [id \in Ids |-> None] /\ EmptyBoard.run = [s \in StageSet |-> <<>>]
      /\ EmptyBoard.next = 1 /\ EmptyBoard.wip = [s \in StageSet |-> 0]
  BY DEF EmptyBoard
<1>3. 1 \in Ids /\ 1 \in 1..MaxDay
  BY DirectoryAssumption, BoardAssumption DEF Ids
<1>4. EmptyBoard \in BoardFile
  <2>1. [id \in Ids |-> None] \in [Ids -> Item \cup {None}]
    OBVIOUS
  <2>2. [s \in StageSet |-> <<>>] \in [StageSet -> Seq(Ids)]
    OBVIOUS
  <2>3. [s \in StageSet |-> 0] \in [StageSet -> Nat]
    OBVIOUS
  <2> QED
    BY <1>3, <2>1, <2>2, <2>3 DEF EmptyBoard, BoardFile
<1>5. dir \in Dir
  <2>1. [id \in Ids |-> None] \in DoneFile /\ [id \in Ids |-> None] \in [Ids -> DetailFile \cup {None}]
    BY DEF DoneFile
  <2> QED
    BY <1>1, <1>4, <2>1 DEF Dir
<1>6. \A s \in StageSet : dir.board.run[s] = <<>>
  BY <1>1, <1>2
<1>7. \A id \in Ids : dir.board.item[id] = None /\ dir.done[id] = None /\ dir.detail[id] = None
  BY <1>1, <1>2
<1>8. Grouped(dir.board)
  BY <1>6, <1>7 DEF Grouped, IsInjective, Contains
<1>9. TypeOK
  <2>1. runner \in [Runners -> {None} \cup [now : 1..MaxDay, done : SUBSET Ids]]
    BY DEF Init
  <2>2. fires \in [Ids -> Seq(1..MaxDay)]
    BY DEF Init
  <2>3. removed \subseteq Ids /\ pausedOn \in [Ids -> SUBSET (1..MaxDay)] /\ today \in 1..MaxDay
    BY <1>3 DEF Init
  <2> QED
    BY <1>5, <1>8, <2>1, <2>2, <2>3 DEF TypeOK
<1>10. validate(dir) = {}
  <2>1. \A h \in {"board", "done"} : \A id \in Ids : ItemAt(dir, h, id) = None
    BY <1>7 DEF ItemAt
  <2>2. Copies(dir) = {}
    BY <2>1 DEF Copies
  <2>3. \A id \in Ids : Home(dir, id) = None
    BY <1>7 DEF Home
  <2>4. checkIDs(dir) = {}
    BY <1>7, <2>3 DEF checkIDs
  <2>5. \A s \in StageSet : ToSet(dir.board.run[s]) = {}
    BY <1>6 DEF ToSet
  <2>6. "working" \in StageSet /\ ToSet(NeedsReason) \subseteq StageSet
    BY DirectoryAssumption DEF ToSet
  <2>7. checkBoard(dir) = {}
    BY <2>5, <2>6 DEF checkBoard
  <2>8. checkTicklerV2(dir) = {}
    BY <2>2 DEF checkTicklerV2
  <2>9. checkDetails(dir) = {}
    <3>1. \A id \in Ids : Claims(dir, id) = {}
      BY <2>1 DEF Claims
    <3> QED
      BY <1>7, <3>1 DEF checkDetails
  <2> QED
    BY <2>4, <2>7, <2>8, <2>9 DEF validate
<1> QED
  BY <1>9, <1>10 DEF Sound, Clean

\* The days that an item was paused on are days.
LEMMA PausesTyped ==
  ASSUME pausedOn \in [Ids -> SUBSET (1..MaxDay)], today' \in 1..MaxDay, NotePauses
  PROVE  pausedOn' \in [Ids -> SUBSET (1..MaxDay)]
BY DEF NotePauses

\* A legal result that commits is sound.
LEMMA LegalIsSound ==
  ASSUME Sound, NEW r, NEW gone, Legal(dir, r, gone), Commits(dir, r)
  PROVE  r.dir \in Dir /\ Grouped(r.dir.board) /\ Clean(r.dir)
BY SoundFacts, CommitsKeepClean DEF Legal

\* What a fire finds: a due item that is not paused, and what it does to it.
LEMMA FireIsFired ==
  ASSUME Sound, NEW k \in Runners, NEW id \in Ids, FireStep(k, id)
  PROVE  /\ runner[k].now \in 1..MaxDay /\ runner[k].now \in Nat
         /\ dir.board.item[id] # None
         /\ dir.board.item[id].tickler # None
         /\ ~ dir.board.item[id].paused
         /\ Due(dir.board.item[id], runner[k].now)
         /\ \E r : Fired(dir, r, id, runner[k].now) /\ Legal(dir, r, {}) /\ Commits(dir, r) /\ dir' = r.dir
<1>1. runner[k] \in [now : 1..MaxDay, done : SUBSET Ids]
  <2>1. runner[k] \in {None} \cup [now : 1..MaxDay, done : SUBSET Ids]
    BY DEF Sound, TypeOK
  <2> QED
    BY <2>1 DEF FireStep
<1>2. runner[k].now \in 1..MaxDay /\ runner[k].now \in Nat
  BY <1>1, BoardAssumption
<1>3. /\ dir.board.item[id] # None /\ dir.board.item[id].tickler # None
      /\ ~ dir.board.item[id].paused /\ Due(dir.board.item[id], runner[k].now)
  BY DEF FireStep, Pending, DueItems
<1>4. PICK r \in fireOneV2(dir, id, runner[k].now) : Commits(dir, r) /\ dir' = r.dir
  BY DEF FireStep
<1>5. Fired(dir, r, id, runner[k].now)
  BY <1>2, <1>3, SoundFacts, FireSound
<1>6. Legal(dir, r, {})
  BY <1>3, <1>5, SoundFacts, FiredIsLegal
<1> QED
  BY <1>2, <1>3, <1>4, <1>5, <1>6

\* Every step keeps the directory sound.
LEMMA NextSound == Sound /\ [Next]_vars => Sound'
<1> SUFFICES ASSUME Sound, [Next]_vars
             PROVE  Sound'
  OBVIOUS
<1>0. /\ dir \in Dir /\ today \in 1..MaxDay /\ removed \subseteq Ids
      /\ runner \in [Runners -> {None} \cup [now : 1..MaxDay, done : SUBSET Ids]]
      /\ fires \in [Ids -> Seq(1..MaxDay)]
      /\ pausedOn \in [Ids -> SUBSET (1..MaxDay)]
      /\ Grouped(dir.board) /\ Clean(dir)
  BY DEF Sound, TypeOK
<1> USE DEF Sound, TypeOK
<1>1. CASE OperationStep
  <2>1. PICK r, gone : /\ Does(dir, r, gone, today) /\ Commits(dir, r) /\ dir' = r.dir
                       /\ gone \subseteq Ids /\ removed' = removed \cup gone
                       /\ UNCHANGED <<today, runner, fires>> /\ NotePauses
    BY <1>1 DEF OperationStep
  <2>2. dir' \in Dir /\ Grouped(dir'.board) /\ Clean(dir')
    BY <2>1, LegalIsSound DEF Does
  <2>3. pausedOn' \in [Ids -> SUBSET (1..MaxDay)]
    BY <1>0, <2>1, PausesTyped
  <2> QED
    BY <1>0, <2>1, <2>2, <2>3
<1>2. CASE NextDay
  <2>1. today' \in 1..MaxDay /\ UNCHANGED <<dir, runner, removed, fires>> /\ NotePauses
    BY <1>0, <1>2, BoardAssumption DEF NextDay
  <2>2. pausedOn' \in [Ids -> SUBSET (1..MaxDay)]
    BY <1>0, <2>1, PausesTyped
  <2> QED
    BY <1>0, <2>1, <2>2
<1>3. ASSUME NEW k \in Runners, BeginTick(k)
      PROVE  Sound'
  <2>1. [now |-> today, done |-> {}] \in [now : 1..MaxDay, done : SUBSET Ids]
    BY <1>0
  <2>2. runner' \in [Runners -> {None} \cup [now : 1..MaxDay, done : SUBSET Ids]]
    BY <1>0, <1>3, <2>1 DEF BeginTick
  <2>3. UNCHANGED <<dir, today, removed, fires, pausedOn>>
    BY <1>3 DEF BeginTick
  <2> QED
    BY <1>0, <2>2, <2>3
<1>4. ASSUME NEW k \in Runners, EndTick(k)
      PROVE  Sound'
  <2>1. runner' \in [Runners -> {None} \cup [now : 1..MaxDay, done : SUBSET Ids]]
    BY <1>0, <1>4 DEF EndTick
  <2>2. UNCHANGED <<dir, today, removed, fires, pausedOn>>
    BY <1>4 DEF EndTick
  <2> QED
    BY <1>0, <2>1, <2>2
<1>5. ASSUME NEW k \in Runners, NEW id \in Ids, FireStep(k, id) \/ FailStep(k, id)
      PROVE  Sound'
  <2>1. UNCHANGED <<today, removed>> /\ NotePauses /\ runner[k] # None
        /\ runner' = [runner EXCEPT ![k].done = @ \cup {id}]
    BY <1>5 DEF FireStep, FailStep
  <2>2. runner[k] \in [now : 1..MaxDay, done : SUBSET Ids]
    BY <1>0, <2>1
  <2>3. runner' \in [Runners -> {None} \cup [now : 1..MaxDay, done : SUBSET Ids]]
    <3>1. [runner[k] EXCEPT !.done = @ \cup {id}] \in [now : 1..MaxDay, done : SUBSET Ids]
      BY <2>2
    <3>2. runner' = [runner EXCEPT ![k] = [runner[k] EXCEPT !.done = @ \cup {id}]]
      BY <2>1
    <3> QED
      BY <1>0, <3>1, <3>2
  <2>4. pausedOn' \in [Ids -> SUBSET (1..MaxDay)]
    BY <1>0, <2>1, PausesTyped
  <2>5. fires' \in [Ids -> Seq(1..MaxDay)] /\ dir' \in Dir /\ Grouped(dir'.board) /\ Clean(dir')
    <3>1. CASE FireStep(k, id)
      <4>1. fires' = [fires EXCEPT ![id] = Append(@, runner[k].now)]
        BY <3>1 DEF FireStep
      <4>2. Append(fires[id], runner[k].now) \in Seq(1..MaxDay)
        BY <1>0, <2>2
      <4>3. fires' \in [Ids -> Seq(1..MaxDay)]
        BY <1>0, <4>1, <4>2
      <4>4. PICK r : Legal(dir, r, {}) /\ Commits(dir, r) /\ dir' = r.dir
        BY <3>1, FireIsFired
      <4> QED
        BY <4>3, <4>4, LegalIsSound
    <3>2. CASE FailStep(k, id)
      BY <1>0, <3>2 DEF FailStep
    <3> QED
      BY <1>5, <3>1, <3>2
  <2> QED
    BY <1>0, <2>1, <2>3, <2>4, <2>5
<1>6. CASE UNCHANGED vars
  BY <1>0, <1>6 DEF vars
<1> QED
  BY <1>1, <1>2, <1>3, <1>4, <1>5, <1>6, NextIs

\* In every reachable state the values are well formed: an item of the board
\* is in the run of one stage, once, however the file was edited.
THEOREM BoardTypes == Spec => []TypeOK
<1>1. Sound => TypeOK
  BY DEF Sound
<1> QED
  BY <1>1, InitSound, NextSound, PTL DEF Spec

\* In every reachable state the checker has nothing to say of the directory
\* but of detail files that an operation was asked to orphan.
THEOREM BoardIsClean == Spec => []ChecksClean
<1>1. Sound => ChecksClean
  BY DEF Sound, Clean, ChecksClean
<1> QED
  BY <1>1, InitSound, NextSound, PTL DEF Spec

-----------------------------------------------------------------------------
(* Ids.                                                                    *)

\* An id is retired with its item: whatever the operations, the runs and the
\* stages, one that the counter has passed and that names nothing never names
\* anything again, and the counter never goes back.
THEOREM RetiredForGood == Spec => IdsRetired
<1>1. Sound /\ [Next]_vars =>
        [\A id \in 1..(dir.board.next - 1) :
           /\ Home(dir, id) = None => Home(dir', id) = None
           /\ dir'.board.next >= dir.board.next]_vars
  <2> SUFFICES ASSUME Sound, Next, NEW id \in 1..(dir.board.next - 1)
               PROVE  /\ Home(dir, id) = None => Home(dir', id) = None
                      /\ dir'.board.next >= dir.board.next
    OBVIOUS
  <2>1. dir \in Dir /\ dir.board.next \in Nat /\ dir.board.next \in Ids
    BY SoundFacts, Numbers
  <2>2. id \in Ids /\ id < dir.board.next
    <3>1. dir.board.next <= MaxId /\ MaxId \in Nat
      BY <2>1, DirectoryAssumption DEF Ids
    <3> QED
      BY <2>1, <3>1 DEF Ids
  <2>3. ASSUME NEW r, NEW gone, Legal(dir, r, gone), dir' = r.dir
        PROVE  /\ Home(dir, id) = None => Home(dir', id) = None
               /\ dir'.board.next >= dir.board.next
    <3>1. /\ r.dir \in Dir /\ dir.board.next <= r.dir.board.next
          /\ \A x \in Ids : x < r.dir.board.next =>
               (Home(r.dir, x) = None <=> x \in gone \/ (x < dir.board.next /\ Home(dir, x) = None))
      BY <2>3 DEF Legal
    <3>2. r.dir.board.next \in Nat
      BY <3>1, Numbers
    <3>3. id < r.dir.board.next /\ r.dir.board.next >= dir.board.next
      BY <2>1, <2>2, <3>1, <3>2
    <3> QED
      BY <2>2, <2>3, <3>1, <3>3
  <2>4. CASE OperationStep
    BY <2>3, <2>4 DEF OperationStep, Does
  <2>5. CASE \E k \in Runners : \E x \in Ids : FireStep(k, x)
    BY <2>3, <2>5, FireIsFired
  <2>6. CASE UNCHANGED dir
    BY <2>1, <2>6
  <2> QED
    BY <2>4, <2>5, <2>6, NextIs DEF NextDay, BeginTick, EndTick, FailStep
<1> QED
  BY <1>1, InitSound, NextSound, PTL DEF Spec, IdsRetired

\* Nothing is removed at first.
LEMMA InitRetired == Init => Retired
<1> SUFFICES ASSUME Init
             PROVE  Retired
  OBVIOUS
<1>1. dir.board.next = 1 /\ removed = {}
  BY DEF Init, EmptyBoard
<1> QED
  BY <1>1, IdsAreNumbers DEF Retired

\* Every step keeps the account of the ids.
LEMMA NextRetired == Sound /\ Retired /\ [Next]_vars => Retired'
<1> SUFFICES ASSUME Sound, Retired, [Next]_vars
             PROVE  Retired'
  OBVIOUS
<1>1. dir \in Dir /\ dir.board.next \in Nat /\ removed \subseteq Ids
  BY SoundFacts, Numbers DEF Sound, TypeOK
<1>2. ASSUME NEW r, NEW gone, Legal(dir, r, gone), dir' = r.dir, removed' = removed \cup gone,
             gone \subseteq Ids
      PROVE  Retired'
  <2>1. /\ r.dir \in Dir /\ dir.board.next <= r.dir.board.next
        /\ \A x \in gone : x < dir.board.next
        /\ \A x \in Ids : x < r.dir.board.next =>
             (Home(r.dir, x) = None <=> x \in gone \/ (x < dir.board.next /\ Home(dir, x) = None))
    BY <1>2 DEF Legal
  <2>2. r.dir.board.next \in Nat
    BY <2>1, Numbers
  <2>3. ASSUME NEW x \in Ids, x \in removed'
        PROVE  x < r.dir.board.next
    <3>1. x < dir.board.next
      BY <1>2, <2>1, <2>3 DEF Retired
    <3> QED
      BY <1>1, <2>1, <2>2, <3>1, IdsAreNumbers
  <2>4. ASSUME NEW x \in Ids, x < r.dir.board.next
        PROVE  Home(r.dir, x) = None <=> x \in removed'
    BY <1>2, <2>1, <2>4 DEF Retired
  <2>5. removed' \subseteq Ids
    BY <1>1, <1>2
  <2> QED
    BY <1>2, <2>3, <2>4, <2>5 DEF Retired
<1>3. CASE OperationStep
  BY <1>2, <1>3 DEF OperationStep, Does
<1>4. CASE \E k \in Runners : \E x \in Ids : FireStep(k, x)
  <2>1. PICK k \in Runners, x \in Ids : FireStep(k, x)
    BY <1>4
  <2>2. PICK r : Legal(dir, r, {}) /\ dir' = r.dir
    BY <2>1, FireIsFired
  <2>3. removed' = removed \cup {} /\ {} \subseteq Ids
    BY <2>1 DEF FireStep
  <2> QED
    BY <1>2, <2>2, <2>3
<1>5. CASE UNCHANGED <<dir, removed>>
  BY <1>5 DEF Retired
<1> QED
  BY <1>3, <1>4, <1>5, NextIs DEF NextDay, BeginTick, EndTick, FailStep, vars

\* In every reachable state each id handed out names exactly one item, in one
\* of the two files, unless --remove was called on it; then it names none.
THEOREM EveryIdAccounted == Spec => []ItemsAccounted
<1>1. Sound /\ Retired => ItemsAccounted
  <2> SUFFICES ASSUME Sound, Retired, NEW id \in 1..(dir.board.next - 1)
               PROVE  Cardinality({c \in Copies(dir) : c[2] = id}) = IF id \in removed THEN 0 ELSE 1
    BY DEF ItemsAccounted
  <2> DEFINE copies == {c \in Copies(dir) : c[2] = id}
  <2>1. dir \in Dir /\ dir.board.next \in Nat /\ dir.board.next \in Ids /\ Clean(dir)
    BY SoundFacts, Numbers
  <2>2. id \in Ids /\ id < dir.board.next
    <3>1. dir.board.next <= MaxId /\ MaxId \in Nat
      BY <2>1, DirectoryAssumption DEF Ids
    <3> QED
      BY <2>1, <3>1 DEF Ids
  <2>3. Home(dir, id) = None <=> id \in removed
    BY <2>2 DEF Retired
  <2>4. \A c : c \in copies <=>
          \/ c = <<"board", id>> /\ dir.board.item[id] # None
          \/ c = <<"done", id>> /\ dir.done[id] # None
    BY <2>2 DEF Copies, ItemAt
  <2>5. dir.board.item[id] = None \/ dir.done[id] = None
    BY <2>1, <2>2, CleanDirectory
  <2>6. CASE id \in removed
    <3>1. dir.board.item[id] = None /\ dir.done[id] = None
      BY <2>3, <2>6, NoneAssumption DEF Home
    <3>2. copies = {}
      BY <2>4, <3>1
    <3> QED
      BY <2>6, <3>2, FS_EmptySet
  <2>7. CASE id \notin removed
    <3>1. dir.board.item[id] # None \/ dir.done[id] # None
      BY <2>3, <2>7 DEF Home
    <3>2. copies = {<<"board", id>>} \/ copies = {<<"done", id>>}
      BY <2>4, <2>5, <3>1
    <3>3. Cardinality(copies) = 1
      BY <3>2, FS_Singleton
    <3> QED
      BY <2>7, <3>3
  <2> QED
    BY <2>6, <2>7
<1>2. Init => Sound /\ Retired
  BY InitSound, InitRetired
<1>3. Sound /\ Retired /\ [Next]_vars => (Sound /\ Retired)'
  BY NextSound, NextRetired
<1> QED
  BY <1>1, <1>2, <1>3, PTL DEF Spec

-----------------------------------------------------------------------------
(* Ticks.                                                                  *)

\* The days an item's schedule has been paused on, after a step that leaves it
\* as new; no item is left as None.
Paused(new, paused, day) ==
  IF new = None THEN {}
  ELSE IF new.tickler = None THEN {}
  ELSE IF new.paused THEN paused \cup {day} ELSE paused

\* A step notes the day for an item that it leaves paused.
LEMMA PausedIs ==
  ASSUME NotePauses, NEW id \in Ids
  PROVE  pausedOn'[id] = Paused(dir'.board.item[id], pausedOn[id], today')
BY DEF NotePauses, Paused

\* What is owed stays owed, whatever a step but a fire makes of the item.
LEMMA StaysOwed ==
  ASSUME NEW fired \in Seq(Nat), NEW paused \in SUBSET Nat, NEW was \in Nat, NEW day \in Nat,
         was <= day,
         NEW it \in Item \cup {None}, NEW new \in Item \cup {None},
         Owed(it, fired, paused, was),
         new # None =>
           \/ it # None /\ Stamped(it, new, day)
           \/ it = None /\ fired = <<>> /\ new.created = day /\ new.tickled = 0
  PROVE  Owed(new, fired, Paused(new, paused, day), day)
<1> DEFINE p == Paused(new, paused, day)
<1>1. /\ \A i \in 1..Len(fired) : fired[i] \in Nat /\ fired[i] <= was
      /\ \A e \in paused : e \in Nat /\ e <= was
      /\ \A i \in 1..(Len(fired) - 1) : fired[i] < fired[i + 1]
  BY DEF Owed
<1>2. /\ \A i \in 1..Len(fired) : fired[i] <= day
      /\ \A i \in 1..(Len(fired) - 1) : fired[i] < fired[i + 1]
  BY <1>1
<1>3. ASSUME NEW e \in p
      PROVE  e <= day
  <2>1. e \in paused \/ e = day
    BY DEF Paused
  <2>2. e \in paused => e \in Nat /\ e <= was
    BY <1>1
  <2> HIDE DEF p
  <2> QED
    BY <2>1, <2>2
<1>4. new = None \/ new.tickler = None => p = {}
  BY DEF Paused
<1>5. ASSUME new # None
      PROVE  /\ new.created <= day /\ new.tickled <= day
             /\ fired # <<>> => Last(fired) <= new.tickled
             /\ fired = <<>> /\ new.tickled # 0 => new.created <= new.tickled
             /\ new.tickler # None /\ ~ new.paused => \A e \in p : e <= new.tickled
  <2>1. /\ new \in Item /\ new.created \in Nat /\ new.tickled \in Nat /\ new.paused \in BOOLEAN
    BY <1>5 DEF Item
  <2>2. CASE it = None /\ fired = <<>> /\ new.created = day /\ new.tickled = 0
    <3>1. paused = {}
      BY <2>2 DEF Owed
    <3>2. new.tickler # None /\ ~ new.paused => p = {}
      BY <1>5, <3>1 DEF Paused
    <3> QED
      BY <2>1, <2>2, <3>2
  <2>3. CASE it # None /\ Stamped(it, new, day)
    <3>1. /\ it \in Item /\ it.created \in Nat /\ it.tickled \in Nat
          /\ it.created <= was /\ it.tickled <= was
          /\ fired # <<>> => Last(fired) <= it.tickled
          /\ fired = <<>> /\ it.tickled # 0 => it.created <= it.tickled
          /\ it.tickler # None /\ ~ it.paused => \A e \in paused : e <= it.tickled
          /\ it.tickler = None => paused = {}
      BY <2>3 DEF Owed, Item
    <3>2. /\ new.created = it.created /\ (new.tickled = it.tickled \/ new.tickled = day)
          /\ it.paused /\ ~ new.paused /\ new.tickler # None => new.tickled = day
      BY <2>3 DEF Stamped
    <3>3. fired # <<>> => Last(fired) \in Nat /\ Last(fired) <= new.tickled
      <4> SUFFICES ASSUME fired # <<>>
                   PROVE  Last(fired) \in Nat /\ Last(fired) <= new.tickled
        OBVIOUS
      <4>1. Len(fired) \in 1..Len(fired) /\ Last(fired) = fired[Len(fired)]
        BY DEF Last
      <4>2. Last(fired) \in Nat /\ Last(fired) <= was
        BY <1>1, <4>1
      <4> QED
        BY <2>1, <3>1, <3>2, <4>2
    <3>4. ASSUME new.tickler # None, ~ new.paused, NEW e \in p
          PROVE  e <= new.tickled
      <4>1. e \in paused /\ paused # {} /\ e \in Nat /\ e <= was
        BY <1>1, <1>5, <3>4 DEF Paused
      <4>2. CASE new.tickled = day
        BY <4>1, <4>2
      <4>3. CASE new.tickled # day
        BY <3>1, <3>2, <3>4, <4>1, <4>3
      <4> QED
        BY <4>2, <4>3
    <3>5. new.created <= day /\ new.tickled <= day
      BY <2>1, <3>1, <3>2
    <3>6. fired = <<>> /\ new.tickled # 0 => new.created <= new.tickled
      BY <2>1, <3>1, <3>2
    <3> QED
      BY <3>3, <3>4, <3>5, <3>6
  <2> QED
    BY <1>5, <2>2, <2>3
<1> QED
  BY <1>2, <1>3, <1>4, <1>5 DEF Owed

\* A due item owes a day that has come, that its last fire did not answer, and
\* on which it was not paused.
LEMMA DueIsOwed ==
  ASSUME NEW fired \in Seq(Nat), NEW paused \in SUBSET (Nat \ {0}), NEW was \in Nat, NEW now \in Nat,
         NEW it \in Item, it # None, it.tickler # None, ~ it.paused, Due(it, now),
         Owed(it, fired, paused, was), \A i \in 1..Len(fired) : fired[i] # 0
  PROVE  /\ it.tickled < now /\ \A e \in paused : e < now
         /\ fired # <<>> => Last(fired) < now
         /\ \E day \in it.tickler.days :
              /\ (IF fired = <<>> THEN 0 ELSE Last(fired)) < day /\ day <= now
              /\ it.tickler.oneShot \/ fired # <<>> \/ day > it.created
              /\ day \notin paused
<1>1. /\ it.created \in Nat /\ it.tickled \in Nat /\ it.tickler \in Schedules
  BY DEF Item
<1>2. it.tickler.days \subseteq Nat
  BY <1>1, DirectoryAssumption
<1>3. PICK day \in it.tickler.days :
        /\ (IF it.tickled = 0 /\ ~ it.tickler.oneShot THEN it.created ELSE it.tickled) < day
        /\ day <= now
  BY DEF Due
<1>4. day \in Nat
  BY <1>2
<1>5. /\ fired # <<>> => Last(fired) <= it.tickled
      /\ fired = <<>> /\ it.tickled # 0 => it.created <= it.tickled
      /\ \A e \in paused : e \in Nat /\ e # 0 /\ e <= it.tickled
  BY DEF Owed
<1>6. it.tickled < day /\ it.tickled < now
  BY <1>1, <1>3, <1>4
<1>7. ASSUME NEW e \in paused
      PROVE  e < day /\ e < now
  <2>1. e \in Nat /\ e <= it.tickled
    BY <1>5
  <2> QED
    BY <1>1, <1>3, <1>4, <1>6, <2>1
<1>8. fired # <<>> => Last(fired) \in Nat /\ Last(fired) # 0 /\ Last(fired) < day
  <2> SUFFICES ASSUME fired # <<>>
               PROVE  Last(fired) \in Nat /\ Last(fired) # 0 /\ Last(fired) < day
    OBVIOUS
  <2>1. Len(fired) \in 1..Len(fired) /\ Last(fired) = fired[Len(fired)]
    BY DEF Last
  <2>2. Last(fired) \in Nat /\ Last(fired) # 0
    BY <2>1
  <2> QED
    BY <1>1, <1>4, <1>5, <1>6, <2>2
<1>9. (IF fired = <<>> THEN 0 ELSE Last(fired)) < day
  BY <1>1, <1>4, <1>6, <1>8
<1>10. it.tickler.oneShot \/ fired # <<>> \/ day > it.created
  BY <1>1, <1>3, <1>4, <1>5
<1>11. day \notin paused
  BY <1>4, <1>7
<1>12. fired # <<>> => Last(fired) < now
  BY <1>3, <1>4, <1>8
<1> QED
  BY <1>3, <1>6, <1>7, <1>9, <1>10, <1>11, <1>12

\* A fire answers what was owed.
LEMMA FireAnswers ==
  ASSUME NEW fired \in Seq(Nat), NEW paused \in SUBSET (Nat \ {0}), NEW day \in Nat, NEW now \in Nat,
         now <= day,
         NEW it \in Item, it # None, it.tickler # None, ~ it.paused, Due(it, now),
         Owed(it, fired, paused, day), \A i \in 1..Len(fired) : fired[i] # 0,
         NEW new \in Item, new # None, new.created = it.created, new.tickled = now
  PROVE  Owed(new, Append(fired, now), Paused(new, paused, day), day)
<1> DEFINE p == Paused(new, paused, day)
           f == Append(fired, now)
<1>1. /\ it.tickled < now /\ \A e \in paused : e < now
      /\ fired # <<>> => Last(fired) < now
  BY DueIsOwed
<1>2. /\ \A i \in 1..Len(fired) : fired[i] \in Nat /\ fired[i] <= day
      /\ \A i \in 1..(Len(fired) - 1) : fired[i] < fired[i + 1]
      /\ \A e \in paused : e \in Nat /\ e <= day
      /\ it.created <= day /\ it.created \in Nat
  BY DEF Owed, Item
<1>3. /\ Len(f) = Len(fired) + 1 /\ Len(fired) \in Nat /\ f # <<>> /\ f[Len(fired) + 1] = now
      /\ \A i \in 1..Len(fired) : f[i] = fired[i]
  <2>1. Len(f) = Len(fired) + 1 /\ Len(fired) \in Nat
    OBVIOUS
  <2>2. \A i \in 1..Len(fired) : f[i] = fired[i]
    OBVIOUS
  <2>3. f[Len(fired) + 1] = now
    OBVIOUS
  <2>4. f # <<>>
    <3> HIDE DEF f
    <3>1. f = <<>> => Len(f) = 0
      OBVIOUS
    <3> QED
      BY <2>1, <3>1
  <2> QED
    BY <2>1, <2>2, <2>3, <2>4
<1>4. Last(f) = now
  BY <1>3 DEF Last
<1> HIDE DEF f
<1>5. \A i \in 1..Len(f) : f[i] <= day
  <2> SUFFICES ASSUME NEW i \in 1..(Len(fired) + 1)
               PROVE  f[i] <= day
    BY <1>3
  <2>1. i \in 1..Len(fired) \/ i = Len(fired) + 1
    BY <1>3
  <2> QED
    BY <1>2, <1>3, <2>1
<1>6. \A i \in 1..(Len(f) - 1) : f[i] < f[i + 1]
  <2> SUFFICES ASSUME NEW i \in 1..Len(fired)
               PROVE  f[i] < f[i + 1]
    BY <1>3
  <2>1. CASE i = Len(fired)
    <3>1. fired # <<>> /\ Last(fired) = fired[Len(fired)]
      BY <2>1 DEF Last
    <3> QED
      BY <1>1, <1>3, <2>1, <3>1
  <2>2. CASE i # Len(fired)
    <3>1. i \in 1..(Len(fired) - 1) /\ i + 1 \in 1..Len(fired)
      BY <1>3, <2>2
    <3> QED
      BY <1>2, <1>3, <3>1
  <2> QED
    BY <2>1, <2>2
<1>7. ASSUME NEW e \in p
      PROVE  e \in Nat /\ e <= day /\ ((e \in paused /\ e < now) \/ (new.paused /\ e = day))
  <2>1. e \in paused \/ (new.paused /\ e = day)
    BY DEF Paused
  <2>2. e \in paused => e \in Nat /\ e <= day /\ e < now
    BY <1>1, <1>2
  <2>3. day <= day
    OBVIOUS
  <2> QED
    BY <2>1, <2>2, <2>3
<1>8. \A e \in p : e <= day
  BY <1>7
<1>9. new.tickler = None => p = {}
  BY DEF Paused
<1>10. ASSUME ~ new.paused, NEW e \in p
       PROVE  e <= new.tickled
  <2>1. e \in Nat /\ e < now
    BY <1>7, <1>10
  <2> QED
    BY <2>1
<1>11. new.created <= day /\ new.tickled <= day
  BY <1>2
<1> HIDE DEF p
<1>12. Owed(new, f, p, day)
  BY <1>3, <1>4, <1>5, <1>6, <1>8, <1>9, <1>10, <1>11 DEF Owed
<1> QED
  BY <1>12 DEF f, p

\* The history of an item's fires, well formed.
LEMMA TimelyTypes ==
  ASSUME Sound, Timely, NEW id \in Ids
  PROVE  /\ fires[id] \in Seq(Nat) /\ \A i \in 1..Len(fires[id]) : fires[id][i] # 0
         /\ pausedOn[id] \in SUBSET Nat /\ pausedOn[id] \in SUBSET (Nat \ {0})
         /\ dir.board.item[id] \in Item \cup {None}
         /\ Owed(dir.board.item[id], fires[id], pausedOn[id], today)
         /\ fires[id] # <<>> => id < dir.board.next
<1>1. /\ fires[id] \in Seq(1..MaxDay) /\ pausedOn[id] \in SUBSET (1..MaxDay) /\ MaxDay \in Nat
  BY BoardAssumption DEF Sound, TypeOK
<1>2. dir.board.item[id] \in Item \cup {None}
  BY SoundFacts, DirFields
<1>3. fires[id] \in Seq(Nat) /\ \A i \in 1..Len(fires[id]) : fires[id][i] # 0
  BY <1>1
<1>4. pausedOn[id] \in SUBSET Nat /\ pausedOn[id] \in SUBSET (Nat \ {0})
  BY <1>1
<1> QED
  BY <1>2, <1>3, <1>4 DEF Timely

\* At first nothing has fired.
LEMMA InitTimely == Init => Timely
<1> SUFFICES ASSUME Init
             PROVE  Timely
  OBVIOUS
<1>1. /\ \A r \in Runners : runner[r] = None
      /\ \A id \in Ids : dir.board.item[id] = None /\ fires[id] = <<>> /\ pausedOn[id] = {}
  BY DEF Init, EmptyBoard
<1>2. ASSUME NEW id \in Ids
      PROVE  Owed(None, <<>>, {}, today)
  <2>1. Len(<<>>) = 0
    OBVIOUS
  <2> QED
    BY <2>1 DEF Owed
<1> QED
  BY <1>1, <1>2 DEF Timely

\* A step that fires no item: those it leaves on the board keep what they count
\* from, and the date has not gone back.
LEMMA CountsIsTimely ==
  ASSUME Sound, Timely, Sound', NotePauses, fires' = fires,
         dir.board.next <= dir'.board.next, today <= today',
         Counts(dir, dir', today'),
         \A r \in Runners : runner'[r] # None =>
           runner'[r].now = today \/ (runner[r] # None /\ runner'[r].now = runner[r].now)
  PROVE  Timely'
<1>1. /\ today \in Nat /\ today' \in Nat /\ today' \in 1..MaxDay /\ MaxDay \in Nat
      /\ dir \in Dir /\ dir' \in Dir /\ dir.board.next \in Nat /\ dir'.board.next \in Nat
  <2>1. today' \in 1..MaxDay /\ MaxDay \in Nat /\ dir' \in Dir
    BY BoardAssumption DEF Sound, TypeOK
  <2> QED
    BY <2>1, SoundFacts, Numbers
<1>2. ASSUME NEW r \in Runners, runner'[r] # None
      PROVE  runner'[r].now <= today'
  <2>1. CASE runner'[r].now = today
    BY <1>1, <2>1
  <2>2. CASE runner[r] # None /\ runner'[r].now = runner[r].now
    <3>1. runner[r].now \in Nat /\ runner[r].now <= today
      <4>1. runner[r] \in {None} \cup [now : 1..MaxDay, done : SUBSET Ids]
        BY DEF Sound, TypeOK
      <4> QED
        BY <1>1, <2>2, <4>1 DEF Timely
    <3> QED
      BY <1>1, <2>2, <3>1
  <2> QED
    BY <1>2, <2>1, <2>2
<1>3. ASSUME NEW id \in Ids, fires[id] # <<>>
      PROVE  id < dir'.board.next
  <2>1. id < dir.board.next
    BY <1>3, TimelyTypes
  <2> QED
    BY <1>1, <2>1, IdsAreNumbers
<1>4. ASSUME NEW id \in Ids
      PROVE  Owed(dir'.board.item[id], fires[id], pausedOn'[id], today')
  <2> DEFINE new == dir'.board.item[id]
             it  == dir.board.item[id]
  <2>1. new \in Item \cup {None}
    BY <1>1, DirFields
  <2>2. new # None =>
          \/ it # None /\ Stamped(it, new, today')
          \/ it = None /\ fires[id] = <<>> /\ new.created = today' /\ new.tickled = 0
    <3> SUFFICES ASSUME new # None, id >= dir.board.next
                 PROVE  it = None /\ fires[id] = <<>>
      BY DEF Counts
    <3>1. it = None
      BY SoundFacts DEF Fresh
    <3>2. ~ (id < dir.board.next)
      BY <1>1, IdsAreNumbers
    <3> QED
      BY <3>1, <3>2, TimelyTypes
  <2>3. Owed(new, fires[id], Paused(new, pausedOn[id], today'), today')
    <3>1. /\ fires[id] \in Seq(Nat) /\ pausedOn[id] \in SUBSET Nat /\ it \in Item \cup {None}
          /\ Owed(it, fires[id], pausedOn[id], today)
      BY TimelyTypes
    <3> HIDE DEF new, it
    <3> QED
      BY <1>1, <2>1, <2>2, <3>1, StaysOwed
  <2> QED
    BY <2>3, PausedIs
<1> QED
  BY <1>2, <1>3, <1>4 DEF Timely

\* A fire is later than the last one, and owed.
LEMMA FireIsTimely ==
  ASSUME Sound, Timely, Sound', NEW k \in Runners, NEW id \in Ids, FireStep(k, id)
  PROVE  Timely'
<1> DEFINE now == runner[k].now
<1>1. /\ fires' = [fires EXCEPT ![id] = Append(@, now)]
      /\ runner' = [runner EXCEPT ![k].done = @ \cup {id}]
      /\ today' = today /\ NotePauses /\ runner[k] # None
  BY DEF FireStep
<1>2. PICK r : Fired(dir, r, id, now) /\ Legal(dir, r, {}) /\ dir' = r.dir
  BY FireIsFired
<1>3. /\ now \in Nat /\ now # 0 /\ now <= today /\ today \in Nat
      /\ dir \in Dir /\ dir' \in Dir /\ dir.board.next \in Nat /\ dir'.board.next \in Nat
  <2>1. now \in 1..MaxDay /\ now \in Nat /\ MaxDay \in Nat
    BY FireIsFired, BoardAssumption
  <2>2. dir' \in Dir
    BY DEF Sound, TypeOK
  <2>3. now <= today
    BY <1>1 DEF Timely
  <2> QED
    BY <2>1, <2>2, <2>3, SoundFacts, Numbers
<1>4. /\ dir.board.item[id] # None /\ dir.board.item[id].tickler # None
      /\ ~ dir.board.item[id].paused /\ Due(dir.board.item[id], now)
  BY FireIsFired
<1>5. id < dir.board.next
  <2>1. ~ (id >= dir.board.next)
    BY <1>4, SoundFacts DEF Fresh
  <2> QED
    BY <1>3, <2>1, IdsAreNumbers
<1>6. /\ dir.board.next <= dir'.board.next
      /\ \A x \in Ids \ {id} : x < dir.board.next => dir'.board.item[x] = dir.board.item[x]
      /\ \A x \in Ids : x >= dir.board.next /\ dir'.board.item[x] # None =>
           dir'.board.item[x].created = now /\ dir'.board.item[x].tickled = 0
      /\ dir'.board.item[id] # None
      /\ dir'.board.item[id].created = dir.board.item[id].created
      /\ dir'.board.item[id].tickled = now
  BY <1>2 DEF Fired
<1>7. fires \in [Ids -> Seq(1..MaxDay)] /\ runner \in [Runners -> {None} \cup [now : 1..MaxDay, done : SUBSET Ids]]
  BY DEF Sound, TypeOK
<1>8. /\ fires'[id] = Append(fires[id], now)
      /\ \A x \in Ids \ {id} : fires'[x] = fires[x]
  BY <1>1, <1>7
<1>9. ASSUME NEW q \in Runners, runner'[q] # None
      PROVE  runner'[q].now <= today'
  <2>1. CASE q = k
    <3>1. runner[k] \in [now : 1..MaxDay, done : SUBSET Ids]
      BY <1>1, <1>7
    <3>2. runner'[k] = [runner[k] EXCEPT !.done = @ \cup {id}]
      BY <1>1, <1>7
    <3>3. runner'[k].now = now
      BY <3>1, <3>2
    <3> QED
      BY <1>1, <1>3, <2>1, <3>3
  <2>2. CASE q # k
    BY <1>1, <1>7, <1>9, <2>2 DEF Timely
  <2> QED
    BY <2>1, <2>2
<1>10. ASSUME NEW x \in Ids, fires'[x] # <<>>
       PROVE  x < dir'.board.next
  <2>1. x < dir.board.next
    BY <1>5, <1>8, <1>10, TimelyTypes
  <2> QED
    BY <1>3, <1>6, <2>1, IdsAreNumbers
<1>11. ASSUME NEW x \in Ids
       PROVE  Owed(dir'.board.item[x], fires'[x], pausedOn'[x], today')
  <2> DEFINE new == dir'.board.item[x]
             it  == dir.board.item[x]
  <2>1. new \in Item \cup {None}
    BY <1>3, DirFields
  <2>2. /\ fires[x] \in Seq(Nat) /\ \A i \in 1..Len(fires[x]) : fires[x][i] # 0
        /\ pausedOn[x] \in SUBSET Nat /\ pausedOn[x] \in SUBSET (Nat \ {0})
        /\ it \in Item \cup {None}
        /\ Owed(it, fires[x], pausedOn[x], today)
    BY TimelyTypes
  <2>3. pausedOn'[x] = Paused(new, pausedOn[x], today)
    BY <1>1, PausedIs
  <2>4. CASE x = id
    <3>1. /\ it # None /\ it.tickler # None /\ ~ it.paused /\ Due(it, now)
          /\ new # None /\ new.created = it.created /\ new.tickled = now
      BY <1>4, <1>6, <2>4
    <3>2. it \in Item /\ new \in Item
      BY <2>1, <2>2, <3>1
    <3> HIDE DEF it, new, now
    <3>3. Owed(new, Append(fires[x], now), Paused(new, pausedOn[x], today), today)
      BY <1>3, <2>2, <3>1, <3>2, FireAnswers
    <3> QED
      BY <1>1, <1>8, <2>3, <2>4, <3>3 DEF new
  <2>5. CASE x # id /\ x < dir.board.next
    <3>1. new = it /\ fires'[x] = fires[x]
      BY <1>6, <1>8, <2>5
    <3>2. (new # None => it # None /\ Stamped(it, new, today)) /\ today <= today
      BY <1>3, <3>1, StampedReflexive
    <3> HIDE DEF it, new
    <3>3. Owed(new, fires[x], Paused(new, pausedOn[x], today), today)
      BY <1>3, <2>1, <2>2, <3>2, StaysOwed
    <3> QED
      BY <1>1, <2>3, <3>1, <3>3 DEF new
  <2>6. CASE x >= dir.board.next
    <3>1. it = None /\ fires[x] = <<>> /\ x # id
      <4>1. it = None
        BY <2>6, SoundFacts DEF Fresh
      <4>2. ~ (x < dir.board.next)
        BY <1>3, <2>6, IdsAreNumbers
      <4> QED
        BY <1>5, <4>1, <4>2, TimelyTypes
    <3>2. fires'[x] = <<>>
      BY <1>8, <3>1
    <3>3. new # None => new.created = now /\ new.tickled = 0
      BY <1>6, <2>6
    <3>4. pausedOn[x] = {}
      BY <2>2, <3>1 DEF Owed
    <3>5. new # None => new.created <= today /\ new.tickled <= today
      BY <1>3, <3>3
    <3>6. \A e \in Paused(new, pausedOn[x], today) : e = today /\ new # None /\ new.paused
      BY <3>4 DEF Paused
    <3>7. new = None \/ new.tickler = None => Paused(new, pausedOn[x], today) = {}
      BY DEF Paused
    <3>8. Len(<<>>) = 0 /\ today <= today
      BY <1>3
    <3> HIDE DEF new, it
    <3>9. Owed(new, <<>>, Paused(new, pausedOn[x], today), today)
      BY <1>3, <3>3, <3>5, <3>6, <3>7, <3>8 DEF Owed
    <3> QED
      BY <1>1, <2>3, <3>2, <3>9 DEF new
  <2> QED
    BY <1>3, <2>4, <2>5, <2>6, IdsAreNumbers
<1> QED
  BY <1>9, <1>10, <1>11 DEF Timely

\* Every step keeps the fires in order and owed.
LEMMA NextTimely == Untimed /\ Sound /\ Timely /\ [Next]_vars => Timely'
<1> SUFFICES ASSUME Untimed, Sound, Timely, [Next]_vars
             PROVE  Timely'
  OBVIOUS
<1>1. /\ Sound' /\ today \in Nat /\ dir.board.next \in Nat /\ dir \in Dir
      /\ runner \in [Runners -> {None} \cup [now : 1..MaxDay, done : SUBSET Ids]]
  BY NextSound, SoundFacts, Numbers DEF Sound, TypeOK
<1>2. Counts(dir, dir, today) /\ \A day \in Nat : Counts(dir, dir, day)
  <2>1. ASSUME NEW x \in Ids, dir.board.item[x] # None
        PROVE  x < dir.board.next
    <3>1. Home(dir, x) # None
      BY <2>1, NoneAssumption DEF Home
    <3> QED
      BY <3>1, SoundFacts, CleanDirectory
  <2> QED
    BY <2>1, <1>1, StampedReflexive DEF Counts
<1>3. CASE OperationStep
  <2>1. PICK r, gone : /\ Does(dir, r, gone, today) /\ dir' = r.dir
                       /\ UNCHANGED <<today, runner, fires>> /\ NotePauses
    BY <1>3 DEF OperationStep
  <2>2. Counts(dir, dir', today') /\ dir.board.next <= dir'.board.next
    BY <2>1 DEF Does, Legal
  <2> QED
    BY <1>1, <2>1, <2>2, CountsIsTimely
<1>4. CASE NextDay
  <2>1. today' \in Nat /\ today <= today' /\ UNCHANGED <<dir, runner, removed, fires>> /\ NotePauses
    BY <1>1, <1>4 DEF NextDay
  <2>2. Counts(dir, dir', today') /\ dir.board.next <= dir'.board.next
    BY <1>1, <1>2, <2>1
  <2> QED
    BY <1>1, <2>1, <2>2, CountsIsTimely
<1>5. ASSUME NEW k \in Runners, BeginTick(k) \/ EndTick(k)
      PROVE  Timely'
  <2>1. UNCHANGED <<dir, today, removed, fires, pausedOn>>
    BY <1>5 DEF BeginTick, EndTick
  <2>2. ASSUME NEW q \in Runners, runner'[q] # None
        PROVE  runner'[q].now = today \/ (runner[q] # None /\ runner'[q] = runner[q])
    <3>1. runner' = [runner EXCEPT ![k] = [now |-> today, done |-> {}]] \/ runner' = [runner EXCEPT ![k] = None]
      BY <1>5 DEF BeginTick, EndTick
    <3> QED
      BY <1>1, <2>2, <3>1
  <2>3. ASSUME NEW q \in Runners, runner'[q] # None
        PROVE  runner'[q].now <= today'
    BY <1>1, <2>1, <2>2, <2>3 DEF Timely
  <2> QED
    BY <2>1, <2>3 DEF Timely
<1>6. ASSUME NEW k \in Runners, NEW id \in Ids, FireStep(k, id)
      PROVE  Timely'
  BY <1>1, <1>6, FireIsTimely
<1>7. ASSUME NEW k \in Runners, NEW id \in Ids, FailStep(k, id)
      PROVE  Timely'
  <2>1. /\ UNCHANGED <<dir, fires, today, removed>> /\ NotePauses /\ runner[k] # None
        /\ runner' = [runner EXCEPT ![k].done = @ \cup {id}]
    BY <1>7 DEF FailStep
  <2>2. ASSUME NEW q \in Runners, runner'[q] # None
        PROVE  runner[q] # None /\ runner'[q].now = runner[q].now
    <3>1. CASE q = k
      <4>1. runner[k] \in [now : 1..MaxDay, done : SUBSET Ids]
        BY <1>1, <2>1
      <4>2. runner'[k] = [runner[k] EXCEPT !.done = @ \cup {id}]
        BY <1>1, <2>1
      <4> QED
        BY <2>1, <3>1, <4>1, <4>2
    <3>2. CASE q # k
      BY <1>1, <2>1, <2>2, <3>2
    <3> QED
      BY <3>1, <3>2
  <2>3. Counts(dir, dir', today') /\ dir.board.next <= dir'.board.next /\ today <= today'
    BY <1>1, <1>2, <2>1
  <2> QED
    BY <1>1, <2>1, <2>2, <2>3, CountsIsTimely
<1>8. CASE UNCHANGED vars
  BY <1>8 DEF vars, Timely
<1> QED
  BY <1>3, <1>4, <1>5, <1>6, <1>7, <1>8, NextIs

\* As long as nobody sets created: or tickled: by hand, an item is fired at
\* most once for a date, however many runs overlap and however old their dates.
THEOREM OnceADay ==
  ASSUME Untimed
  PROVE  Spec => []FiresAdvance
<1>1. Sound /\ Timely => FiresAdvance
  BY DEF Timely, Owed, FiresAdvance
<1>2. Init => Sound /\ Timely
  BY InitSound, InitTimely
<1>3. Sound /\ Timely /\ [Next]_vars => (Sound /\ Timely)'
  BY NextSound, NextTimely
<1> QED
  BY <1>1, <1>2, <1>3, PTL DEF Spec

\* And every fire is owed to a day of the schedule that has come, that the fire
\* before did not answer, and on which the item was not paused.
THEOREM FiresAreOwed ==
  ASSUME Untimed
  PROVE  Spec => EarnedFires
<1> DEFINE Earned == \A id \in Ids : fires'[id] # fires[id] =>
             LET it   == dir.board.item[id]
                 last == IF fires[id] = <<>> THEN 0 ELSE Last(fires[id])
             IN \E day \in it.tickler.days :
                  /\ last < day /\ day <= Last(fires'[id])
                  /\ it.tickler.oneShot \/ fires[id] # <<>> \/ day > it.created
                  /\ day \notin pausedOn[id]
<1>1. Sound /\ Timely /\ [Next]_vars => [Earned]_vars
  <2> SUFFICES ASSUME Sound, Timely, Next, NEW id \in Ids, fires'[id] # fires[id]
               PROVE  LET it   == dir.board.item[id]
                          last == IF fires[id] = <<>> THEN 0 ELSE Last(fires[id])
                      IN \E day \in it.tickler.days :
                           /\ last < day /\ day <= Last(fires'[id])
                           /\ it.tickler.oneShot \/ fires[id] # <<>> \/ day > it.created
                           /\ day \notin pausedOn[id]
    OBVIOUS
  <2>1. PICK k \in Runners, x \in Ids : FireStep(k, x)
    BY NextIs DEF OperationStep, NextDay, BeginTick, EndTick, FailStep
  <2>2. fires \in [Ids -> Seq(1..MaxDay)] /\ fires' = [fires EXCEPT ![x] = Append(@, runner[k].now)]
    BY <2>1 DEF FireStep, Sound, TypeOK
  <2>3. x = id /\ fires'[id] = Append(fires[id], runner[k].now)
    BY <2>2
  <2>4. /\ runner[k].now \in Nat /\ dir.board.item[id] # None
        /\ dir.board.item[id].tickler # None /\ ~ dir.board.item[id].paused
        /\ Due(dir.board.item[id], runner[k].now)
    BY <2>1, <2>3, FireIsFired
  <2>5. /\ fires[id] \in Seq(Nat) /\ \A i \in 1..Len(fires[id]) : fires[id][i] # 0
        /\ pausedOn[id] \in SUBSET (Nat \ {0})
        /\ dir.board.item[id] \in Item /\ today \in Nat
        /\ Owed(dir.board.item[id], fires[id], pausedOn[id], today)
    BY <2>4, TimelyTypes, SoundFacts
  <2>6. Last(fires'[id]) = runner[k].now
    <3>1. /\ Len(Append(fires[id], runner[k].now)) = Len(fires[id]) + 1
          /\ Append(fires[id], runner[k].now)[Len(fires[id]) + 1] = runner[k].now
      BY <2>4, <2>5
    <3> QED
      BY <2>3, <3>1 DEF Last
  <2>7. \E day \in dir.board.item[id].tickler.days :
          /\ (IF fires[id] = <<>> THEN 0 ELSE Last(fires[id])) < day /\ day <= runner[k].now
          /\ dir.board.item[id].tickler.oneShot \/ fires[id] # <<>> \/ day > dir.board.item[id].created
          /\ day \notin pausedOn[id]
    BY <2>4, <2>5, DueIsOwed
  <2> QED
    BY <2>6, <2>7
<1>2. Init => Sound /\ Timely
  BY InitSound, InitTimely
<1>3. Sound /\ Timely /\ [Next]_vars => (Sound /\ Timely)'
  BY NextSound, NextTimely
<1> QED
  BY <1>1, <1>2, <1>3, PTL DEF Spec, EarnedFires, Earned

-----------------------------------------------------------------------------
(* Caps, and notes.                                                        *)

\* An operation's step is one of its results, accepted at commit.
LEMMA OperationResult ==
  ASSUME NEW results, Operation(results)
  PROVE  \E r \in results : Commits(dir, r) /\ dir' = r.dir
BY DEF Operation, commit

\* No stage overfills that did not, and none that did has grown.
LEMMA NoOverfill ==
  ASSUME NEW d \in Dir, NEW e \in Dir, KeepsCaps(d, e), NEW s \in StageSet, OverCap(e, s)
  PROVE  OverCap(d, s) /\ ~ (Len(e.board.run[s]) > Len(d.board.run[s]))
<1>1. /\ Len(d.board.run[s]) \in Nat /\ Len(e.board.run[s]) \in Nat
      /\ d.board.wip[s] \in Nat /\ e.board.wip[s] \in Nat
  BY DirFields, RunLength
<1>2. /\ e.board.wip[s] = d.board.wip[s]
      /\ \/ Len(e.board.run[s]) <= Len(d.board.run[s])
         \/ e.board.wip[s] = 0
         \/ Len(e.board.run[s]) <= e.board.wip[s]
  BY DEF KeepsCaps
<1> QED
  BY <1>1, <1>2, SMTT(30) DEF OverCap

\* A change of an item in its place fills no stage.
LEMMA InPlaceKeepsCaps ==
  ASSUME NEW d \in Dir, NEW e, NEW id \in Ids, InPlace(d, e, id)
  PROVE  KeepsCaps(d, e)
<1>1. e.board.run = d.board.run /\ e.board.wip = d.board.wip
  BY DEF InPlace
<1>2. \A s \in StageSet : Len(d.board.run[s]) \in Nat
  BY DirFields, RunLength
<1>3. \A s \in StageSet : Len(d.board.run[s]) <= Len(d.board.run[s])
  BY <1>2
<1> QED
  BY <1>1, <1>3 DEF KeepsCaps

\* A stage that grew by an add or a batch was not full.
LEMMA GrownKeepsCaps ==
  ASSUME NEW d \in Dir, NEW e \in Dir, NEW day, Grown(d.board, e.board, day)
  PROVE  KeepsCaps(d, e)
<1>1. \A s \in StageSet : Len(d.board.run[s]) \in Nat /\ Len(e.board.run[s]) \in Nat
  BY DirFields, RunLength
<1>2. /\ e.board.wip = d.board.wip
      /\ \A s \in StageSet : \/ Len(e.board.run[s]) <= e.board.wip[s]
                             \/ e.board.wip[s] = 0
                             \/ Len(e.board.run[s]) = Len(d.board.run[s])
  BY DEF Grown
<1>3. \A s \in StageSet : Len(e.board.run[s]) = Len(d.board.run[s]) =>
                            Len(e.board.run[s]) <= Len(d.board.run[s])
  BY <1>1
<1> QED
  BY <1>2, <1>3 DEF KeepsCaps

\* A new cap is one that the stage does not exceed.
LEMMA CapFits ==
  ASSUME NEW d \in Dir, Grouped(d.board), NEW t \in StageSet, NEW n \in Nat,
         NEW r \in SetStageWipLimit(d, t, n), NEW s \in StageSet, OverCap(r.dir, s)
  PROVE  OverCap(d, s) /\ ~ (Len(r.dir.board.run[s]) > Len(d.board.run[s]))
<1>1. /\ r.dir.board.run = d.board.run
      /\ r.dir.board.wip[s] = IF s = t THEN n ELSE d.board.wip[s]
      /\ n = 0 \/ Len(d.board.run[t]) <= n
  BY SetCapSound
<1>2. Len(d.board.run[s]) \in Nat
  BY DirFields, RunLength
<1> QED
  BY <1>1, <1>2 DEF OverCap

\* Adding, starting, moving, firing and lowering a cap never overfill a stage,
\* nor make one that is overfull grow; only --pause may.
THEOREM CapsAreHeld == Spec => CapsHeld
<1>1. Sound /\ [Next]_vars =>
        [\A s \in StageSet :
           OverCap(dir', s) => \/ OverCap(dir, s) /\ ~ Grows(s)
                               \/ \E id \in Ids : Pause(id)]_vars
  <2> SUFFICES ASSUME Sound, Sound', Next, ~ (\E id \in Ids : Pause(id)), NEW s \in StageSet,
                      OverCap(dir', s)
               PROVE  OverCap(dir, s) /\ ~ Grows(s)
    BY NextSound
  <2> USE SoundFacts
  <2>1. dir' \in Dir
    BY DEF Sound, TypeOK
  <2>2. ASSUME KeepsCaps(dir, dir')
        PROVE  OverCap(dir, s) /\ ~ Grows(s)
    BY <2>1, <2>2, NoOverfill DEF Grows
  <2>3. ASSUME NEW id \in Ids, InPlace(dir, dir', id)
        PROVE  KeepsCaps(dir, dir')
    BY <2>3, InPlaceKeepsCaps
  <2>4. CASE Add
    <3>1. PICK req \in AddRequests : \E r \in addV2(dir, req, today) : dir' = r.dir
      BY <2>4, OperationResult DEF Add
    <3>2. req \in AddRequest
      BY BoardAssumption
    <3>3. PICK r \in addV2(dir, req, today) : dir' = r.dir
      BY <3>1
    <3>4. Added(dir, r, today)
      BY <2>1, <3>2, <3>3, AddSound
    <3> QED
      BY <2>1, <2>2, <3>3, <3>4, GrownKeepsCaps DEF Added
  <2>5. CASE AddMany
    <3>1. PICK reqs \in Batches : \E r \in addManyV2(dir, reqs, today) : dir' = r.dir
      BY <2>5, OperationResult DEF AddMany
    <3>2. reqs \in Seq(AddRequest)
      BY BoardAssumption
    <3>3. Grown(dir.board, dir'.board, today)
      BY <3>1, <3>2, AddManySound DEF Added
    <3> QED
      BY <2>1, <2>2, <3>3, GrownKeepsCaps
  <2>6. CASE SetCap
    <3>1. PICK c \in Caps : \E r \in SetStageWipLimit(dir, c[1], c[2]) : dir' = r.dir
      BY <2>6, OperationResult DEF SetCap
    <3>2. c[1] \in StageSet /\ c[2] \in Nat
      BY BoardAssumption
    <3> QED
      BY <3>1, <3>2, CapFits DEF Grows
  <2>7. ASSUME NEW id \in Ids, Start(id)
        PROVE  KeepsCaps(dir, dir')
    BY <2>7, OperationResult, StartSound DEF Start
  <2>8. ASSUME NEW id \in Ids, Finish(id)
        PROVE  KeepsCaps(dir, dir')
    <3>1. PICK note \in Notes \cup {None} : \E r \in finishV2(dir, id, note) : dir' = r.dir
      BY <2>8, OperationResult DEF Finish
    <3>2. PICK r \in finishV2(dir, id, note) : dir' = r.dir
      BY <3>1
    <3>3. Finished(dir, r, id)
      BY FinishSound
    <3> QED
      BY <3>2, <3>3 DEF Finished
  <2>9. ASSUME NEW id \in Ids, Move(id)
        PROVE  KeepsCaps(dir, dir')
    <3>1. PICK t \in StageSet \cup {None}, index \in 0..(MaxId - 2), reason \in BOOLEAN :
            Operation(moveV2(dir, id, t, index, reason))
      BY <2>9 DEF Move
    <3>2. index \in Nat
      BY DirectoryAssumption
    <3> QED
      BY <3>1, <3>2, OperationResult, MoveSound
  <2>10. ASSUME NEW id \in Ids, RemoveForced(id)
         PROVE  KeepsCaps(dir, dir')
    BY <2>10, RemoveSound DEF RemoveForced, commit
  <2>11. ASSUME NEW id \in Ids, EditField(id)
         PROVE  KeepsCaps(dir, dir')
    BY <2>3, <2>11, OperationResult, UpdateSound, BoardAssumption DEF EditField
  <2>12. ASSUME NEW id \in Ids, EditBody(id)
         PROVE  KeepsCaps(dir, dir')
    <3>1. PICK u \in Updates, body \in Bodies : \E r \in Edit(dir, id, u, body, today) : dir' = r.dir
      BY <2>12, OperationResult DEF EditBody
    <3>2. u \in FieldUpdate /\ body \in SUBSET Notes
      BY BoardAssumption
    <3>3. InPlace(dir, dir', id)
      BY <3>1, <3>2, EditSound
    <3> QED
      BY <2>3, <3>3
  <2>13. ASSUME NEW id \in Ids, AddNote(id)
         PROVE  KeepsCaps(dir, dir')
    BY <2>3, <2>13, OperationResult, NoteSound DEF AddNote, EditsTo
  <2>14. ASSUME NEW id \in Ids, Attach(id)
         PROVE  KeepsCaps(dir, dir')
    BY <2>3, <2>14, OperationResult, AttachDetailSound, BoardAssumption DEF Attach, EditsTo
  <2>15. ASSUME NEW id \in Ids, SetBody(id)
         PROVE  KeepsCaps(dir, dir')
    BY <2>3, <2>15, OperationResult, SetDetailBodySound, BoardAssumption DEF SetBody, EditsTo
  <2>16. ASSUME NEW id \in Ids, AppendSection(id)
         PROVE  KeepsCaps(dir, dir')
    BY <2>3, <2>16, OperationResult, AppendDetailSectionSound DEF AppendSection, EditsTo
  <2>17. ASSUME NEW id \in Ids, Detach(id)
         PROVE  KeepsCaps(dir, dir')
    <3>1. PICK delete \in BOOLEAN : \E r \in DetachDetail(dir, id, delete) : dir' = r.dir
      BY <2>17, OperationResult DEF Detach
    <3>2. InPlace(dir, dir', id)
      BY <3>1, DetachDetailSound DEF EditsTo
    <3> QED
      BY <2>3, <3>2
  <2>18. ASSUME NEW k \in Runners, NEW id \in Ids, FireStep(k, id)
         PROVE  KeepsCaps(dir, dir')
    BY <2>18, FireIsFired DEF Fired
  <2>19. CASE UNCHANGED dir
    <3>1. Len(dir.board.run[s]) \in Nat
      BY DirFields, RunLength
    <3> QED
      BY <2>19, <3>1 DEF Grows
  <2>20. CASE \E k \in Runners : FireNext(k)
    BY <2>2, <2>18, <2>19, <2>20, FireNextIs DEF FailStep
  <2>21. CASE NextDay \/ \E k \in Runners : BeginTick(k) \/ EndTick(k)
    BY <2>19, <2>21 DEF NextDay, BeginTick, EndTick
  <2> QED
    BY <2>2, <2>4, <2>5, <2>6, <2>7, <2>8, <2>9, <2>10, <2>11, <2>12, <2>13, <2>14, <2>15, <2>16,
       <2>17, <2>20, <2>21 DEF Next
<1> QED
  BY <1>1, InitSound, NextSound, PTL DEF Spec, CapsHeld

\* What was written in an item's detail file is still there.
Keeps(d, e, id) ==
  d.detail[id] # None => e.detail[id] # None /\ d.detail[id].body \subseteq e.detail[id].body

\* What a detail file held is in it still, or in none: all but the replacing of
\* a body, the detaching of a file and --remove only add to what is written.
THEOREM NotesAreKept == Spec => NotesKept
<1>1. Sound /\ [Next]_vars =>
        [\A id \in Ids :
           dir.detail[id] # None =>
             \/ dir'.detail[id] # None /\ dir.detail[id].body \subseteq dir'.detail[id].body
             \/ SetBody(id) \/ EditBody(id) \/ Detach(id) \/ RemoveForced(id)]_vars
  <2> SUFFICES ASSUME Sound, Next, NEW id \in Ids, dir.detail[id] # None,
                      ~ (SetBody(id) \/ EditBody(id) \/ Detach(id) \/ RemoveForced(id))
               PROVE  Keeps(dir, dir', id)
    BY DEF Keeps
  <2> USE SoundFacts
  <2>1. id < dir.board.next
    BY CleanDirectory
  <2>2. dir'.detail[id] = dir.detail[id] => Keeps(dir, dir', id)
    BY DEF Keeps
  <2>3. ASSUME NEW x \in Ids, Same(dir, dir', x), x # id
        PROVE  Keeps(dir, dir', id)
    BY <2>2, <2>3 DEF Same
  <2>4. ASSUME NEW x \in Ids, InPlace(dir, dir', x), x # id
        PROVE  Keeps(dir, dir', id)
    BY <2>3, <2>4 DEF InPlace
  <2>5. CASE Add
    <3>1. PICK req \in AddRequests : \E r \in addV2(dir, req, today) : dir' = r.dir
      BY <2>5, OperationResult DEF Add
    <3>2. req \in AddRequest
      BY BoardAssumption
    <3> QED
      BY <2>1, <2>2, <3>1, <3>2, AddSound DEF Added
  <2>6. CASE AddMany
    <3>1. PICK reqs \in Batches : \E r \in addManyV2(dir, reqs, today) : dir' = r.dir
      BY <2>6, OperationResult DEF AddMany
    <3>2. reqs \in Seq(AddRequest)
      BY BoardAssumption
    <3> QED
      BY <2>1, <2>2, <3>1, <3>2, AddManySound DEF Added
  <2>7. CASE SetCap
    <3>1. PICK c \in Caps : \E r \in SetStageWipLimit(dir, c[1], c[2]) : dir' = r.dir
      BY <2>7, OperationResult DEF SetCap
    <3>2. c[1] \in StageSet /\ c[2] \in Nat
      BY BoardAssumption
    <3> QED
      BY <2>2, <3>1, <3>2, SetCapSound
  <2>8. ASSUME NEW x \in Ids, Start(x) \/ Pause(x) \/ Move(x)
        PROVE  Keeps(dir, dir', id)
    <3>1. ASSUME NEW r, Moved(dir, r, x), dir' = r.dir
          PROVE  Keeps(dir, dir', id)
      BY <2>2, <3>1 DEF Moved
    <3>2. CASE Start(x)
      BY <3>1, <3>2, OperationResult, StartSound DEF Start
    <3>3. CASE Pause(x)
      BY <3>1, <3>3, OperationResult, PauseSound DEF Pause
    <3>4. CASE Move(x)
      <4>1. PICK t \in StageSet \cup {None}, index \in 0..(MaxId - 2), reason \in BOOLEAN :
              Operation(moveV2(dir, x, t, index, reason))
        BY <3>4 DEF Move
      <4>2. index \in Nat
        BY DirectoryAssumption
      <4> QED
        BY <3>1, <4>1, <4>2, OperationResult, MoveSound
    <3> QED
      BY <2>8, <3>2, <3>3, <3>4
  <2>9. ASSUME NEW x \in Ids, Finish(x)
        PROVE  Keeps(dir, dir', id)
    <3>1. PICK note \in Notes \cup {None} : \E r \in finishV2(dir, x, note) : dir' = r.dir
      BY <2>9, OperationResult DEF Finish
    <3>2. PICK r \in finishV2(dir, x, note) : dir' = r.dir
      BY <3>1
    <3>3. Finished(dir, r, x)
      BY FinishSound
    <3> QED
      BY <2>3, <3>2, <3>3 DEF Finished, Keeps
  <2>10. ASSUME NEW x \in Ids, EditField(x)
         PROVE  Keeps(dir, dir', id)
    <3>1. PICK u \in Updates : \E r \in Update(dir, x, u, today) : dir' = r.dir
      BY <2>10, OperationResult DEF EditField
    <3>2. u \in FieldUpdate
      BY BoardAssumption
    <3> QED
      BY <2>4, <3>1, <3>2, UpdateSound DEF Keeps
  <2>11. ASSUME NEW x \in Ids, AddNote(x)
         PROVE  Keeps(dir, dir', id)
    <3>1. PICK note \in Notes : \E r \in Note(dir, x, note) : dir' = r.dir
      BY <2>11, OperationResult DEF AddNote
    <3> QED
      BY <2>4, <3>1, NoteSound DEF EditsTo, Keeps
  <2>12. ASSUME NEW x \in Ids, Attach(x)
         PROVE  Keeps(dir, dir', id)
    <3>1. PICK body \in Bodies : \E r \in AttachDetail(dir, x, body) : dir' = r.dir
      BY <2>12, OperationResult DEF Attach
    <3>2. body \in SUBSET Notes
      BY BoardAssumption
    <3> QED
      BY <2>4, <3>1, <3>2, AttachDetailSound DEF EditsTo, Keeps
  <2>13. ASSUME NEW x \in Ids, AppendSection(x)
         PROVE  Keeps(dir, dir', id)
    <3>1. PICK note \in Notes : \E r \in AppendDetailSection(dir, x, note) : dir' = r.dir
      BY <2>13, OperationResult DEF AppendSection
    <3> QED
      BY <2>4, <3>1, AppendDetailSectionSound DEF EditsTo, Keeps
  <2>14. ASSUME NEW x \in Ids, SetBody(x) \/ EditBody(x) \/ Detach(x)
         PROVE  Keeps(dir, dir', id)
    <3>1. InPlace(dir, dir', x)
      <4>1. CASE SetBody(x)
        BY <4>1, OperationResult, SetDetailBodySound, BoardAssumption DEF SetBody, EditsTo
      <4>2. CASE EditBody(x)
        <5>1. PICK u \in Updates, body \in Bodies : \E r \in Edit(dir, x, u, body, today) : dir' = r.dir
          BY <4>2, OperationResult DEF EditBody
        <5>2. u \in FieldUpdate /\ body \in SUBSET Notes
          BY BoardAssumption
        <5>3. PICK r \in Edit(dir, x, u, body, today) : dir' = r.dir
          BY <5>1
        <5>4. InPlace(dir, r.dir, x)
          BY <5>2, EditSound
        <5> QED
          BY <5>3, <5>4
      <4>3. CASE Detach(x)
        <5>1. PICK delete \in BOOLEAN : \E r \in DetachDetail(dir, x, delete) : dir' = r.dir
          BY <4>3, OperationResult DEF Detach
        <5> QED
          BY <5>1, DetachDetailSound DEF EditsTo
      <4> QED
        BY <2>14, <4>1, <4>2, <4>3
    <3> QED
      BY <2>4, <2>14, <3>1
  <2>15. ASSUME NEW x \in Ids, RemoveForced(x)
         PROVE  Keeps(dir, dir', id)
    <3>1. Same(dir, dir', x)
      BY <2>15, RemoveSound DEF RemoveForced, commit
    <3> QED
      BY <2>3, <2>15, <3>1
  <2>16. CASE \E k \in Runners : FireNext(k)
    <3>1. PICK k \in Runners, x \in Ids : FireStep(k, x) \/ FailStep(k, x)
      BY <2>16, FireNextIs
    <3>2. FireStep(k, x) => dir'.detail = dir.detail
      BY FireIsFired DEF Fired
    <3>3. FailStep(k, x) => dir' = dir
      BY DEF FailStep
    <3> QED
      BY <2>2, <3>1, <3>2, <3>3
  <2>17. CASE NextDay \/ \E k \in Runners : BeginTick(k) \/ EndTick(k)
    BY <2>2, <2>17 DEF NextDay, BeginTick, EndTick
  <2>18. CASE \E x \in Ids :
                \/ Start(x) \/ Pause(x) \/ Finish(x) \/ Move(x) \/ RemoveForced(x)
                \/ EditField(x) \/ EditBody(x) \/ AddNote(x)
                \/ Attach(x) \/ SetBody(x) \/ AppendSection(x) \/ Detach(x)
    BY <2>8, <2>9, <2>10, <2>11, <2>12, <2>13, <2>14, <2>15, <2>18
  <2> QED
    BY <2>5, <2>6, <2>7, <2>16, <2>17, <2>18 DEF Next
<1> QED
  BY <1>1, InitSound, NextSound, PTL DEF Spec, NotesKept

-----------------------------------------------------------------------------
(* The ranking.                                                            *)

\* A step that keeps the order of all but one item moves one item at most.
MovesOne(d, e) == \E mover \in Ids : KeepsOrder(d.board, e.board, {mover})

\* Runs that are as they were move none.
LEMMA SameRunsMoveNone ==
  ASSUME NEW d, NEW e, e.board.run = d.board.run
  PROVE  MovesOne(d, e)
<1>1. 1 \in Ids
  BY DirectoryAssumption DEF Ids
<1>2. KeepsOrder(d.board, e.board, {1})
  BY SameRunsKeepOrder
<1> QED
  BY <1>1, <1>2 DEF MovesOne

\* Nor do an add and a batch.
LEMMA AddedMovesNone ==
  ASSUME NEW d, NEW r, NEW day, Added(d, r, day)
  PROVE  MovesOne(d, r.dir)
<1>1. 1 \in Ids
  BY DirectoryAssumption DEF Ids
<1>2. KeepsOrder(d.board, r.dir.board, {})
  BY DEF Added, Grown
<1>3. KeepsOrder(d.board, r.dir.board, {1})
  BY <1>2, KeepsOrderButFor
<1> QED
  BY <1>1, <1>3 DEF MovesOne

\* Whatever is done to a directory, by hand, by a batch or by a tick run, all
\* the items it keeps but one stay on their stages, in their order.
THEOREM RankingIsKept == Spec => OneItemMoves
<1>1. Sound /\ [Next]_vars =>
        [\E mover \in Ids :
           \A i, j \in (OnBoard(dir) \cap OnBoard(dir')) \ {mover} :
             /\ StageOf(dir'.board, i) = StageOf(dir.board, i)
             /\ Precedes(dir'.board, i, j) <=> Precedes(dir.board, i, j)]_vars
  <2> SUFFICES ASSUME Sound, Next
               PROVE  MovesOne(dir, dir')
    BY DEF MovesOne, KeepsOrder, OnBoard
  <2> USE SoundFacts
  <2>1. ASSUME NEW id \in Ids, KeepsOrder(dir.board, dir'.board, {id})
        PROVE  MovesOne(dir, dir')
    BY <2>1 DEF MovesOne
  <2>2. ASSUME NEW id \in Ids, InPlace(dir, dir', id)
        PROVE  MovesOne(dir, dir')
    <3>1. dir'.board.run = dir.board.run
      BY <2>2 DEF InPlace
    <3> QED
      BY <3>1, SameRunsMoveNone
  <2>3. CASE Add
    <3>1. PICK req \in AddRequests : \E r \in addV2(dir, req, today) : dir' = r.dir
      BY <2>3, OperationResult DEF Add
    <3>2. req \in AddRequest
      BY BoardAssumption
    <3> QED
      BY <3>1, <3>2, AddSound, AddedMovesNone
  <2>4. CASE AddMany
    <3>1. PICK reqs \in Batches : \E r \in addManyV2(dir, reqs, today) : dir' = r.dir
      BY <2>4, OperationResult DEF AddMany
    <3>2. reqs \in Seq(AddRequest)
      BY BoardAssumption
    <3> QED
      BY <3>1, <3>2, AddManySound, AddedMovesNone
  <2>5. CASE SetCap
    <3>1. PICK c \in Caps : \E r \in SetStageWipLimit(dir, c[1], c[2]) : dir' = r.dir
      BY <2>5, OperationResult DEF SetCap
    <3>2. c[1] \in StageSet /\ c[2] \in Nat
      BY BoardAssumption
    <3> QED
      BY <3>1, <3>2, SetCapSound, SameRunsMoveNone
  <2>6. ASSUME NEW id \in Ids, Start(id) \/ Pause(id) \/ Move(id)
        PROVE  MovesOne(dir, dir')
    <3>1. ASSUME NEW r, Moved(dir, r, id), dir' = r.dir
          PROVE  MovesOne(dir, dir')
      BY <2>1, <3>1 DEF Moved
    <3>2. CASE Start(id)
      BY <3>1, <3>2, OperationResult, StartSound DEF Start
    <3>3. CASE Pause(id)
      BY <3>1, <3>3, OperationResult, PauseSound DEF Pause
    <3>4. CASE Move(id)
      <4>1. PICK t \in StageSet \cup {None}, index \in 0..(MaxId - 2), reason \in BOOLEAN :
              Operation(moveV2(dir, id, t, index, reason))
        BY <3>4 DEF Move
      <4>2. index \in Nat
        BY DirectoryAssumption
      <4> QED
        BY <3>1, <4>1, <4>2, OperationResult, MoveSound
    <3> QED
      BY <2>6, <3>2, <3>3, <3>4
  <2>7. ASSUME NEW id \in Ids, Finish(id)
        PROVE  MovesOne(dir, dir')
    <3>1. PICK note \in Notes \cup {None} : \E r \in finishV2(dir, id, note) : dir' = r.dir
      BY <2>7, OperationResult DEF Finish
    <3>2. PICK r \in finishV2(dir, id, note) : dir' = r.dir
      BY <3>1
    <3>3. Finished(dir, r, id)
      BY FinishSound
    <3> QED
      BY <2>1, <3>2, <3>3 DEF Finished
  <2>8. ASSUME NEW id \in Ids, RemoveForced(id)
        PROVE  MovesOne(dir, dir')
    <3>1. PICK withDetail \in BOOLEAN : \E r \in removeInternal(dir, id, withDetail) : dir' = r.dir
      BY <2>8 DEF RemoveForced, commit
    <3>2. PICK r \in removeInternal(dir, id, withDetail) : dir' = r.dir
      BY <3>1
    <3>3. KeepsOrder(dir.board, r.dir.board, {id})
      BY RemoveSound
    <3> QED
      BY <2>1, <3>2, <3>3
  <2>9. ASSUME NEW id \in Ids, EditField(id)
        PROVE  MovesOne(dir, dir')
    BY <2>2, <2>9, OperationResult, UpdateSound, BoardAssumption DEF EditField
  <2>10. ASSUME NEW id \in Ids, EditBody(id)
         PROVE  MovesOne(dir, dir')
    <3>1. PICK u \in Updates, body \in Bodies : \E r \in Edit(dir, id, u, body, today) : dir' = r.dir
      BY <2>10, OperationResult DEF EditBody
    <3>2. u \in FieldUpdate /\ body \in SUBSET Notes
      BY BoardAssumption
    <3> QED
      BY <2>2, <3>1, <3>2, EditSound
  <2>11. ASSUME NEW id \in Ids, AddNote(id)
         PROVE  MovesOne(dir, dir')
    BY <2>2, <2>11, OperationResult, NoteSound DEF AddNote, EditsTo
  <2>12. ASSUME NEW id \in Ids, Attach(id)
         PROVE  MovesOne(dir, dir')
    BY <2>2, <2>12, OperationResult, AttachDetailSound, BoardAssumption DEF Attach, EditsTo
  <2>13. ASSUME NEW id \in Ids, SetBody(id)
         PROVE  MovesOne(dir, dir')
    BY <2>2, <2>13, OperationResult, SetDetailBodySound, BoardAssumption DEF SetBody, EditsTo
  <2>14. ASSUME NEW id \in Ids, AppendSection(id)
         PROVE  MovesOne(dir, dir')
    BY <2>2, <2>14, OperationResult, AppendDetailSectionSound DEF AppendSection, EditsTo
  <2>15. ASSUME NEW id \in Ids, Detach(id)
         PROVE  MovesOne(dir, dir')
    <3>1. PICK delete \in BOOLEAN : \E r \in DetachDetail(dir, id, delete) : dir' = r.dir
      BY <2>15, OperationResult DEF Detach
    <3>2. InPlace(dir, dir', id)
      BY <3>1, DetachDetailSound DEF EditsTo
    <3> QED
      BY <2>2, <3>2
  <2>16. ASSUME NEW k \in Runners, NEW id \in Ids, FireStep(k, id)
         PROVE  MovesOne(dir, dir')
    BY <2>1, <2>16, FireIsFired DEF Fired
  <2>17. CASE UNCHANGED dir
    BY <2>17, SameRunsMoveNone
  <2>18. CASE \E k \in Runners : FireNext(k)
    BY <2>16, <2>17, <2>18, FireNextIs DEF FailStep
  <2>19. CASE NextDay \/ \E k \in Runners : BeginTick(k) \/ EndTick(k)
    BY <2>17, <2>19 DEF NextDay, BeginTick, EndTick
  <2> QED
    BY <2>3, <2>4, <2>5, <2>6, <2>7, <2>8, <2>9, <2>10, <2>11, <2>12, <2>13, <2>14, <2>15,
       <2>18, <2>19 DEF Next
<1> QED
  BY <1>1, InitSound, NextSound, PTL DEF Spec, OneItemMoves

==============================================================================
