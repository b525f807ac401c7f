------------------------------- MODULE FileTx --------------------------------
(***************************************************************************)
(* The transaction protocol of a Store over the files of one directory.    *)
(*                                                                         *)
(* A Store serialises its callers with a mutex.  Nothing serialises two    *)
(* Stores: the CLI, the web service and a cron job each open the directory *)
(* in a process of their own, and what stands between them is the stamp    *)
(* (size and mtime) that load() takes of every file before it reads it and *)
(* that writeSet.Commit() compares before its first write.                 *)
(*                                                                         *)
(* The module knows nothing of what the files say.  What an operation does *)
(* is Plan: from the contents it read and its request, the contents it     *)
(* wants, the files it writes in order, and the files it deletes.  Each    *)
(* write is an atomic rename, so a file is seen whole, before or after.    *)
(***************************************************************************)
EXTENDS Integers, Sequences

CONSTANTS
  Stores,        \* the open directories, one per process
  Workers,       \* the callers
  NoWorker,      \* nobody
  StoreOf,       \* the Store each caller uses
  ReadOrder,     \* the files in the order load() reads them
  Details,       \* those of details/, read only if the listing shows them
  Values,        \* the contents a file can have
  Absent,        \* the content of a file that is not there
  InitContents,  \* the contents the directory starts with, one of
  RequestsOf,    \* what each caller asks for
  Plan(_, _),    \* the plans for a request over the contents read
  Faults,        \* may a process crash, or a write fail
  MaxOps         \* bound: operations begun

Files == {ReadOrder[i] : i \in 1..Len(ReadOrder)}
Requests == UNION {RequestsOf[w] : w \in Workers}
Contents == [Files -> Values \cup {Absent}]
Plans == [target : Contents, writes : Seq(Files), deletes : Seq(Files)]

\* A plan has a content for each file it writes and none for one it deletes,
\* and leaves the other files as they were read.
WellFormed(c, p) ==
  /\ \A i \in 1..Len(p.writes) : p.target[p.writes[i]] # Absent
  /\ \A i \in 1..Len(p.deletes) : p.target[p.deletes[i]] = Absent
  /\ \A f \in Files : \/ p.target[f] = c[f]
                      \/ \E i \in 1..Len(p.writes) : p.writes[i] = f
                      \/ \E i \in 1..Len(p.deletes) : p.deletes[i] = f

ASSUME FileTxAssumption ==
  /\ StoreOf \in [Workers -> Stores]
  /\ NoWorker \notin Workers
  /\ ReadOrder \in Seq(Files)
  /\ \A i, j \in 1..Len(ReadOrder) : ReadOrder[i] = ReadOrder[j] => i = j
  /\ Details \subseteq Files
  /\ Absent \notin Values
  /\ InitContents \subseteq Contents
  /\ DOMAIN RequestsOf = Workers
  /\ \A w \in Workers : RequestsOf[w] # {}
  /\ Faults \in BOOLEAN
  /\ MaxOps \in Nat

ASSUME PlanAssumption ==
  \A c \in Contents, r \in Requests :
    /\ Plan(c, r) \subseteq Plans
    /\ \A p \in Plan(c, r) : WellFormed(c, p)

VARIABLES
  content,  \* the files of the directory
  version,  \* what stat tells apart of a file: grows with every change to it
  clock,    \* the last version given out
  lock,     \* s.mu of each Store: its holder, or NoWorker
  pc,       \* where each caller is
  request,  \* what it asked for
  at,       \* how far its load() has come along ReadOrder
  listing,  \* the names details/ showed it
  stamp,    \* the stamps its load() took
  copy,     \* the contents its load() read
  plan,     \* the transaction it is to commit
  todo,     \* the files it has still to check, or to write
  dels,     \* the files it has still to delete
  checked,  \* history: the clock when its check began
  ops       \* operations begun so far

vars == <<content, version, clock, lock, pc, request, at, listing, stamp, copy,
          plan, todo, dels, checked, ops>>

disk   == <<content, version, clock>>
model  == <<at, listing, stamp, copy>>   \* of the load()
staged == <<plan, todo, dels, checked>>  \* of the commit

\* Bug: the clock of the file system is coarser than the changes.
stampOfBug(f) == IF content[f] = Absent THEN 0 ELSE 1 + version[f] \div 2

\* What stat says of a file now.  Zero is a missing file, whatever was there
\* before: the equality of two stamps is then equality.
stampOf(f) == IF content[f] = Absent THEN 0 ELSE version[f]

Nothing(x) == [f \in Files |-> x]
NoPlan == [target |-> Nothing(Absent), writes |-> <<>>, deletes |-> <<>>]

Init ==
  /\ content \in InitContents
  /\ version = Nothing(1)
  /\ clock = 1
  /\ lock = [s \in Stores |-> NoWorker]
  /\ pc = [w \in Workers |-> "idle"]
  /\ request = [w \in Workers |-> CHOOSE r \in RequestsOf[w] : TRUE]
  /\ at = [w \in Workers |-> 1]
  /\ listing = [w \in Workers |-> {}]
  /\ stamp = [w \in Workers |-> Nothing(0)]
  /\ copy = [w \in Workers |-> Nothing(Absent)]
  /\ plan = [w \in Workers |-> NoPlan]
  /\ todo = [w \in Workers |-> <<>>]
  /\ dels = [w \in Workers |-> <<>>]
  /\ checked = [w \in Workers |-> 0]
  /\ ops = 0

-----------------------------------------------------------------------------
(* The call: the mutex, and load().                                        *)

Begin(w) ==
  /\ pc[w] = "idle"
  /\ ops < MaxOps
  /\ \E r \in RequestsOf[w] : request' = [request EXCEPT ![w] = r]
  /\ ops' = ops + 1
  /\ pc' = [pc EXCEPT ![w] = "waiting"]
  /\ UNCHANGED <<disk, lock, model, staged>>

\* Bug: the mutex is taken whoever holds it.
LockBug(w) ==
  /\ pc[w] = "waiting"
  /\ lock' = [lock EXCEPT ![StoreOf[w]] = w]
  /\ pc' = [pc EXCEPT ![w] = "loading"]
  /\ UNCHANGED <<disk, request, model, staged, ops>>

Lock(w) ==
  /\ pc[w] = "waiting"
  /\ lock[StoreOf[w]] = NoWorker
  /\ lock' = [lock EXCEPT ![StoreOf[w]] = w]
  /\ pc' = [pc EXCEPT ![w] = "loading"]
  /\ UNCHANGED <<disk, request, model, staged, ops>>

\* details/ is listed once the files before it have been read.
ToList(w) == /\ at[w] <= Len(ReadOrder)
             /\ ReadOrder[at[w]] \in Details
             /\ at[w] = 1 \/ ReadOrder[at[w] - 1] \notin Details

List(w) ==
  /\ pc[w] = "loading"
  /\ ToList(w)
  /\ listing' = [listing EXCEPT ![w] = {f \in Details : content[f] # Absent}]
  /\ pc' = [pc EXCEPT ![w] = "listed"]
  /\ UNCHANGED <<disk, lock, request, at, stamp, copy, staged, ops>>

\* The stat comes before the read, so that a change between the two is one
\* the check will see.
Stat(w) ==
  /\ pc[w] \in {"loading", "listed"}
  /\ pc[w] = "loading" => ~ ToList(w)
  /\ at[w] <= Len(ReadOrder)
  /\ LET f == ReadOrder[at[w]]
     IN /\ f \in Details => f \in listing[w]
        /\ stamp' = [stamp EXCEPT ![w][f] = stampOf(f)]
  /\ pc' = [pc EXCEPT ![w] = "statted"]
  /\ UNCHANGED <<disk, lock, request, at, listing, copy, staged, ops>>

\* Bug: every other file is passed over.
ReadBug(w) ==
  /\ pc[w] = "statted"
  /\ LET f == ReadOrder[at[w]] IN copy' = [copy EXCEPT ![w][f] = content[f]]
  /\ at' = [at EXCEPT ![w] = @ + 2]
  /\ pc' = [pc EXCEPT ![w] = "loading"]
  /\ UNCHANGED <<disk, lock, request, listing, stamp, staged, ops>>

Read(w) ==
  /\ pc[w] = "statted"
  /\ LET f == ReadOrder[at[w]] IN copy' = [copy EXCEPT ![w][f] = content[f]]
  /\ at' = [at EXCEPT ![w] = @ + 1]
  /\ pc' = [pc EXCEPT ![w] = "loading"]
  /\ UNCHANGED <<disk, lock, request, listing, stamp, staged, ops>>

\* A name the listing did not show is neither read nor stamped.
Skip(w) ==
  /\ pc[w] \in {"loading", "listed"}
  /\ pc[w] = "loading" => ~ ToList(w)
  /\ at[w] <= Len(ReadOrder)
  /\ ReadOrder[at[w]] \in Details \ listing[w]
  /\ at' = [at EXCEPT ![w] = @ + 1]
  /\ pc' = [pc EXCEPT ![w] = "loading"]
  /\ UNCHANGED <<disk, lock, request, listing, stamp, copy, staged, ops>>

-----------------------------------------------------------------------------
(* The transaction: the operation over the model in memory, the validation *)
(* (both in Plan), the check, the writes, the deletes.                     *)

\* The callers ws are out of their calls, and their transactions are gone.
Leave(ws) ==
  /\ pc' = [w \in Workers |-> IF w \in ws THEN "idle" ELSE pc[w]]
  /\ at' = [w \in Workers |-> IF w \in ws THEN 1 ELSE at[w]]
  /\ listing' = [w \in Workers |-> IF w \in ws THEN {} ELSE listing[w]]
  /\ stamp' = [w \in Workers |-> IF w \in ws THEN Nothing(0) ELSE stamp[w]]
  /\ copy' = [w \in Workers |-> IF w \in ws THEN Nothing(Absent) ELSE copy[w]]
  /\ plan' = [w \in Workers |-> IF w \in ws THEN NoPlan ELSE plan[w]]
  /\ todo' = [w \in Workers |-> IF w \in ws THEN <<>> ELSE todo[w]]
  /\ dels' = [w \in Workers |-> IF w \in ws THEN <<>> ELSE dels[w]]
  /\ checked' = [w \in Workers |-> IF w \in ws THEN 0 ELSE checked[w]]

Return(w) ==
  /\ Leave({w})
  /\ lock' = [lock EXCEPT ![StoreOf[w]] = NoWorker]
  /\ UNCHANGED <<disk, request, ops>>

Prepare(w) ==
  /\ pc[w] = "loading"
  /\ at[w] > Len(ReadOrder)
  /\ \E p \in Plan(copy[w], request[w]) :
       /\ plan' = [plan EXCEPT ![w] = p]
       /\ todo' = [todo EXCEPT ![w] = p.writes]
       /\ dels' = [dels EXCEPT ![w] = p.deletes]
  /\ checked' = [checked EXCEPT ![w] = clock]
  /\ pc' = [pc EXCEPT ![w] = "checking"]
  /\ UNCHANGED <<disk, lock, request, model, ops>>

\* An error before anything is staged, or a violation the check refuses.
Refuse(w) ==
  /\ pc[w] = "loading"
  /\ at[w] > Len(ReadOrder)
  /\ Plan(copy[w], request[w]) = {}
  /\ Return(w)

\* Bug: the stamps are not compared.
CheckOneBug(w) ==
  /\ pc[w] = "checking"
  /\ todo[w] # <<>>
  /\ todo' = [todo EXCEPT ![w] = Tail(@)]
  /\ UNCHANGED <<disk, lock, pc, request, model, plan, dels, checked, ops>>

\* checkUnchanged: one stat for each file to be written, none for the files
\* to be deleted.
CheckOne(w) ==
  /\ pc[w] = "checking"
  /\ todo[w] # <<>>
  /\ stampOf(Head(todo[w])) = stamp[w][Head(todo[w])]
  /\ todo' = [todo EXCEPT ![w] = Tail(@)]
  /\ UNCHANGED <<disk, lock, pc, request, model, plan, dels, checked, ops>>

\* ErrConcurrent: nothing has been written.
Conflict(w) ==
  /\ pc[w] = "checking"
  /\ todo[w] # <<>>
  /\ stampOf(Head(todo[w])) # stamp[w][Head(todo[w])]
  /\ Return(w)

CheckedAll(w) ==
  /\ pc[w] = "checking"
  /\ todo[w] = <<>>
  /\ todo' = [todo EXCEPT ![w] = plan[w].writes]
  /\ pc' = [pc EXCEPT ![w] = "writing"]
  /\ UNCHANGED <<disk, lock, request, model, plan, dels, checked, ops>>

Put(f, c) ==
  /\ content' = [content EXCEPT ![f] = c]
  /\ clock' = clock + 1
  /\ version' = [version EXCEPT ![f] = clock + 1]

Write(w) ==
  /\ pc[w] = "writing"
  /\ todo[w] # <<>>
  /\ Put(Head(todo[w]), plan[w].target[Head(todo[w])])
  /\ todo' = [todo EXCEPT ![w] = Tail(@)]
  /\ UNCHANGED <<lock, pc, request, model, plan, dels, checked, ops>>

\* Bug: files are deleted before the others are written.
DeleteBug(w) ==
  /\ pc[w] = "writing"
  /\ dels[w] # <<>>
  /\ Put(Head(dels[w]), Absent)
  /\ dels' = [dels EXCEPT ![w] = Tail(@)]
  /\ UNCHANGED <<lock, pc, request, model, plan, todo, checked, ops>>

Delete(w) ==
  /\ pc[w] = "writing"
  /\ todo[w] = <<>>
  /\ dels[w] # <<>>
  /\ Put(Head(dels[w]), Absent)
  /\ dels' = [dels EXCEPT ![w] = Tail(@)]
  /\ UNCHANGED <<lock, pc, request, model, plan, todo, checked, ops>>

Done(w) ==
  /\ pc[w] = "writing"
  /\ todo[w] = <<>>
  /\ dels[w] = <<>>
  /\ Return(w)

\* Bug: the error path does not unlock.
FailBug(w) ==
  /\ Faults
  /\ pc[w] = "writing"
  /\ todo[w] # <<>> \/ dels[w] # <<>>
  /\ Leave({w})
  /\ UNCHANGED <<disk, lock, request, ops>>

\* ErrIO: writeFileAtomic or a removal fails, and what is left is abandoned.
Fail(w) ==
  /\ Faults
  /\ pc[w] = "writing"
  /\ todo[w] # <<>> \/ dels[w] # <<>>
  /\ Return(w)

\* The process dies: its callers are gone, and the mutex with them.  Another
\* process opens the directory, as the same Store.
Crash(s) ==
  /\ Faults
  /\ \E w \in Workers : StoreOf[w] = s /\ pc[w] # "idle"
  /\ Leave({w \in Workers : StoreOf[w] = s})
  /\ lock' = [lock EXCEPT ![s] = NoWorker]
  /\ UNCHANGED <<disk, request, ops>>

Proceed(w) ==
  \/ List(w) \/ Stat(w) \/ Read(w) \/ Skip(w) \/ Prepare(w) \/ Refuse(w)
  \/ CheckOne(w) \/ Conflict(w) \/ CheckedAll(w) \/ Write(w) \/ Delete(w) \/ Done(w)

Next == \/ \E w \in Workers : Begin(w) \/ Lock(w) \/ Proceed(w) \/ Fail(w)
        \/ \E s \in Stores : Crash(s)

\* A caller in a transaction keeps going, and Go's mutex does not starve a
\* waiter (sync.Mutex hands over to one that has waited 1 ms).
Fairness == \A w \in Workers : WF_vars(Proceed(w)) /\ SF_vars(Lock(w))

Spec == Init /\ [][Next]_vars /\ Fairness

-----------------------------------------------------------------------------
InTransaction == {"loading", "listed", "statted", "checking", "writing"}

TypeOK ==
  /\ content \in Contents
  /\ version \in [Files -> Nat]
  /\ clock \in Nat
  /\ lock \in [Stores -> Workers \cup {NoWorker}]
  /\ pc \in [Workers -> {"idle", "waiting"} \cup InTransaction]
  /\ request \in [Workers -> Requests]
  /\ at \in [Workers -> 1..(Len(ReadOrder) + 1)]
  /\ listing \in [Workers -> SUBSET Details]
  /\ stamp \in [Workers -> [Files -> Nat]]
  /\ copy \in [Workers -> Contents]
  /\ plan \in [Workers -> Plans]
  /\ todo \in [Workers -> Seq(Files)]
  /\ dels \in [Workers -> Seq(Files)]
  /\ checked \in [Workers -> Nat]
  /\ ops \in 0..MaxOps

\* A Store runs one transaction at a time, and it is the holder of its mutex.
OneAtATime ==
  \A w \in Workers : pc[w] \in InTransaction <=> lock[StoreOf[w]] = w

\* What load() has read is what is in the file for as long as the file has
\* the stamp load() took: an equal stamp at the check means the transaction
\* was computed from the contents it is about to replace.
StampsTell ==
  \A w \in Workers : \A i \in 1..(at[w] - 1) :
    LET f == ReadOrder[i]
    IN pc[w] \in InTransaction /\ stamp[w][f] # 0 /\ stampOf(f) = stamp[w][f]
         => content[f] = copy[w][f]

\* A write replaces the contents its transaction read, or a version that was
\* written after its own check began: two Stores lose an update only in the
\* window between one's check and its write, never because one read early.
Replaces(w, f) == stampOf(f) = stamp[w][f] \/ version[f] > checked[w]

NoBlindWrite ==
  [][\A w \in Workers : Write(w) => Replaces(w, Head(todo[w]))]_vars

\* A call returns, with a result, an error or its process.
CallsReturn == \A w \in Workers : pc[w] = "waiting" ~> pc[w] = "idle"

\* "If they differ at write time, abort with Concurrent" (spec-tools.md, 7,
\* rule 5), of every file of the transaction, those it deletes too.
NoBlindDelete ==
  [][\A w \in Workers : Delete(w) /\ content[Head(dels[w])] # Absent =>
                           Replaces(w, Head(dels[w]))]_vars

=============================================================================
