----------------------------- MODULE FileTxProofs -----------------------------
(***************************************************************************)
(* What FileTx promises, for any number of Stores, callers and files, and  *)
(* for any operations: TLC checks three callers, three files and two calls.*)
(*                                                                         *)
(* The argument.  A version is given out once and the clock only grows, so *)
(* a stamp load() took can only ever be found again on a file nobody has   *)
(* changed (Clocked).  A file load() has not come to has no stamp (Unread),*)
(* so nothing is taken for read that was skipped.  From the two follows    *)
(* StampsTell, and with what the check has gone through so far (Vetted)    *)
(* NoBlindWrite.                                                           *)
(***************************************************************************)
EXTENDS FileTx, TLAPS

\* No stamp and no version is later than the clock.
Clocked ==
  /\ \A f \in Files : version[f] <= clock
  /\ \A w \in Workers : \A f \in Files : stamp[w][f] <= clock
  /\ \A w \in Workers : checked[w] <= clock

\* The files from the one load() is at onwards have no stamp, save the one it
\* is about to read.
Unread ==
  \A w \in Workers :
    /\ pc[w] = "statted" => at[w] <= Len(ReadOrder)
    /\ pc[w] \in {"idle", "waiting"} => at[w] = 1
    /\ \A i \in at[w]..Len(ReadOrder) :
         stamp[w][ReadOrder[i]] # 0 => i = at[w] /\ pc[w] = "statted"

\* What the check has let pass may be written.
VettedBy(w) ==
  /\ pc[w] = "checking" =>
       \A i \in 1..Len(plan[w].writes) :
         \/ Replaces(w, plan[w].writes[i])
         \/ \E j \in 1..Len(todo[w]) : todo[w][j] = plan[w].writes[i]
  /\ pc[w] = "writing" => \A i \in 1..Len(todo[w]) : Replaces(w, todo[w][i])

Vetted == \A w \in Workers : VettedBy(w)

Steps(w) == Begin(w) \/ Lock(w) \/ Proceed(w) \/ Fail(w)

-----------------------------------------------------------------------------
(* Facts about the constants and the helpers.                              *)

\* load() knows every file by one place in its order.
LEMMA Order == /\ Len(ReadOrder) \in Nat
               /\ \A i \in 1..Len(ReadOrder) : ReadOrder[i] \in Files
               /\ \A i, j \in 1..Len(ReadOrder) : ReadOrder[i] = ReadOrder[j] => i = j
BY FileTxAssumption

\* What a caller asks for is a request.
LEMMA Asked == \A w \in Workers : RequestsOf[w] \subseteq Requests /\ RequestsOf[w] # {}
BY FileTxAssumption DEF Requests

\* The empty values a caller starts a call with are well typed.
LEMMA Blank == /\ Nothing(Absent) \in Contents
               /\ \A n \in Nat : Nothing(n) \in [Files -> Nat]
               /\ NoPlan \in Plans
<1>1. Nothing(Absent) \in Contents
  BY DEF Nothing, Contents
<1>2. \A n \in Nat : Nothing(n) \in [Files -> Nat]
  BY DEF Nothing
<1>3. <<>> \in Seq(Files)
  OBVIOUS
<1> QED BY <1>1, <1>2, <1>3 DEF NoPlan, Plans

\* A stamp is a natural number.
LEMMA StampNat == ASSUME TypeOK, NEW f \in Files PROVE stampOf(f) \in Nat
BY DEF TypeOK, stampOf

\* Callers that leave keep every variable of theirs well typed.
LEMMA LeaveTypes ==
  ASSUME TypeOK, NEW ws, Leave(ws)
  PROVE  /\ pc' \in [Workers -> {"idle", "waiting"} \cup InTransaction]
         /\ at' \in [Workers -> 1..(Len(ReadOrder) + 1)]
         /\ listing' \in [Workers -> SUBSET Details]
         /\ stamp' \in [Workers -> [Files -> Nat]]
         /\ copy' \in [Workers -> Contents]
         /\ plan' \in [Workers -> Plans]
         /\ todo' \in [Workers -> Seq(Files)]
         /\ dels' \in [Workers -> Seq(Files)]
         /\ checked' \in [Workers -> Nat]
<1>1. pc' \in [Workers -> {"idle", "waiting"} \cup InTransaction]
  BY DEF TypeOK, Leave
<1>2. at' \in [Workers -> 1..(Len(ReadOrder) + 1)]
  <2>1. 1 \in 1..(Len(ReadOrder) + 1)
    BY Order
  <2> QED BY <2>1 DEF TypeOK, Leave
<1>3. listing' \in [Workers -> SUBSET Details]
  BY DEF TypeOK, Leave
<1>4. stamp' \in [Workers -> [Files -> Nat]]
  BY Blank DEF TypeOK, Leave
<1>5. copy' \in [Workers -> Contents]
  BY Blank DEF TypeOK, Leave
<1>6. plan' \in [Workers -> Plans]
  BY Blank DEF TypeOK, Leave
<1>7. todo' \in [Workers -> Seq(Files)] /\ dels' \in [Workers -> Seq(Files)]
  <2>1. <<>> \in Seq(Files)
    OBVIOUS
  <2> QED BY <2>1 DEF TypeOK, Leave
<1>8. checked' \in [Workers -> Nat]
  BY DEF TypeOK, Leave
<1> QED BY <1>1, <1>2, <1>3, <1>4, <1>5, <1>6, <1>7, <1>8

\* A caller that returns gives its mutex back.
LEMMA ReturnTypes == ASSUME TypeOK, NEW w \in Workers, Return(w) PROVE TypeOK'
<1>1. Leave({w})
  BY DEF Return
<1>2. lock' \in [Stores -> Workers \cup {NoWorker}]
  BY FileTxAssumption DEF TypeOK, Return
<1> QED BY <1>1, <1>2, LeaveTypes DEF TypeOK, Return, disk

\* A change of one file keeps the directory well typed.
LEMMA PutTypes ==
  ASSUME TypeOK, NEW f \in Files, NEW c \in Values \cup {Absent}, Put(f, c)
  PROVE  content' \in Contents /\ version' \in [Files -> Nat] /\ clock' \in Nat
BY DEF TypeOK, Put, Contents

-----------------------------------------------------------------------------
(* Type correctness.                                                       *)

\* The initial states are well typed.
LEMMA InitTypes == Init => TypeOK
<1> SUFFICES ASSUME Init PROVE TypeOK
  OBVIOUS
<1> USE DEF Init
<1>1. content \in Contents /\ version \in [Files -> Nat] /\ clock \in Nat
  BY FileTxAssumption, Blank
<1>2. lock \in [Stores -> Workers \cup {NoWorker}]
  OBVIOUS
<1>3. pc \in [Workers -> {"idle", "waiting"} \cup InTransaction]
  OBVIOUS
<1>4. request \in [Workers -> Requests]
  <2>1. ASSUME NEW w \in Workers PROVE (CHOOSE r \in RequestsOf[w] : TRUE) \in Requests
    <3>1. PICK r \in RequestsOf[w] : TRUE
      BY Asked
    <3>2. (CHOOSE x \in RequestsOf[w] : TRUE) \in RequestsOf[w]
      BY <3>1
    <3> QED BY <3>2, Asked
  <2> QED BY <2>1
<1>5. at \in [Workers -> 1..(Len(ReadOrder) + 1)]
  BY Order
<1>6. listing \in [Workers -> SUBSET Details]
  OBVIOUS
<1>7. /\ stamp \in [Workers -> [Files -> Nat]]
      /\ copy \in [Workers -> Contents]
      /\ plan \in [Workers -> Plans]
  BY Blank
<1>8. todo \in [Workers -> Seq(Files)] /\ dels \in [Workers -> Seq(Files)]
  OBVIOUS
<1>9. checked \in [Workers -> Nat] /\ ops \in 0..MaxOps
  BY FileTxAssumption
<1> QED BY <1>1, <1>2, <1>3, <1>4, <1>5, <1>6, <1>7, <1>8, <1>9 DEF TypeOK

\* The step of one caller keeps the types.
LEMMA StepTypes == ASSUME TypeOK, Unread, NEW w \in Workers, Steps(w) PROVE TypeOK'
<1> USE DEF disk, model, staged
<1>1. CASE Begin(w)
  <2>1. PICK r \in RequestsOf[w] : request' = [request EXCEPT ![w] = r]
    BY <1>1 DEF Begin
  <2>2. request' \in [Workers -> Requests]
    BY <2>1, Asked DEF TypeOK
  <2>3. ops' \in 0..MaxOps
    <3>1. ops \in 0..MaxOps /\ ops < MaxOps /\ ops' = ops + 1
      BY <1>1 DEF TypeOK, Begin
    <3> QED BY <3>1, FileTxAssumption
  <2> QED BY <1>1, <2>2, <2>3 DEF TypeOK, Begin
<1>2. CASE Lock(w)
  <2>1. lock' \in [Stores -> Workers \cup {NoWorker}]
    BY <1>2 DEF TypeOK, Lock
  <2>2. pc' \in [Workers -> {"idle", "waiting"} \cup InTransaction]
    BY <1>2 DEF TypeOK, Lock, InTransaction
  <2> QED BY <1>2, <2>1, <2>2 DEF TypeOK, Lock
<1>3. CASE List(w)
  <2>1. listing' \in [Workers -> SUBSET Details]
    BY <1>3 DEF TypeOK, List
  <2>2. pc' \in [Workers -> {"idle", "waiting"} \cup InTransaction]
    BY <1>3 DEF TypeOK, List, InTransaction
  <2> QED BY <1>3, <2>1, <2>2 DEF TypeOK, List
<1>4. CASE Stat(w)
  <2>1. at[w] \in 1..Len(ReadOrder)
    BY <1>4, Order DEF TypeOK, Stat
  <2>2. /\ ReadOrder[at[w]] \in Files
        /\ stampOf(ReadOrder[at[w]]) \in Nat
    BY <2>1, Order, StampNat
  <2>3. stamp' \in [Workers -> [Files -> Nat]]
    BY <1>4, <2>2 DEF TypeOK, Stat
  <2>4. pc' \in [Workers -> {"idle", "waiting"} \cup InTransaction]
    BY <1>4 DEF TypeOK, Stat, InTransaction
  <2> QED BY <1>4, <2>3, <2>4 DEF TypeOK, Stat
<1>5. CASE Skip(w)
  <2>1. at' \in [Workers -> 1..(Len(ReadOrder) + 1)]
    BY <1>5, Order DEF TypeOK, Skip
  <2>2. pc' \in [Workers -> {"idle", "waiting"} \cup InTransaction]
    BY <1>5 DEF TypeOK, Skip, InTransaction
  <2> QED BY <1>5, <2>1, <2>2 DEF TypeOK, Skip
<1>6. CASE Prepare(w)
  <2>1. PICK p \in Plan(copy[w], request[w]) :
          /\ plan' = [plan EXCEPT ![w] = p]
          /\ todo' = [todo EXCEPT ![w] = p.writes]
          /\ dels' = [dels EXCEPT ![w] = p.deletes]
    BY <1>6 DEF Prepare
  <2>2. p \in Plans
    BY PlanAssumption DEF TypeOK
  <2>3. p.writes \in Seq(Files) /\ p.deletes \in Seq(Files)
    BY <2>2 DEF Plans
  <2>4. /\ plan' \in [Workers -> Plans]
        /\ todo' \in [Workers -> Seq(Files)]
        /\ dels' \in [Workers -> Seq(Files)]
    BY <2>1, <2>2, <2>3 DEF TypeOK
  <2>5. pc' \in [Workers -> {"idle", "waiting"} \cup InTransaction]
    BY <1>6 DEF TypeOK, Prepare, InTransaction
  <2>6. checked' \in [Workers -> Nat]
    BY <1>6 DEF TypeOK, Prepare
  <2> QED BY <1>6, <2>4, <2>5, <2>6 DEF TypeOK, Prepare
<1>7. CASE CheckOne(w)
  <2>1. todo' \in [Workers -> Seq(Files)]
    BY <1>7 DEF TypeOK, CheckOne
  <2> QED BY <1>7, <2>1 DEF TypeOK, CheckOne
<1>8. CASE CheckedAll(w)
  <2>1. plan[w].writes \in Seq(Files)
    BY DEF TypeOK, Plans
  <2>2. todo' \in [Workers -> Seq(Files)]
    BY <1>8, <2>1 DEF TypeOK, CheckedAll
  <2>3. pc' \in [Workers -> {"idle", "waiting"} \cup InTransaction]
    BY <1>8 DEF TypeOK, CheckedAll, InTransaction
  <2> QED BY <1>8, <2>2, <2>3 DEF TypeOK, CheckedAll
<1>9. CASE Write(w)
  <2>1. Head(todo[w]) \in Files /\ Tail(todo[w]) \in Seq(Files)
    BY <1>9 DEF TypeOK, Write
  <2>2. plan[w].target[Head(todo[w])] \in Values \cup {Absent}
    BY <2>1 DEF TypeOK, Plans, Contents
  <2>3. content' \in Contents /\ version' \in [Files -> Nat] /\ clock' \in Nat
    BY <1>9, <2>1, <2>2, PutTypes DEF Write
  <2>4. todo' \in [Workers -> Seq(Files)]
    BY <1>9, <2>1 DEF TypeOK, Write
  <2> QED BY <1>9, <2>3, <2>4 DEF TypeOK, Write
<1>10. CASE Delete(w)
  <2>1. Head(dels[w]) \in Files /\ Tail(dels[w]) \in Seq(Files)
    BY <1>10 DEF TypeOK, Delete
  <2>2. content' \in Contents /\ version' \in [Files -> Nat] /\ clock' \in Nat
    BY <1>10, <2>1, PutTypes DEF Delete
  <2>3. dels' \in [Workers -> Seq(Files)]
    BY <1>10, <2>1 DEF TypeOK, Delete
  <2> QED BY <1>10, <2>2, <2>3 DEF TypeOK, Delete
<1>11. CASE Read(w)
  <2>1. copy' \in [Workers -> Contents]
    BY <1>11 DEF TypeOK, Read, Contents
  <2>2. at' \in [Workers -> 1..(Len(ReadOrder) + 1)]
    <3>1. at[w] \in 1..Len(ReadOrder)
      BY <1>11, Order DEF TypeOK, Read, Unread
    <3> QED BY <1>11, <3>1, Order DEF TypeOK, Read
  <2>3. pc' \in [Workers -> {"idle", "waiting"} \cup InTransaction]
    BY <1>11 DEF TypeOK, Read, InTransaction
  <2> QED BY <1>11, <2>1, <2>2, <2>3 DEF TypeOK, Read
<1>12. CASE Refuse(w) \/ Conflict(w) \/ Done(w) \/ Fail(w)
  BY <1>12, ReturnTypes DEF Refuse, Conflict, Done, Fail
<1> QED BY <1>1, <1>2, <1>3, <1>4, <1>5, <1>6, <1>7, <1>8, <1>9, <1>10, <1>11, <1>12
        DEF Steps, Proceed

\* So does a crash.
LEMMA CrashTypes == ASSUME TypeOK, NEW s \in Stores, Crash(s) PROVE TypeOK'
<1>1. Leave({w \in Workers : StoreOf[w] = s})
  BY DEF Crash
<1>2. lock' \in [Stores -> Workers \cup {NoWorker}]
  BY DEF TypeOK, Crash
<1> QED BY <1>1, <1>2, LeaveTypes DEF TypeOK, Crash, disk

-----------------------------------------------------------------------------
(* One transaction at a time.                                              *)

\* A step that neither takes nor gives a mutex leaves its caller's holding.
LEMMA OneStep ==
  ASSUME TypeOK, OneAtATime, NEW w \in Workers, Steps(w)
  PROVE  OneAtATime'
<1> USE DEF InTransaction
<1>1. CASE Begin(w)
  BY <1>1 DEF TypeOK, OneAtATime, Begin
<1>2. CASE Lock(w)
  <2> SUFFICES ASSUME NEW v \in Workers
               PROVE pc'[v] \in InTransaction <=> lock'[StoreOf[v]] = v
    BY DEF OneAtATime
  <2>1. StoreOf[v] \in Stores /\ StoreOf[w] \in Stores /\ v # NoWorker
    BY FileTxAssumption
  <2>2. CASE v = w
    BY <1>2, <2>1, <2>2 DEF TypeOK, Lock
  <2>3. CASE v # w
    BY <1>2, <2>1, <2>3 DEF TypeOK, OneAtATime, Lock
  <2> QED BY <2>2, <2>3
<1>3. CASE List(w) \/ Stat(w) \/ Skip(w) \/ Read(w)
  BY <1>3 DEF TypeOK, OneAtATime, List, Stat, Skip, Read
<1>4. CASE Prepare(w) \/ CheckOne(w) \/ CheckedAll(w) \/ Write(w) \/ Delete(w)
  BY <1>4 DEF TypeOK, OneAtATime, Prepare, CheckOne, CheckedAll, Write, Delete
<1>5. CASE Refuse(w) \/ Conflict(w) \/ Done(w) \/ Fail(w)
  <2>1. Return(w) /\ pc[w] \in InTransaction
    BY <1>5 DEF Refuse, Conflict, Done, Fail
  <2> SUFFICES ASSUME NEW v \in Workers
               PROVE pc'[v] \in InTransaction <=> lock'[StoreOf[v]] = v
    BY DEF OneAtATime
  <2>2. StoreOf[v] \in Stores /\ StoreOf[w] \in Stores /\ v # NoWorker
    BY FileTxAssumption
  <2>3. CASE v = w
    BY <2>1, <2>2, <2>3 DEF TypeOK, Return, Leave
  <2>4. CASE v # w
    BY <2>1, <2>2, <2>4 DEF TypeOK, OneAtATime, Return, Leave
  <2> QED BY <2>3, <2>4
<1> QED BY <1>1, <1>2, <1>3, <1>4, <1>5 DEF Steps, Proceed

\* A crash frees the Store's mutex and all of its callers.
LEMMA OneCrash ==
  ASSUME TypeOK, OneAtATime, NEW s \in Stores, Crash(s)
  PROVE  OneAtATime'
<1> SUFFICES ASSUME NEW v \in Workers
             PROVE pc'[v] \in InTransaction <=> lock'[StoreOf[v]] = v
  BY DEF OneAtATime
<1>1. StoreOf[v] \in Stores /\ v # NoWorker
  BY FileTxAssumption
<1>2. CASE StoreOf[v] = s
  BY <1>1, <1>2 DEF TypeOK, Crash, Leave, InTransaction
<1>3. CASE StoreOf[v] # s
  BY <1>1, <1>3 DEF TypeOK, OneAtATime, Crash, Leave
<1> QED BY <1>2, <1>3

-----------------------------------------------------------------------------
(* The clock.                                                              *)

\* A file that changes gets a version of its own.
LEMMA PutClocked ==
  ASSUME TypeOK, Clocked, NEW f \in Files, NEW c, Put(f, c), UNCHANGED <<stamp, checked>>
  PROVE  Clocked'
BY DEF TypeOK, Clocked, Put

\* A stamp is a version, or zero.
LEMMA StampPast == ASSUME TypeOK, Clocked, NEW f \in Files PROVE stampOf(f) <= clock
BY DEF TypeOK, Clocked, stampOf

\* Who leaves has no stamps.
LEMMA LeaveClocked ==
  ASSUME TypeOK, Clocked, NEW ws, Leave(ws), UNCHANGED disk
  PROVE  Clocked'
<1>1. \A w \in Workers, f \in Files : stamp'[w][f] = 0 \/ stamp'[w][f] = stamp[w][f]
  BY DEF Leave, Nothing
<1>2. \A w \in Workers : checked'[w] = 0 \/ checked'[w] = checked[w]
  BY DEF Leave
<1>3. clock' = clock /\ version' = version /\ 0 <= clock
  BY DEF TypeOK, disk
<1> QED BY <1>1, <1>2, <1>3 DEF Clocked

\* A stamp is taken of what is there, and the clock is never set back.
LEMMA ClockedStep ==
  ASSUME TypeOK, Clocked, NEW w \in Workers, Steps(w)
  PROVE  Clocked'
<1> USE DEF disk, model, staged
<1>1. CASE Begin(w) \/ Lock(w) \/ List(w) \/ Read(w) \/ Skip(w) \/ CheckOne(w) \/ CheckedAll(w)
  BY <1>1 DEF Clocked, Begin, Lock, List, Read, Skip, CheckOne, CheckedAll
<1>2. CASE Stat(w)
  <2>1. at[w] \in 1..Len(ReadOrder)
    BY <1>2, Order DEF TypeOK, Stat
  <2>2. ReadOrder[at[w]] \in Files
    BY <2>1, Order
  <2>3. stampOf(ReadOrder[at[w]]) <= clock
    BY <2>2, StampPast
  <2> QED BY <1>2, <2>2, <2>3 DEF TypeOK, Clocked, Stat
<1>3. CASE Prepare(w)
  BY <1>3 DEF TypeOK, Clocked, Prepare
<1>4. CASE Write(w)
  <2>1. Head(todo[w]) \in Files
    BY <1>4 DEF TypeOK, Write
  <2> QED BY <1>4, <2>1, PutClocked DEF Write
<1>5. CASE Delete(w)
  <2>1. Head(dels[w]) \in Files
    BY <1>5 DEF TypeOK, Delete
  <2> QED BY <1>5, <2>1, PutClocked DEF Delete
<1>6. CASE Refuse(w) \/ Conflict(w) \/ Done(w) \/ Fail(w)
  <2>1. Return(w)
    BY <1>6 DEF Refuse, Conflict, Done, Fail
  <2> QED BY <2>1, LeaveClocked DEF Return
<1> QED BY <1>1, <1>2, <1>3, <1>4, <1>5, <1>6 DEF Steps, Proceed

-----------------------------------------------------------------------------
(* What has not been read.                                                 *)

\* Who leaves starts its next load() with nothing read.
LEMMA LeaveUnread ==
  ASSUME TypeOK, Unread, NEW ws, Leave(ws)
  PROVE  Unread'
<1> SUFFICES ASSUME NEW v \in Workers
             PROVE (/\ pc[v] = "statted" => at[v] <= Len(ReadOrder)
                    /\ pc[v] \in {"idle", "waiting"} => at[v] = 1
                    /\ \A i \in at[v]..Len(ReadOrder) :
                         stamp[v][ReadOrder[i]] # 0 => i = at[v] /\ pc[v] = "statted")'
  BY DEF Unread
<1>1. CASE v \in ws
  <2>1. pc'[v] = "idle" /\ at'[v] = 1 /\ stamp'[v] = Nothing(0)
    BY <1>1 DEF Leave
  <2>2. \A i \in 1..Len(ReadOrder) : stamp'[v][ReadOrder[i]] = 0
    BY <2>1, Order DEF Nothing
  <2> QED BY <2>1, <2>2
<1>2. CASE v \notin ws
  <2>1. pc'[v] = pc[v] /\ at'[v] = at[v] /\ stamp'[v] = stamp[v]
    BY <1>2 DEF Leave
  <2> QED BY <2>1 DEF Unread
<1> QED BY <1>1, <1>2

\* A stamp is taken of the file load() is at, and of no other.
LEMMA UnreadStep ==
  ASSUME TypeOK, Unread, NEW w \in Workers, Steps(w)
  PROVE  Unread'
<1> USE DEF disk, model, staged
<1>1. CASE Refuse(w) \/ Conflict(w) \/ Done(w) \/ Fail(w)
  BY <1>1, LeaveUnread DEF Return, Refuse, Conflict, Done, Fail
<1>2. CASE CheckOne(w) \/ Write(w) \/ Delete(w)
  BY <1>2 DEF Unread, CheckOne, Write, Delete
<1>3. CASE Begin(w) \/ Lock(w) \/ List(w) \/ Prepare(w) \/ CheckedAll(w)
  <2>1. UNCHANGED <<at, stamp>>
    BY <1>3 DEF Begin, Lock, List, Prepare, CheckedAll
  <2>2. \A v \in Workers : pc'[v] = pc[v] \/ (v = w /\ pc[v] # "statted" /\ pc'[v] # "statted")
    BY <1>3 DEF TypeOK, Begin, Lock, List, Prepare, CheckedAll
  <2>3. pc'[w] \in {"idle", "waiting"} => pc[w] \in {"idle", "waiting"}
    BY <1>3 DEF TypeOK, Begin, Lock, List, Prepare, CheckedAll
  <2> QED BY <2>1, <2>2, <2>3 DEF Unread
<1>4. CASE Stat(w)
  <2>1. at[w] \in 1..Len(ReadOrder) /\ at' = at
    BY <1>4, Order DEF TypeOK, Stat
  <2>2. \A v \in Workers \ {w} : pc'[v] = pc[v] /\ stamp'[v] = stamp[v]
    BY <1>4 DEF TypeOK, Stat
  <2>3. pc'[w] = "statted"
    BY <1>4 DEF TypeOK, Stat
  <2>4. ASSUME NEW i \in at[w]..Len(ReadOrder), i # at[w]
        PROVE  stamp'[w][ReadOrder[i]] = 0
    <3>1. i \in 1..Len(ReadOrder) /\ ReadOrder[i] # ReadOrder[at[w]]
      BY <2>1, <2>4, Order
    <3>2. stamp'[w][ReadOrder[i]] = stamp[w][ReadOrder[i]]
      BY <1>4, <3>1, Order DEF TypeOK, Stat
    <3> QED BY <3>2, <2>4 DEF Unread
  <2> QED BY <2>1, <2>2, <2>3, <2>4 DEF Unread
<1>5. CASE Read(w) \/ Skip(w)
  <2>1. /\ stamp' = stamp
        /\ at[w] \in 1..Len(ReadOrder)
        /\ at'[w] = at[w] + 1
        /\ pc'[w] = "loading"
    BY <1>5, Order DEF TypeOK, Unread, Read, Skip
  <2>2. \A v \in Workers \ {w} : pc'[v] = pc[v] /\ at'[v] = at[v]
    BY <1>5 DEF TypeOK, Read, Skip
  <2>3. ASSUME NEW i \in at'[w]..Len(ReadOrder)
        PROVE  stamp[w][ReadOrder[i]] = 0
    BY <2>1, <2>3, Order DEF Unread
  <2> QED BY <2>1, <2>2, <2>3 DEF Unread
<1> QED BY <1>1, <1>2, <1>3, <1>4, <1>5 DEF Steps, Proceed

-----------------------------------------------------------------------------
(* What a stamp tells.                                                     *)

\* A file that is changed no longer has any stamp taken before.
LEMMA PutNew ==
  ASSUME TypeOK, Clocked, NEW f \in Files, NEW c, Put(f, c), NEW w \in Workers,
         stamp[w][f] # 0
  PROVE  stampOf(f)' # stamp[w][f]
<1>1. content'[f] = c /\ version'[f] = clock + 1
  BY DEF TypeOK, Put, Contents
<1>2. stamp[w][f] <= clock /\ stamp[w][f] \in Nat /\ clock \in Nat
  BY DEF TypeOK, Clocked
<1> QED BY <1>1, <1>2 DEF stampOf

\* The other files keep theirs.
LEMMA PutOthers ==
  ASSUME TypeOK, NEW f \in Files, NEW c, Put(f, c), NEW g \in Files, g # f
  PROVE  content'[g] = content[g] /\ stampOf(g)' = stampOf(g)
BY DEF TypeOK, Put, Contents, stampOf

\* A change of a file in no way disturbs what the stamps tell.
LEMMA PutStamps ==
  ASSUME TypeOK, Clocked, StampsTell, NEW f \in Files, NEW c, Put(f, c),
         UNCHANGED <<pc, at, stamp, copy>>
  PROVE  StampsTell'
<1> SUFFICES ASSUME NEW w \in Workers, NEW i \in 1..(at[w] - 1),
                    pc[w] \in InTransaction, stamp[w][ReadOrder[i]] # 0,
                    stampOf(ReadOrder[i])' = stamp[w][ReadOrder[i]]
             PROVE  content'[ReadOrder[i]] = copy[w][ReadOrder[i]]
  BY DEF StampsTell
<1> DEFINE g == ReadOrder[i]
<1>1. g \in Files
  BY Order DEF TypeOK
<1>2. g # f
  BY PutNew
<1>3. content'[g] = content[g] /\ stampOf(g)' = stampOf(g)
  BY <1>1, <1>2, PutOthers
<1> QED BY <1>3 DEF StampsTell

\* Who leaves has nothing to tell.
LEMMA LeaveStamps ==
  ASSUME StampsTell, NEW ws, Leave(ws), UNCHANGED disk
  PROVE  StampsTell'
<1> SUFFICES ASSUME NEW w \in Workers, NEW i \in 1..(at'[w] - 1),
                    pc'[w] \in InTransaction, stamp'[w][ReadOrder[i]] # 0,
                    stampOf(ReadOrder[i])' = stamp'[w][ReadOrder[i]]
             PROVE  content'[ReadOrder[i]] = copy'[w][ReadOrder[i]]
  BY DEF StampsTell
<1>1. w \notin ws
  BY DEF Leave, InTransaction
<1>2. pc'[w] = pc[w] /\ at'[w] = at[w] /\ stamp'[w] = stamp[w] /\ copy'[w] = copy[w]
  BY <1>1 DEF Leave
<1> QED BY <1>2 DEF StampsTell, stampOf, disk

\* A file that is read is read as it is; one that is skipped has no stamp.
LEMMA StampsStep ==
  ASSUME TypeOK, Clocked, Unread, StampsTell, NEW w \in Workers, Steps(w)
  PROVE  StampsTell'
<1> USE DEF disk, model, staged
<1>1. CASE Refuse(w) \/ Conflict(w) \/ Done(w) \/ Fail(w)
  BY <1>1, LeaveStamps DEF Return, Refuse, Conflict, Done, Fail
<1>2. CASE Write(w)
  <2>1. Head(todo[w]) \in Files
    BY <1>2 DEF TypeOK, Write
  <2> QED BY <1>2, <2>1, PutStamps DEF Write
<1>3. CASE Delete(w)
  <2>1. Head(dels[w]) \in Files
    BY <1>3 DEF TypeOK, Delete
  <2> QED BY <1>3, <2>1, PutStamps DEF Delete
<1>4. CASE Begin(w) \/ Lock(w)
  <2>1. at[w] = 1 /\ UNCHANGED <<content, version, at, stamp, copy>>
    BY <1>4 DEF Unread, Begin, Lock
  <2>2. \A v \in Workers \ {w} : pc'[v] = pc[v]
    BY <1>4 DEF TypeOK, Begin, Lock
  <2> QED BY <2>1, <2>2 DEF StampsTell, stampOf
<1>5. CASE List(w) \/ Prepare(w) \/ CheckOne(w) \/ CheckedAll(w)
  <2>1. UNCHANGED <<content, version, at, stamp, copy>>
    BY <1>5 DEF List, Prepare, CheckOne, CheckedAll
  <2>2. \A v \in Workers : pc'[v] \in InTransaction => pc[v] \in InTransaction
    BY <1>5 DEF TypeOK, InTransaction, List, Prepare, CheckOne, CheckedAll
  <2> QED BY <2>1, <2>2 DEF StampsTell, stampOf
<1>6. CASE Stat(w)
  <2>1. UNCHANGED <<content, version, at, copy>> /\ at[w] \in 1..Len(ReadOrder)
    BY <1>6, Order DEF TypeOK, Stat
  <2>2. \A v \in Workers : pc'[v] \in InTransaction => pc[v] \in InTransaction
    BY <1>6 DEF TypeOK, InTransaction, Stat
  <2>3. ASSUME NEW v \in Workers, NEW i \in 1..(at[v] - 1)
        PROVE  stamp'[v][ReadOrder[i]] = stamp[v][ReadOrder[i]]
    <3>1. CASE v # w
      BY <1>6, <3>1 DEF TypeOK, Stat
    <3>2. CASE v = w
      <4>1. i \in 1..Len(ReadOrder) /\ i # at[w]
        BY <2>1, <3>2, Order
      <4>2. ReadOrder[i] # ReadOrder[at[w]]
        BY <2>1, <4>1, Order
      <4> QED BY <1>6, <3>2, <4>2 DEF TypeOK, Stat
    <3> QED BY <3>1, <3>2
  <2> QED BY <2>1, <2>2, <2>3 DEF StampsTell, stampOf
<1>7. CASE Read(w) \/ Skip(w)
  <2>1. UNCHANGED <<content, version, stamp>>
    BY <1>7 DEF Read, Skip
  <2>2. at[w] \in 1..Len(ReadOrder) /\ at'[w] = at[w] + 1 /\ pc[w] \in InTransaction
    BY <1>7, Order DEF TypeOK, Unread, InTransaction, Read, Skip
  <2>3. \A v \in Workers \ {w} : pc'[v] = pc[v] /\ at'[v] = at[v] /\ copy'[v] = copy[v]
    BY <1>7 DEF TypeOK, Read, Skip
  <2>4. ReadOrder[at[w]] \in Files
    BY <2>2, Order
  <2>5. ASSUME NEW i \in 1..(at[w] - 1)
        PROVE  copy'[w][ReadOrder[i]] = copy[w][ReadOrder[i]]
    <3>1. i \in 1..Len(ReadOrder) /\ i # at[w]
      BY <2>2, Order
    <3>2. ReadOrder[i] # ReadOrder[at[w]]
      BY <2>2, <3>1, Order
    <3>3. CASE Read(w)
      <4>1. copy' = [copy EXCEPT ![w][ReadOrder[at[w]]] = content[ReadOrder[at[w]]]]
        BY <3>3 DEF Read
      <4>2. copy \in [Workers -> [Files -> Values \cup {Absent}]]
        BY DEF TypeOK, Contents
      <4>3. ReadOrder[i] \in Files
        BY <3>1, Order
      <4> QED BY <4>1, <4>2, <4>3, <3>2, <2>4
    <3>4. CASE Skip(w)
      BY <3>4 DEF Skip
    <3> QED BY <1>7, <3>3, <3>4
  <2>6. \/ copy'[w][ReadOrder[at[w]]] = content[ReadOrder[at[w]]]
        \/ stamp[w][ReadOrder[at[w]]] = 0
    <3>1. CASE Read(w)
      <4>1. copy' = [copy EXCEPT ![w][ReadOrder[at[w]]] = content[ReadOrder[at[w]]]]
        BY <3>1 DEF Read
      <4>2. copy \in [Workers -> [Files -> Values \cup {Absent}]]
        BY DEF TypeOK, Contents
      <4> QED BY <4>1, <4>2, <2>4
    <3>2. CASE Skip(w)
      BY <3>2, <2>2 DEF Unread, Skip
    <3> QED BY <1>7, <3>1, <3>2
  <2> SUFFICES ASSUME NEW v \in Workers, NEW i \in 1..(at'[v] - 1),
                      pc'[v] \in InTransaction, stamp[v][ReadOrder[i]] # 0,
                      stampOf(ReadOrder[i]) = stamp[v][ReadOrder[i]]
               PROVE  content[ReadOrder[i]] = copy'[v][ReadOrder[i]]
    BY <2>1 DEF StampsTell, stampOf
  <2>7. CASE v # w
    BY <2>3, <2>7 DEF StampsTell
  <2>8. CASE v = w /\ i = at[w]
    BY <2>6, <2>8
  <2>9. CASE v = w /\ i # at[w]
    <3>1. i \in 1..(at[w] - 1)
      BY <2>2, <2>9
    <3> QED BY <2>2, <2>5, <2>9, <3>1 DEF StampsTell
  <2> QED BY <2>7, <2>8, <2>9
<1> QED BY <1>1, <1>2, <1>3, <1>4, <1>5, <1>6, <1>7 DEF Steps, Proceed

-----------------------------------------------------------------------------
(* What the check lets pass.                                               *)

\* A file that may be written still may, whatever is put in it or elsewhere:
\* a change of it is one the check could not have seen.
LEMMA PutReplaces ==
  ASSUME TypeOK, Clocked, NEW f \in Files, NEW c, Put(f, c), UNCHANGED <<stamp, checked>>,
         NEW v \in Workers, NEW g \in Files, Replaces(v, g)
  PROVE  Replaces(v, g)'
<1>1. CASE g = f
  <2>1. version'[g] = clock + 1 /\ checked'[v] <= clock /\ checked'[v] \in Nat /\ clock \in Nat
    BY <1>1 DEF TypeOK, Clocked, Put
  <2> QED BY <2>1 DEF Replaces
<1>2. CASE g # f
  <2>1. version'[g] = version[g] /\ stampOf(g)' = stampOf(g)
    BY <1>2, PutOthers DEF TypeOK, Put
  <2> QED BY <2>1 DEF Replaces
<1> QED BY <1>1, <1>2

\* A change of a file leaves vetted what was, if the caller that made it drops
\* files from its list and no other list changes.
LEMMA PutVetted ==
  ASSUME TypeOK, Clocked, Vetted, NEW f \in Files, NEW c, Put(f, c),
         UNCHANGED <<pc, stamp, checked, plan>>,
         NEW w \in Workers, pc[w] = "writing",
         \/ todo' = todo
         \/ todo[w] # <<>> /\ todo' = [todo EXCEPT ![w] = Tail(@)]
  PROVE  Vetted'
<1> SUFFICES ASSUME NEW v \in Workers PROVE VettedBy(v)'
  BY DEF Vetted
<1> USE DEF VettedBy
<1>1. plan[v].writes \in Seq(Files) /\ todo[v] \in Seq(Files)
  BY DEF TypeOK, Plans
<1>2. CASE pc[v] = "checking"
  <2>1. todo'[v] = todo[v]
    BY <1>2 DEF TypeOK
  <2>2. \A i \in 1..Len(plan[v].writes) : plan[v].writes[i] \in Files
    BY <1>1
  <2> QED BY <1>2, <2>1, <2>2, PutReplaces DEF Vetted
<1>3. CASE pc[v] = "writing"
  <2>1. \A g \in Files : Replaces(v, g) => Replaces(v, g)'
    BY PutReplaces
  <2>2. ASSUME NEW i \in 1..Len(todo'[v])
        PROVE  \E j \in 1..Len(todo[v]) : todo'[v][i] = todo[v][j]
    <3>1. CASE todo'[v] = todo[v]
      BY <3>1
    <3>2. CASE todo[v] # <<>> /\ todo'[v] = Tail(todo[v])
      <4>1. Len(todo'[v]) = Len(todo[v]) - 1 /\ todo'[v][i] = todo[v][i + 1]
        BY <1>1, <3>2
      <4>2. i + 1 \in 1..Len(todo[v])
        BY <1>1, <4>1
      <4> QED BY <4>1, <4>2
    <3> QED BY <3>1, <3>2 DEF TypeOK
  <2>3. ASSUME NEW i \in 1..Len(todo'[v])
        PROVE  Replaces(v, todo[v][i])'
    <3>1. PICK j \in 1..Len(todo[v]) : todo'[v][i] = todo[v][j]
      BY <2>2
    <3>2. todo[v][j] \in Files /\ Replaces(v, todo[v][j])
      BY <1>1, <1>3 DEF Vetted
    <3>3. PICK g \in Files : g = todo[v][j] /\ Replaces(v, g)'
      BY <3>2, <2>1
    <3> QED BY <3>1, <3>3 DEF Replaces, stampOf
  <2> QED BY <1>3, <2>3
<1>4. CASE pc[v] \notin {"checking", "writing"}
  BY <1>4
<1> QED BY <1>2, <1>3, <1>4

\* What no step of its own or change of a file concerns stays vetted.
LEMMA StillVetted ==
  ASSUME NEW v \in Workers, VettedBy(v), UNCHANGED disk,
         pc'[v] = pc[v], stamp'[v] = stamp[v], checked'[v] = checked[v],
         plan'[v] = plan[v], todo'[v] = todo[v]
  PROVE  VettedBy(v)'
BY DEF VettedBy, Replaces, stampOf, disk

\* The check goes through what is to be written file by file, and only what
\* it has been through is written.
LEMMA VettedStep ==
  ASSUME TypeOK, Clocked, Vetted, NEW w \in Workers, Steps(w)
  PROVE  Vetted'
<1> USE DEF disk, model, staged
<1>1. CASE Write(w)
  <2>1. Head(todo[w]) \in Files
    BY <1>1 DEF TypeOK, Write
  <2> QED BY <1>1, <2>1, PutVetted DEF Write
<1>2. CASE Delete(w)
  <2>1. Head(dels[w]) \in Files
    BY <1>2 DEF TypeOK, Delete
  <2> QED BY <1>2, <2>1, PutVetted DEF Delete
<1>3. CASE \/ Begin(w) \/ Lock(w) \/ List(w) \/ Stat(w) \/ Read(w) \/ Skip(w)
           \/ Refuse(w) \/ Conflict(w) \/ Done(w) \/ Fail(w)
  <2>1. UNCHANGED disk
    BY <1>3 DEF Begin, Lock, List, Stat, Read, Skip, Return, Refuse, Conflict, Done, Fail
  <2>2. pc'[w] \notin {"checking", "writing"}
    BY <1>3 DEF TypeOK, Begin, Lock, List, Stat, Read, Skip, Return, Leave,
                Refuse, Conflict, Done, Fail
  <2>3. ASSUME NEW v \in Workers, v # w
        PROVE  /\ pc'[v] = pc[v] /\ stamp'[v] = stamp[v] /\ checked'[v] = checked[v]
               /\ plan'[v] = plan[v] /\ todo'[v] = todo[v]
    <3>1. CASE Begin(w) \/ Lock(w) \/ List(w) \/ Stat(w) \/ Read(w) \/ Skip(w)
      BY <2>3, <3>1 DEF TypeOK, Begin, Lock, List, Stat, Read, Skip
    <3>2. CASE Refuse(w) \/ Conflict(w) \/ Done(w) \/ Fail(w)
      BY <2>3, <3>2 DEF Return, Leave, Refuse, Conflict, Done, Fail
    <3> QED BY <1>3, <3>1, <3>2
  <2>4. VettedBy(w)'
    BY <2>2 DEF VettedBy
  <2>5. ASSUME NEW v \in Workers, v # w PROVE VettedBy(v)'
    BY <2>1, <2>3, <2>5, StillVetted DEF Vetted
  <2> QED BY <2>4, <2>5 DEF Vetted
<1>4. CASE Prepare(w) \/ CheckOne(w) \/ CheckedAll(w)
  <2>1. UNCHANGED <<disk, stamp>> /\ pc[w] # "writing"
    BY <1>4 DEF Prepare, CheckOne, CheckedAll
  <2>2. ASSUME NEW v \in Workers, v # w PROVE VettedBy(v)'
    <3>1. /\ pc'[v] = pc[v] /\ checked'[v] = checked[v]
          /\ plan'[v] = plan[v] /\ todo'[v] = todo[v]
      BY <1>4, <2>2 DEF TypeOK, Prepare, CheckOne, CheckedAll
    <3> QED BY <2>1, <3>1, StillVetted DEF Vetted
  <2>3. CASE Prepare(w)
    <3>1. pc'[w] = "checking" /\ todo'[w] = plan'[w].writes
      BY <2>3 DEF TypeOK, Prepare
    <3>2. VettedBy(w)'
      BY <3>1 DEF VettedBy
    <3> QED BY <2>2, <3>2 DEF Vetted
  <2>4. CASE CheckOne(w)
    <3>1. /\ todo[w] \in Seq(Files) /\ todo[w] # <<>>
          /\ todo'[w] = Tail(todo[w])
          /\ pc[w] = "checking" /\ pc'[w] = "checking"
          /\ plan' = plan /\ checked' = checked
      BY <2>4 DEF TypeOK, CheckOne
    <3>2. Replaces(w, Head(todo[w]))
      BY <2>4 DEF CheckOne, Replaces
    <3>3. ASSUME NEW i \in 1..Len(plan[w].writes)
          PROVE  \/ Replaces(w, plan[w].writes[i])
                 \/ \E j \in 1..Len(Tail(todo[w])) : Tail(todo[w])[j] = plan[w].writes[i]
      <4>1. CASE Replaces(w, plan[w].writes[i])
        BY <4>1
      <4>2. ASSUME NEW j \in 1..Len(todo[w]), todo[w][j] = plan[w].writes[i]
            PROVE  \/ Replaces(w, plan[w].writes[i])
                   \/ \E k \in 1..Len(Tail(todo[w])) : Tail(todo[w])[k] = plan[w].writes[i]
        <5>1. CASE j = 1
          BY <3>1, <3>2, <4>2, <5>1
        <5>2. CASE j # 1
          <6>1. j - 1 \in 1..Len(Tail(todo[w])) /\ Tail(todo[w])[j - 1] = todo[w][j]
            BY <3>1, <5>2
          <6> QED BY <4>2, <6>1
        <5> QED BY <5>1, <5>2
      <4> QED BY <3>1, <4>1, <4>2 DEF Vetted, VettedBy
    <3>4. VettedBy(w)'
      BY <2>1, <3>1, <3>3 DEF VettedBy, Replaces, stampOf
    <3> QED BY <2>2, <3>4 DEF Vetted
  <2>5. CASE CheckedAll(w)
    <3>1. /\ todo[w] = <<>> /\ todo'[w] = plan[w].writes
          /\ pc[w] = "checking" /\ pc'[w] = "writing"
          /\ checked' = checked
      BY <2>5 DEF TypeOK, CheckedAll
    <3>2. \A i \in 1..Len(plan[w].writes) : Replaces(w, plan[w].writes[i])
      BY <3>1 DEF Vetted, VettedBy
    <3>3. VettedBy(w)'
      BY <2>1, <3>1, <3>2 DEF VettedBy, Replaces, stampOf
    <3> QED BY <2>2, <3>3 DEF Vetted
  <2> QED BY <1>4, <2>3, <2>4, <2>5
<1> QED BY <1>1, <1>2, <1>3, <1>4 DEF Steps, Proceed

\* A crash leaves the other Stores' transactions as they are.
LEMMA VettedCrash ==
  ASSUME Vetted, NEW s \in Stores, Crash(s)
  PROVE  Vetted'
<1> SUFFICES ASSUME NEW v \in Workers PROVE VettedBy(v)'
  BY DEF Vetted
<1>1. CASE StoreOf[v] = s
  <2>1. pc'[v] = "idle"
    BY <1>1 DEF Crash, Leave
  <2> QED BY <2>1 DEF VettedBy
<1>2. CASE StoreOf[v] # s
  <2>1. /\ pc'[v] = pc[v] /\ stamp'[v] = stamp[v] /\ checked'[v] = checked[v]
        /\ plan'[v] = plan[v] /\ todo'[v] = todo[v]
    BY <1>2 DEF Crash, Leave
  <2> QED BY <2>1, StillVetted DEF Crash, Vetted
<1> QED BY <1>1, <1>2

-----------------------------------------------------------------------------
(* The inductive invariant, and the theorems.                              *)

IInv == TypeOK /\ OneAtATime /\ Clocked /\ Unread /\ StampsTell /\ Vetted

\* It holds at the start.
LEMMA InitIInv == Init => IInv
<1> SUFFICES ASSUME Init PROVE IInv
  OBVIOUS
<1>1. TypeOK
  BY InitTypes
<1>2. OneAtATime
  BY FileTxAssumption DEF Init, OneAtATime, InTransaction
<1>3. Clocked
  BY DEF Init, Clocked, Nothing
<1>4. Unread
  BY Order DEF Init, Unread, Nothing
<1>5. StampsTell
  BY DEF Init, StampsTell, InTransaction
<1>6. Vetted
  BY DEF Init, Vetted, VettedBy
<1> QED BY <1>1, <1>2, <1>3, <1>4, <1>5, <1>6 DEF IInv

\* Every step of a caller, a crash and a stutter keep it.
LEMMA NextIInv == IInv /\ [Next]_vars => IInv'
<1> SUFFICES ASSUME IInv, [Next]_vars PROVE IInv'
  OBVIOUS
<1>1. ASSUME NEW w \in Workers, Steps(w) PROVE IInv'
  BY <1>1, StepTypes, OneStep, ClockedStep, UnreadStep, StampsStep, VettedStep DEF IInv
<1>2. ASSUME NEW s \in Stores, Crash(s) PROVE IInv'
  <2>1. Leave({w \in Workers : StoreOf[w] = s}) /\ UNCHANGED disk
    BY <1>2 DEF Crash
  <2> QED BY <1>2, <2>1, CrashTypes, OneCrash, LeaveClocked, LeaveUnread, LeaveStamps,
             VettedCrash DEF IInv
<1>3. CASE UNCHANGED vars
  <2> USE <1>3 DEF vars
  <2>1. TypeOK'
    BY DEF IInv, TypeOK
  <2>2. OneAtATime' /\ Clocked' /\ Unread'
    BY DEF IInv, OneAtATime, Clocked, Unread
  <2>3. StampsTell' /\ Vetted'
    BY DEF IInv, StampsTell, Vetted, VettedBy, Replaces, stampOf
  <2> QED BY <2>1, <2>2, <2>3 DEF IInv
<1> QED BY <1>1, <1>2, <1>3 DEF Next, Steps

\* The strengthened invariant holds of every behaviour, whatever the
\* operations and however they fail.
THEOREM Invariant == Spec => []IInv
BY InitIInv, NextIInv, PTL DEF Spec

\* The values stay well formed.
THEOREM TypesHold == Spec => []TypeOK
<1>1. IInv => TypeOK
  BY DEF IInv
<1> QED BY <1>1, Invariant, PTL

\* store.go's mutex: however many callers share a Store, one of them at most
\* is between load() and the end of its commit, through errors and crashes.
THEOREM Exclusion == Spec => []OneAtATime
<1>1. IInv => OneAtATime
  BY DEF IInv
<1> QED BY <1>1, Invariant, PTL

\* store.go's load() and atomic.go's stamps: however many processes write the
\* directory while it is read, a file that still has the stamp its reader took
\* has the contents its reader read.
THEOREM StampsAreSound == Spec => []StampsTell
<1>1. IInv => StampsTell
  BY DEF IInv
<1> QED BY <1>1, Invariant, PTL

\* atomic.go's Commit: a write replaces what its transaction read, or what was
\* written after its check began.  With StampsAreSound, an update can only be
\* lost in the window between one process's check and its write.
THEOREM WritesAreChecked == Spec => NoBlindWrite
<1>1. IInv /\ [Next]_vars => [\A w \in Workers : Write(w) => Replaces(w, Head(todo[w]))]_vars
  <2> SUFFICES ASSUME IInv, NEW w \in Workers, Write(w)
               PROVE  Replaces(w, Head(todo[w]))
    OBVIOUS
  <2>1. todo[w] \in Seq(Files) /\ todo[w] # <<>> /\ pc[w] = "writing"
    BY DEF IInv, TypeOK, Write
  <2>2. Head(todo[w]) = todo[w][1] /\ 1 \in 1..Len(todo[w])
    BY <2>1
  <2> QED BY <2>1, <2>2 DEF IInv, Vetted, VettedBy
<1> QED BY <1>1, Invariant, PTL DEF Spec, NoBlindWrite

=============================================================================
