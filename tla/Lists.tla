--------------------------------- MODULE Lists ---------------------------------
(***************************************************************************)
(* One of the two lists of projects, recent or favorites: a file that      *)
(* requests of the service, and other front ends, read, change and write   *)
(* back without a lock, and that a client of the API replaces as a whole.  *)
(*                                                                         *)
(* An entry is a project with the time it was opened, its place in the     *)
(* user's order, and whatever else the file has about it (0: nothing).     *)
(***************************************************************************)
EXTENDS Integers, Sequences, FiniteSets, SequencesExt, TLC

CONSTANTS
  Kind,      \* "recent" or "favorites"
  Projects,
  Writers,
  Asks,      \* what a writer may do: see Ask
  Puts,      \* the documents that clients put in place
  MaxStored, \* ui.recentMaxStored
  MaxClock   \* bound: the clock

Times   == 0..MaxClock   \* 0: no time
Entry   == [id : Projects, at : Times, order : Nat, extra : 0..1]
Entries == Seq(Entry)
Ask     == {"touch", "toggle", "put"} \X Projects \cup {"reorder"} \X Projects \X Int

\* ASSUMEd of each instance, in MCRequests.
ListsAssumption ==
  /\ Kind \in {"recent", "favorites"} /\ Asks \subseteq Ask
  /\ Puts \subseteq Entries /\ MaxStored \in Nat /\ MaxClock \in Nat

VARIABLES
  file,   \* the entries on disk
  clock,
  pc, ask,
  stamp,  \* the time that a writer took when it came in
  held,   \* the list that a writer is about to save
  over,   \* the file it was made from
  raced   \* another writer has saved since it read

vars == <<file, clock, pc, ask, stamp, held, over, raced>>

-----------------------------------------------------------------------------
(* The list.                                                               *)

Before(a, b) == IF Kind = "favorites" THEN a.order < b.order ELSE b.at < a.at

\* sort.SliceStable.
StableSort(s) ==
  LET rank(i) == Cardinality({j \in DOMAIN s : Before(s[j], s[i]) \/ (~Before(s[i], s[j]) /\ j <= i)})
  IN [k \in DOMAIN s |-> s[CHOOSE i \in DOMAIN s : rank(i) = k]]

renumber(s) == IF Kind = "favorites" THEN [i \in DOMAIN s |-> [s[i] EXCEPT !.order = i - 1]] ELSE s

\* ParseProjectList() leaves the entries in the order that the list defines.
Load(s) == renumber(StableSort(s))

Ids(s)     == {s[i].id : i \in DOMAIN s}
Find(s, p) == s[CHOOSE i \in DOMAIN s : s[i].id = p /\ \A j \in 1..(i - 1) : s[j].id # p]
Drop(s, p) == SelectSeq(s, LAMBDA e : e.id # p)
RemoveEntry(s, p) == renumber(Drop(s, p))

Without(s, p) == RemoveEntry(s, p)

\* The fields of an entry that is there already.
Kept(s, p) ==
  [id |-> p, at |-> 0, order |-> 0, extra |-> IF p \in Ids(s) THEN Find(s, p).extra ELSE 0]

Trimmed(s) == IF MaxStored > 0 /\ Len(s) > MaxStored THEN SubSeq(s, 1, MaxStored) ELSE s

Touch(s, p, now) == renumber(Trimmed(<<[Kept(s, p) EXCEPT !.at = now]>> \o Without(s, p)))

\* Add() puts a new favorite last.
Toggle(s, p) ==
  IF p \in Ids(s) THEN RemoveEntry(s, p)
  ELSE Append(s, [id |-> p, at |-> 0, order |-> Len(s), extra |-> 0])

Clamp(s, n) == IF n < 0 THEN 0 ELSE IF n > Len(s) - 1 THEN Len(s) - 1 ELSE n

Place(s, i, n) == n

\* Reorder() takes the entry out and puts it at index n, counted from zero.
Reorder(s, p, n) ==
  LET i    == CHOOSE j \in DOMAIN s : s[j].id = p /\ \A k \in 1..(j - 1) : s[k].id # p
      rest == RemoveAt(s, i)
  IN renumber(InsertAt(rest, Place(s, i, Clamp(s, n)) + 1, s[i]))

\* Only a project of the list can be put elsewhere in it.
NotFound(s, a) == a[1] = "reorder" /\ a[2] \notin Ids(s)

Changed(s, a, now) ==
  CASE a[1] = "touch"   -> Touch(s, a[2], now)
    [] a[1] = "toggle"  -> Toggle(s, a[2])
    [] a[1] = "reorder" -> Reorder(s, a[2], a[3])

-----------------------------------------------------------------------------
Init ==
  /\ file = <<>>
  /\ clock = 1
  /\ pc = [w \in Writers |-> "idle"]
  /\ ask = [w \in Writers |-> <<>>]
  /\ stamp = [w \in Writers |-> 0]
  /\ held = [w \in Writers |-> <<>>]
  /\ over = [w \in Writers |-> <<>>]
  /\ raced = [w \in Writers |-> FALSE]

Tick == clock < MaxClock /\ clock' = clock + 1 /\ UNCHANGED <<file, pc, ask, stamp, held, over, raced>>

\* A writer may come again, with another thing to do.
Arrive(w) ==
  /\ pc[w] = "idle"
  /\ \E a \in Asks : /\ ask' = [ask EXCEPT ![w] = a]
                     /\ pc' = [pc EXCEPT ![w] = IF a[1] = "put" THEN "put" ELSE "load"]
  /\ stamp' = [stamp EXCEPT ![w] = clock]
  /\ UNCHANGED <<file, clock, held, over, raced>>

\* UpdateProjectList() reads, and changes what it read.
UpdateProjectList(w) ==
  /\ pc[w] = "load" /\ ~ NotFound(Load(file), ask[w])
  /\ over' = [over EXCEPT ![w] = file]
  /\ held' = [held EXCEPT ![w] = Changed(Load(file), ask[w], stamp[w])]
  /\ pc' = [pc EXCEPT ![w] = "save"]
  /\ UNCHANGED <<file, clock, ask, stamp, raced>>

\* A change that fails writes nothing.
Refuse(w) ==
  /\ pc[w] = "load" /\ NotFound(Load(file), ask[w])
  /\ pc' = [pc EXCEPT ![w] = "idle"]
  /\ ask' = [ask EXCEPT ![w] = <<>>]
  /\ stamp' = [stamp EXCEPT ![w] = 0]
  /\ UNCHANGED <<file, clock, held, over, raced>>

SetFile(w, s) ==
  /\ file' = s
  /\ raced' = [v \in Writers |-> v # w /\ pc[v] = "save"]
  /\ pc' = [pc EXCEPT ![w] = "idle"]
  /\ ask' = [ask EXCEPT ![w] = <<>>]
  /\ stamp' = [stamp EXCEPT ![w] = 0]
  /\ held' = [held EXCEPT ![w] = <<>>]
  /\ over' = [over EXCEPT ![w] = <<>>]

\* Bug: the list that is written is one held since the program was started.
SavedBug(w) == Changed(<<>>, ask[w], stamp[w])

Saved(w) == held[w]

Save(w) ==
  /\ pc[w] = "save"
  /\ SetFile(w, Saved(w))
  /\ UNCHANGED clock

\* PUT: the document as it was sent, once it parses.
WriteProjectList(w) ==
  /\ pc[w] = "put"
  /\ \E s \in Puts : SetFile(w, s)
  /\ UNCHANGED clock

Next == Tick \/ \E w \in Writers : Arrive(w) \/ UpdateProjectList(w) \/ Refuse(w) \/ Save(w) \/ WriteProjectList(w)

Spec == Init /\ [][Next]_vars

-----------------------------------------------------------------------------
Duplicates(s) == {p \in Projects : Cardinality({i \in DOMAIN s : s[i].id = p}) > 1}

TypeOK ==
  /\ file \in Entries /\ clock \in Times
  /\ \A w \in Writers : /\ held[w] \in Entries
                        /\ pc[w] = "save" /\ ask[w][1] = "touch" => Len(held[w]) <= MaxStored

Saves(w) == pc[w] = "save" /\ pc'[w] = "idle"

\* Only a document put in place by a client has duplicates, and changing one of
\* its projects removes that project's.
OnceEach(w) ==
  /\ Duplicates(file') \subseteq Duplicates(over[w])
  /\ ask[w][1] # "reorder" => ask[w][2] \notin Duplicates(file')

\* "the loser of a race should lose one edit rather than the whole file": what
\* was in the file when a writer read it, and is still, is there after it has
\* saved, except for its own removal and what falls off the end of recent.
Survive(w) ==
  LET lost == (Ids(over[w]) \cap Ids(file)) \ Ids(file')
  IN \/ lost = {}
     \/ ask[w][1] = "toggle" /\ lost = {ask[w][2]}
     \/ ask[w][1] = "touch" /\ Len(file') = MaxStored

\* A project that is opened is first when the list is read again, the second
\* after included, and takes along what the file had about it.
OpenedIsFirst(w) ==
  ask[w][1] = "touch" /\ ~raced[w] =>
    LET first == Head(Load(file'))
        newer == {i \in DOMAIN over[w] : over[w][i].at > stamp[w]}
    IN /\ newer = {} => first.id = ask[w][2]
       /\ ask[w][2] \in Ids(over[w]) =>
            Find(file', ask[w][2]).extra = Find(Load(over[w]), ask[w][2]).extra

\* The user's order is dense after every change, and a drag moves one project:
\* the others keep their order, and it ends where it was dropped.
DragMovesOne(w) ==
  Kind = "favorites" =>
    /\ \A i \in DOMAIN file' : file'[i].order = i - 1
    /\ (ask[w][1] = "reorder" /\ Duplicates(over[w]) = {}) =>
         LET p == ask[w][2]
         IN /\ file'[Clamp(over[w], ask[w][3]) + 1].id = p
            /\ [i \in DOMAIN Drop(file', p) |-> Drop(file', p)[i].id] =
                 [i \in DOMAIN Drop(file', p) |-> Drop(Load(over[w]), p)[i].id]

=============================================================================
