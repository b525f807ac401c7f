------------------------------ MODULE ToolsProofs ------------------------------
(***************************************************************************)
(* What holds of two tools that one process runs, for every value of their *)
(* constants: the repair of a directory that two branches were merged      *)
(* into (Fix), whatever each of them added and moved, for any number of    *)
(* items and days; and the migration of an old directory (Migrate),        *)
(* whatever it holds and wherever it is interrupted.  TLC checks two items *)
(* a branch and two days, and some directories of three working files.     *)
(*                                                                         *)
(* The argument for Fix.  An item of a branch is what its title says       *)
(* (Branched), so an id is on two items at most, one of each branch, and   *)
(* its file, where it is not lost, carries the title of one that claims it *)
(* (Assembled, Together).  Of the two one beats the other, or the repair   *)
(* is refused (Pair).  The new ids are above all that there are, and one   *)
(* each (NewIds), so that files are renamed to names that nothing has.     *)
(*                                                                         *)
(* The argument for Migrate.  What was read is where it was, or where the  *)
(* changes made so far have taken it, and what of it is to be deleted is   *)
(* already somewhere else (Repairing, Versioning).  A repair beside a      *)
(* board writes over a working file it has not seen (Taken): its item is   *)
(* on the board, or is the one that is written (Boarded), but its notes    *)
(* may be nowhere else.                                                    *)
(***************************************************************************)
EXTENDS MCTools, FiniteSetTheorems, WellFoundedInduction, TLAPS

-----------------------------------------------------------------------------
(* Numbers.                                                                *)

\* A set of numbers has a least one.
LEMMA Least ==
  ASSUME NEW T \in SUBSET Nat, T # {}
  PROVE  \E n \in T : \A m \in T : n <= m
<1> DEFINE R == {pair \in Nat \X Nat : pair[1] < pair[2]}
<1>1. IsWellFoundedOn(R, Nat)
  BY NatLessThanWellFounded DEF OpToRel
<1>2. \A x, y : <<x, y>> \in R <=> x \in Nat /\ y \in Nat /\ x < y
  OBVIOUS
<1> HIDE DEF R
<1>3. PICK n \in T : \A m \in T : ~ (<<m, n>> \in R)
  BY <1>1, WFMin
<1>4. \A m \in T : ~ (m < n)
  BY <1>2, <1>3
<1> QED
  BY <1>4

\* One that is bounded has a greatest, which Max is.
LEMMA MaxIs ==
  ASSUME NEW T \in SUBSET Nat, T # {}, NEW bound \in Nat, \A n \in T : n <= bound
  PROVE  Max(T) \in T /\ \A n \in T : n <= Max(T)
<1> DEFINE Gaps == {k \in 0..bound : bound - k \in T}
<1>1. Gaps \in SUBSET Nat
  OBVIOUS
<1>2. \A n \in T : bound - n \in Gaps
  OBVIOUS
<1>3. PICK g \in Gaps : \A h \in Gaps : g <= h
  <2>1. Gaps # {}
    BY <1>2
  <2> HIDE DEF Gaps
  <2> QED
    BY <1>1, <2>1, Least
<1>4. bound - g \in T /\ \A n \in T : bound - g >= n
  <2>1. bound - g \in T /\ g \in Nat
    BY <1>3
  <2>2. ASSUME NEW n \in T
        PROVE  bound - g >= n
    <3>1. g <= bound - n
      BY <1>2, <1>3
    <3> QED
      BY <2>1, <3>1
  <2> QED
    BY <2>1, <2>2
<1> QED
  BY <1>4 DEF Max


-----------------------------------------------------------------------------
(* Fix.  The directories of the branches, and the one they are merged to.  *)

\* The items that a branch adds: id and detail file are of the title.
Added ==
  {i \in [title : Branches \X (1..MaxAdds), id : 1..MaxAdds, rank : 1..3, created : Nat,
          detail : (1..MaxAdds) \cup {None}] :
     i.title[2] = i.id /\ i.detail \in {None, i.id}}

Texts       == (Branches \X (1..MaxAdds)) \cup {None}
Directory   == [items : SUBSET Added, files : [Fix!Ids -> Texts], next : 1..(MaxAdds + 1)]

\* A branch: every id is given out once, and the files are those of the items.
Branched(b, d) ==
  /\ d \in Directory
  /\ \A i \in d.items : i.title[1] = b /\ i.id < d.next
  /\ \A i, j \in d.items : i.id = j.id => i = j
  /\ \A id \in Fix!Ids : d.files[id] # None => \E i \in d.items : i.detail = id /\ d.files[id] = i.title
  /\ \A i \in d.items : i.detail # None => d.files[i.id] = i.title

\* Two branches merged: every title is there once, and a file carries the title
\* of an item that claims it.
Assembled(d) ==
  /\ d \in Directory
  /\ \A i, j \in d.items : i.title = j.title => i = j
  /\ \A id \in Fix!Ids : d.files[id] # None => \E i \in d.items : i.detail = id /\ d.files[id] = i.title

\* The files of the branches are those of items that were merged.
Sourced(d) ==
  \A b \in Branches, id \in Fix!Ids :
    branch[b].files[id] # None => \E i \in d.items : i.detail = id /\ branch[b].files[id] = i.title

\* No file is lost, either: no claim is on one that is missing.
Together(d) ==
  /\ Assembled(d)
  /\ \A i \in d.items : i.detail # None => d.files[i.id] # None

\* What one has when the other is repaired.
Repaired(d, before) ==
  /\ d = [items |-> d.items, files |-> [id \in Fix!Ids |-> d.files[id]], next |-> d.next]
  /\ d.next \in Nat /\ \A i \in d.items : i.id \in Nat
  /\ Fix!Clean(d)
  /\ {i.title : i \in d.items} = {i.title : i \in before.items}
  /\ {d.files[id] : id \in Fix!Ids} = {before.files[id] : id \in Fix!Ids}
  /\ \A i \in d.items, j \in before.items :
       i.title = j.title /\ (\A k \in before.items \ {j} : k.id = j.id => k.rank < j.rank) => i.id = j.id

FixInvariant ==
  /\ day \in Nat
  /\ branch = [b \in Branches |-> branch[b]]
  /\ \A b \in Branches : Branched(b, branch[b])
  /\ phase \in {"apart", "merged", "refused", "crashed", "fixed"}
  /\ phase \in {"merged", "refused", "crashed"} => merged = dir /\ Assembled(dir) /\ Sourced(dir)
  /\ phase = "fixed" => version = 1 /\ Repaired(dir, merged)

\* The items of a merged directory, by their fields.
LEMMA AddedIs ==
  ASSUME NEW i \in Added
  PROVE  /\ i = [title |-> i.title, id |-> i.id, rank |-> i.rank, created |-> i.created, detail |-> i.detail]
         /\ i.title = <<i.title[1], i.id>> /\ i.title[1] \in Branches
         /\ i.id \in 1..MaxAdds /\ i.id \in Nat /\ i.rank \in 1..3 /\ i.rank \in Nat
         /\ i.created \in Nat /\ i.detail \in {None, i.id}
         /\ i.id \in Fix!Ids /\ i.id # None /\ i.title # None
<1>1. /\ i \in [title : Branches \X (1..MaxAdds), id : 1..MaxAdds, rank : 1..3, created : Nat,
               detail : (1..MaxAdds) \cup {None}]
      /\ i.title[2] = i.id /\ i.detail \in {None, i.id}
  BY DEF Added
<1>2. i = [title |-> i.title, id |-> i.id, rank |-> i.rank, created |-> i.created, detail |-> i.detail]
  BY <1>1
<1>3. i.title = <<i.title[1], i.id>> /\ i.title[1] \in Branches /\ i.id \in 1..MaxAdds
  BY <1>1
<1>4. i.id \in Fix!Ids /\ MaxAdds \in Nat
  BY <1>3, FixAssumption DEF Fix!FixAssumption, Fix!Ids, Fix!MaxId
<1>5. None \notin Fix!Ids \cup (Branches \X Fix!Ids)
  BY FixAssumption DEF Fix!FixAssumption
<1>6. i.title \in Branches \X Fix!Ids
  BY <1>3, <1>4
<1> QED
  BY <1>1, <1>2, <1>3, <1>4, <1>5, <1>6

\* Items of one id that are of one branch are one item.
LEMMA OneOfBranch ==
  ASSUME Together(dir), NEW i \in dir.items, NEW j \in dir.items,
         i.id = j.id, i.title[1] = j.title[1]
  PROVE  i = j
<1>1. i \in Added /\ j \in Added
  BY DEF Together, Assembled, Directory
<1>2. i.title = <<i.title[1], i.id>> /\ j.title = <<j.title[1], j.id>>
  BY <1>1, AddedIs
<1> QED
  BY <1>2 DEF Together, Assembled

-----------------------------------------------------------------------------
(* The copies of an id.                                                    *)

\* An id that is there twice is on two different items.
LEMMA TwoItems ==
  ASSUME NEW id \in Fix!Duplicated
  PROVE  id \in Fix!Ids /\ \E i, j \in Fix!GroupOf(id) : i # j
<1>1. id \in Fix!Ids /\ Cardinality(Fix!GroupOf(id)) > 1
  BY DEF Fix!Duplicated, Fix!Cardinality, Cardinality
<1>2. ASSUME ~ \E i, j \in Fix!GroupOf(id) : i # j
      PROVE  FALSE
  <2>1. CASE Fix!GroupOf(id) = {}
    <3>1. Cardinality(Fix!GroupOf(id)) = 0
      BY <2>1, FS_EmptySet
    <3> QED
      BY <1>1, <3>1
  <2>2. CASE Fix!GroupOf(id) # {}
    <3>1. PICK i \in Fix!GroupOf(id) : TRUE
      BY <2>2
    <3>2. Fix!GroupOf(id) = {i}
      BY <1>2, <3>1
    <3>3. Cardinality({i}) = 1
      BY FS_Singleton
    <3> QED
      BY <1>1, <3>2, <3>3
  <2> QED
    BY <2>1, <2>2
<1> QED
  BY <1>1, <1>2

\* Two different items of an id are all of them, and it is there twice.
LEMMA TheTwo ==
  ASSUME Together(dir), NEW id, NEW i \in Fix!GroupOf(id), NEW j \in Fix!GroupOf(id), i # j
  PROVE  Fix!GroupOf(id) = {i, j} /\ id \in Fix!Duplicated
<1>1. i \in dir.items /\ j \in dir.items /\ i.id = id /\ j.id = id
  BY DEF Fix!GroupOf
<1>2. dir.items \subseteq Added
  BY DEF Together, Assembled, Directory
<1>3. PICK ours, theirs \in Branches : Branches = {ours, theirs}
  BY FixAssumption DEF Fix!FixAssumption
<1>4. i.title[1] \in Branches /\ j.title[1] \in Branches /\ i.id \in Fix!Ids
  BY <1>1, <1>2, AddedIs
<1>5. i.title[1] # j.title[1]
  BY <1>1, OneOfBranch
<1>6. ASSUME NEW k \in Fix!GroupOf(id)
      PROVE  k = i \/ k = j
  <2>1. k \in dir.items /\ k.id = id
    BY DEF Fix!GroupOf
  <2>2. k.title[1] \in Branches
    BY <1>2, <2>1, AddedIs
  <2>3. k.title[1] = i.title[1] \/ k.title[1] = j.title[1]
    BY <1>3, <1>4, <1>5, <2>2
  <2>4. CASE k.title[1] = i.title[1]
    BY <1>1, <2>1, <2>4, OneOfBranch
  <2>5. CASE k.title[1] = j.title[1]
    BY <1>1, <2>1, <2>5, OneOfBranch
  <2> QED
    BY <2>3, <2>4, <2>5
<1>7. Fix!GroupOf(id) = {i, j}
  BY <1>6
<1>8. IsFiniteSet({j}) /\ Cardinality({j}) = 1
  BY FS_Singleton
<1>9. Cardinality({j} \cup {i}) = 2
  <2>1. Cardinality({j} \cup {i}) = IF i \in {j} THEN Cardinality({j}) ELSE Cardinality({j}) + 1
    BY <1>8, FS_AddElement
  <2> QED
    BY <1>8, <2>1
<1>10. Fix!GroupOf(id) = {j} \cup {i}
  BY <1>7
<1>11. Cardinality(Fix!GroupOf(id)) > 1
  BY <1>9, <1>10
<1>12. Fix!Cardinality(Fix!GroupOf(id)) > 1
  BY <1>11 DEF Fix!Cardinality, Cardinality
<1> QED
  BY <1>1, <1>4, <1>7, <1>12 DEF Fix!Duplicated

\* Where a copy can be chosen, it beats the other one.
LEMMA Pair ==
  ASSUME Together(dir), NEW id \in Fix!Duplicated, ~ Fix!Tied(id)
  PROVE  /\ Fix!GroupOf(id) = {Fix!Winner(id), Fix!Loser(id)}
         /\ Fix!Winner(id) \in dir.items /\ Fix!Winner(id).id = id
         /\ Fix!Loser(id) \in dir.items /\ Fix!Loser(id).id = id
         /\ Fix!Winner(id).title # Fix!Loser(id).title
         /\ Fix!beats(Fix!Winner(id), Fix!Loser(id))
<1> DEFINE w == Fix!Winner(id)
           l == Fix!Loser(id)
           G == Fix!GroupOf(id)
<1>1. PICK i, j \in G : i # j
  BY TwoItems
<1>2. G = {i, j}
  BY <1>1, TheTwo
<1>3. Fix!beats(i, j) \/ Fix!beats(j, i)
  BY <1>1 DEF Fix!Tied
<1>4. \E x \in G : \A y \in G \ {x} : Fix!beats(x, y)
  BY <1>1, <1>2, <1>3
<1>5. w = CHOOSE x \in G : \A y \in G \ {x} : Fix!beats(x, y)
  BY DEF Fix!Winner
<1>6. l = CHOOSE y \in G : y # w
  BY DEF Fix!Loser
<1> HIDE DEF w, l, G
<1>7. w \in G /\ \A y \in G \ {w} : Fix!beats(w, y)
  BY <1>4, <1>5
<1>8. \E y \in G : y # w
  BY <1>1
<1>9. l \in G /\ l # w
  BY <1>6, <1>8
<1>10. G = {w, l} /\ Fix!beats(w, l)
  BY <1>2, <1>7, <1>9
<1>11. w \in dir.items /\ l \in dir.items /\ w.id = id /\ l.id = id
  BY <1>7, <1>9 DEF G, Fix!GroupOf
<1>12. w.title # l.title
  BY <1>9, <1>11 DEF Together, Assembled
<1> QED
  BY <1>10, <1>11, <1>12 DEF w, l, G

-----------------------------------------------------------------------------
(* The new ids.                                                            *)

\* The first free number is above every id and not below next_id; it is no
\* higher than it must be.
LEMMA FreeIsAbove ==
  ASSUME NEW bound \in Nat, dir.next \in Nat, dir.next <= bound,
         \A i \in dir.items : i.id \in Nat /\ i.id < bound
  PROVE  /\ Fix!FirstFree \in Nat /\ dir.next <= Fix!FirstFree /\ Fix!FirstFree <= bound
         /\ \A i \in dir.items : i.id < Fix!FirstFree
<1> DEFINE T == {dir.next} \cup {i.id + 1 : i \in dir.items}
<1>1. T \in SUBSET Nat /\ T # {} /\ \A n \in T : n <= bound
  OBVIOUS
<1>2. dir.next \in T /\ \A i \in dir.items : i.id + 1 \in T
  OBVIOUS
<1>3. Fix!FirstFree = Max(T)
  BY DEF Fix!FirstFree, Fix!Max, Max
<1> HIDE DEF T
<1>4. Max(T) \in T /\ \A n \in T : n <= Max(T)
  BY <1>1, MaxIs
<1>5. Max(T) \in Nat /\ Max(T) <= bound /\ dir.next <= Max(T)
  BY <1>1, <1>2, <1>4
<1>6. ASSUME NEW i \in dir.items
      PROVE  i.id < Max(T)
  <2>1. i.id + 1 <= Max(T) /\ i.id \in Nat
    BY <1>2, <1>4
  <2> QED
    BY <2>1, <1>5
<1> QED
  BY <1>3, <1>5, <1>6

\* In a merged directory it is within what the branches gave out.
LEMMA FreeOfTwo ==
  ASSUME Together(dir)
  PROVE  /\ Fix!FirstFree \in 1..(MaxAdds + 1) /\ dir.next <= Fix!FirstFree
         /\ \A i \in dir.items : i.id < Fix!FirstFree
<1>1. MaxAdds \in Nat /\ MaxAdds + 1 \in Nat
  BY FixAssumption DEF Fix!FixAssumption
<1>2. dir.next \in 1..(MaxAdds + 1)
  BY DEF Together, Assembled, Directory
<1>3. ASSUME NEW i \in dir.items
      PROVE  i.id \in Nat /\ i.id < MaxAdds + 1
  <2>1. i \in Added
    BY DEF Together, Assembled, Directory
  <2>2. i.id \in 1..MaxAdds /\ i.id \in Nat
    BY <2>1, AddedIs
  <2> QED
    BY <1>1, <2>2
<1>4. dir.next \in Nat /\ dir.next <= MaxAdds + 1
  BY <1>1, <1>2
<1>5. /\ Fix!FirstFree \in Nat /\ dir.next <= Fix!FirstFree /\ Fix!FirstFree <= MaxAdds + 1
      /\ \A i \in dir.items : i.id < Fix!FirstFree
  BY <1>1, <1>3, <1>4, FreeIsAbove
<1> QED
  BY <1>1, <1>2, <1>5

\* The repair gives each id that is there twice a number of its own, of those
\* from the first free one on.
LEMMA NewIds ==
  ASSUME Together(dir)
  PROVE  /\ Cardinality(Fix!Duplicated) \in 0..MaxAdds
         /\ \A id \in Fix!Duplicated :
              /\ Fix!NewId(id) \in Fix!Ids
              /\ Fix!FirstFree <= Fix!NewId(id)
              /\ Fix!NewId(id) < Fix!FirstFree + Cardinality(Fix!Duplicated)
         /\ \A a, b \in Fix!Duplicated : Fix!NewId(a) = Fix!NewId(b) => a = b
<1> DEFINE D == Fix!Duplicated
           Lower(id) == {d \in D : d < id}
<1>1. MaxAdds \in Nat
  BY FixAssumption DEF Fix!FixAssumption
<1>2. D \subseteq 1..MaxAdds
  <2>1. ASSUME NEW id \in D
        PROVE  id \in 1..MaxAdds
    <3>1. PICK i \in Fix!GroupOf(id) : TRUE
      BY TwoItems
    <3>2. i \in Added /\ i.id = id
      BY DEF Fix!GroupOf, Together, Assembled, Directory
    <3> QED
      BY <3>2, AddedIs
  <2> QED
    BY <2>1
<1>3. IsFiniteSet(1..MaxAdds) /\ Cardinality(1..MaxAdds) = MaxAdds
  BY <1>1, FS_Interval
<1>4. \A id \in D : id \in Nat
  BY <1>2
<1>5. \A id \in D : Fix!NewId(id) = Fix!FirstFree + Cardinality(Lower(id))
  BY DEF Fix!NewId, Fix!Cardinality, Cardinality
<1>6. Fix!FirstFree \in 1..(MaxAdds + 1)
  BY FreeOfTwo
<1> HIDE DEF D
<1>7. IsFiniteSet(D) /\ Cardinality(D) <= MaxAdds
  BY <1>2, <1>3, FS_Subset
<1>8. Cardinality(D) \in Nat
  BY <1>7, FS_CardinalityType
<1>9. ASSUME NEW id \in D
      PROVE  Cardinality(Lower(id)) \in Nat /\ Cardinality(Lower(id)) < Cardinality(D) /\ IsFiniteSet(Lower(id))
  <2>1. Lower(id) \subseteq D /\ Lower(id) # D
    BY <1>4
  <2> HIDE DEF Lower
  <2>2. IsFiniteSet(Lower(id)) /\ Cardinality(Lower(id)) <= Cardinality(D) /\ Cardinality(Lower(id)) # Cardinality(D)
    BY <1>7, <2>1, FS_Subset
  <2>3. Cardinality(Lower(id)) \in Nat
    BY <2>2, FS_CardinalityType
  <2> QED
    BY <1>8, <2>2, <2>3
<1>10. ASSUME NEW a \in D, NEW b \in D, a < b
       PROVE  Cardinality(Lower(a)) < Cardinality(Lower(b))
  <2>1. Lower(a) \subseteq Lower(b) /\ Lower(a) # Lower(b)
    BY <1>4, <1>10
  <2>2. IsFiniteSet(Lower(b)) /\ Cardinality(Lower(b)) \in Nat /\ Cardinality(Lower(a)) \in Nat
    BY <1>9
  <2> HIDE DEF Lower
  <2>3. Cardinality(Lower(a)) <= Cardinality(Lower(b)) /\ Cardinality(Lower(a)) # Cardinality(Lower(b))
    BY <2>1, <2>2, FS_Subset
  <2> QED
    BY <2>2, <2>3
<1>11. ASSUME NEW id \in D
       PROVE  /\ Fix!NewId(id) \in Fix!Ids
              /\ Fix!FirstFree <= Fix!NewId(id)
              /\ Fix!NewId(id) < Fix!FirstFree + Cardinality(D)
  <2> DEFINE n == Cardinality(Lower(id))
  <2>1. n \in Nat /\ n < Cardinality(D) /\ Fix!NewId(id) = Fix!FirstFree + n
    BY <1>5, <1>9
  <2> HIDE DEF n
  <2>2. Fix!Ids = 1..(4 * MaxAdds)
    BY DEF Fix!Ids, Fix!MaxId
  <2>3. Fix!FirstFree + n <= 4 * MaxAdds
    BY <1>1, <1>6, <1>7, <1>8, <2>1
  <2> QED
    BY <1>1, <1>6, <1>8, <2>1, <2>2, <2>3
<1>12. ASSUME NEW a \in D, NEW b \in D, Fix!NewId(a) = Fix!NewId(b)
       PROVE  a = b
  <2> DEFINE m == Cardinality(Lower(a))
             n == Cardinality(Lower(b))
  <2>1. m \in Nat /\ n \in Nat
    BY <1>9
  <2>2. (a < b => m < n) /\ (b < a => n < m)
    BY <1>10
  <2>3. Fix!FirstFree + m = Fix!FirstFree + n
    BY <1>5, <1>12
  <2>4. a \in Nat /\ b \in Nat
    BY <1>4
  <2> HIDE DEF m, n
  <2> QED
    BY <1>6, <2>1, <2>2, <2>3, <2>4
<1>13. Cardinality(D) \in 0..MaxAdds
  BY <1>1, <1>7, <1>8
<1> QED
  BY <1>11, <1>12, <1>13 DEF D

-----------------------------------------------------------------------------
(* What the repair writes.                                                 *)

Chosen == \A id \in Fix!Duplicated : ~ Fix!Tied(id)

\* The file of an id that is there twice goes with the copy that gets a new
\* id, or is the winner's, who then claims it, or there is none.
LEMMA Claims ==
  ASSUME Together(dir), Chosen, NEW id \in Fix!Duplicated
  PROVE  /\ Fix!Renamed(id) =>
              /\ dir.files[id] = Fix!Loser(id).title
              /\ Fix!claimOf(id) = None
         /\ ~ Fix!Renamed(id) =>
              \/ Fix!claimOf(id) = id /\ dir.files[id] = Fix!Winner(id).title
              \/ Fix!claimOf(id) = None /\ dir.files[id] = None
<1> DEFINE w == Fix!Winner(id)
           l == Fix!Loser(id)
           t == dir.files[id]
<1>1. /\ Fix!GroupOf(id) = {w, l} /\ w \in dir.items /\ l \in dir.items
      /\ w.id = id /\ l.id = id /\ w.title # l.title
  BY Pair DEF Chosen
<1>2. w \in Added /\ l \in Added
  BY <1>1 DEF Together, Assembled, Directory
<1>3. /\ w.detail \in {None, id} /\ l.detail \in {None, id} /\ w.title # None /\ l.title # None
      /\ id \in Fix!Ids /\ id # None
  BY <1>1, <1>2, AddedIs
<1>4. t # None => \E i \in dir.items : i.detail = id /\ t = i.title
  BY <1>3 DEF Together, Assembled
<1>5. ASSUME NEW i \in dir.items, i.detail = id
      PROVE  i = w \/ i = l
  <2>1. i \in Added
    BY DEF Together, Assembled, Directory
  <2>2. i.id = id
    BY <1>3, <1>5, <2>1, AddedIs
  <2> QED
    BY <1>1, <2>2 DEF Fix!GroupOf
<1>6. \/ t = None
      \/ t = w.title /\ w.detail = id
      \/ t = l.title /\ l.detail = id
  BY <1>4, <1>5
<1>7. t = None => w.detail = None /\ l.detail = None
  BY <1>1 DEF Together, Assembled
<1>8. Fix!Renamed(id) <=> t = l.title /\ l.detail = id
  BY DEF Fix!Renamed, Fix!FileIsLosers
<1>9. Fix!claimOf(id) = IF t = w.title /\ l.detail = id THEN id
                        ELSE IF Fix!Renamed(id) THEN None ELSE w.detail
  BY DEF Fix!claimOf, Fix!FileIsWinners
<1> HIDE DEF w, l, t
<1>10. ASSUME Fix!Renamed(id)
       PROVE  t = l.title /\ Fix!claimOf(id) = None
  <2>1. t = l.title /\ t # w.title
    BY <1>1, <1>8, <1>10
  <2> QED
    BY <1>9, <1>10, <2>1
<1>11. ASSUME ~ Fix!Renamed(id)
       PROVE  \/ Fix!claimOf(id) = id /\ t = w.title
              \/ Fix!claimOf(id) = None /\ t = None
  <2>1. CASE t = None
    <3>1. Fix!claimOf(id) = None
      BY <1>3, <1>7, <1>9, <1>11, <2>1
    <3> QED
      BY <2>1, <3>1
  <2>2. CASE t = w.title /\ w.detail = id
    <3>1. Fix!claimOf(id) = id
      BY <1>9, <1>11, <2>2
    <3> QED
      BY <2>2, <3>1
  <2>3. CASE t = l.title /\ l.detail = id
    BY <1>8, <1>11, <2>3
  <2> QED
    BY <1>6, <2>1, <2>2, <2>3
<1> QED
  BY <1>10, <1>11 DEF w, l, t

\* A copy gets its number, and its file's; the other one gets its claim.
LEMMA Copies ==
  ASSUME Together(dir), Chosen, NEW id \in Fix!Duplicated
  PROVE  /\ Fix!Renumbered(id).title = Fix!Loser(id).title
         /\ Fix!Renumbered(id).id = Fix!NewId(id)
         /\ Fix!Renumbered(id).detail = IF Fix!Renamed(id) THEN Fix!NewId(id) ELSE None
         /\ [Fix!Winner(id) EXCEPT !.detail = Fix!claimOf(id)].title = Fix!Winner(id).title
         /\ [Fix!Winner(id) EXCEPT !.detail = Fix!claimOf(id)].id = id
         /\ [Fix!Winner(id) EXCEPT !.detail = Fix!claimOf(id)].detail = Fix!claimOf(id)
<1> DEFINE w == Fix!Winner(id)
           l == Fix!Loser(id)
           c == Fix!claimOf(id)
           n == Fix!NewId(id)
           held == IF Fix!Renamed(id) THEN Fix!NewId(id) ELSE None
<1>1. w \in dir.items /\ l \in dir.items /\ w.id = id
  BY Pair DEF Chosen
<1>2. w \in Added /\ l \in Added
  BY <1>1 DEF Together, Assembled, Directory
<1>3. Fix!Renumbered(id) = [l EXCEPT !.id = n, !.detail = held]
  BY DEF Fix!Renumbered
<1> HIDE DEF w, l, c, n, held
<1>4. /\ w = [title |-> w.title, id |-> w.id, rank |-> w.rank, created |-> w.created, detail |-> w.detail]
      /\ l = [title |-> l.title, id |-> l.id, rank |-> l.rank, created |-> l.created, detail |-> l.detail]
  BY <1>2, AddedIs
<1>5. [l EXCEPT !.id = n, !.detail = held] = [title |-> l.title, id |-> n, rank |-> l.rank, created |-> l.created, detail |-> held]
  <2>1. [l EXCEPT !.id = n] = [title |-> l.title, id |-> n, rank |-> l.rank, created |-> l.created, detail |-> l.detail]
    BY <1>4
  <2>2. [l EXCEPT !.id = n, !.detail = held] = [[l EXCEPT !.id = n] EXCEPT !.detail = held]
    OBVIOUS
  <2>3. [[title |-> l.title, id |-> n, rank |-> l.rank, created |-> l.created, detail |-> l.detail] EXCEPT !.detail = held]
          = [title |-> l.title, id |-> n, rank |-> l.rank, created |-> l.created, detail |-> held]
    OBVIOUS
  <2> QED
    BY <2>1, <2>2, <2>3
<1>6. [w EXCEPT !.detail = c] = [title |-> w.title, id |-> w.id, rank |-> w.rank, created |-> w.created, detail |-> c]
  BY <1>4
<1> QED
  BY <1>1, <1>3, <1>5, <1>6 DEF w, l, c, n, held

\* The files: renamed to the new number, with the text that they have.
LEMMA FilesFollow ==
  ASSUME Together(dir), Chosen
  PROVE  /\ \A d \in Fix!Duplicated : Fix!Renamed(d) =>
              Fix!Fixed.files[d] = None /\ Fix!Fixed.files[Fix!NewId(d)] = dir.files[d]
         /\ \A x \in Fix!Ids :
              \/ Fix!Fixed.files[x] = dir.files[x]
              \/ \E d \in Fix!Duplicated : Fix!Renamed(d) /\ (x = d \/ x = Fix!NewId(d))
<1> DEFINE gone == {id \in Fix!Duplicated : Fix!Renamed(id)}
<1>1. Fix!Fixed.files = [id \in Fix!Ids |->
        IF id \in gone THEN None
        ELSE IF \E d \in gone : Fix!NewId(d) = id THEN dir.files[CHOOSE d \in gone : Fix!NewId(d) = id]
        ELSE dir.files[id]]
  BY DEF Fix!Fixed
<1>2. \A x \in Fix!Ids : Fix!Fixed.files[x] =
        IF x \in gone THEN None
        ELSE IF \E d \in gone : Fix!NewId(d) = x THEN dir.files[CHOOSE d \in gone : Fix!NewId(d) = x]
        ELSE dir.files[x]
  BY <1>1
<1>3. ASSUME NEW d \in Fix!Duplicated, Fix!Renamed(d)
      PROVE  Fix!Fixed.files[d] = None /\ Fix!Fixed.files[Fix!NewId(d)] = dir.files[d]
  <2>1. d \in gone /\ d \in Fix!Ids
    BY <1>3 DEF Fix!Duplicated
  <2>2. Fix!NewId(d) \in Fix!Ids /\ Fix!FirstFree <= Fix!NewId(d)
    BY NewIds
  <2>3. ASSUME Fix!NewId(d) \in gone
        PROVE  FALSE
    <3>1. PICK i \in Fix!GroupOf(Fix!NewId(d)) : TRUE
      BY <2>3, TwoItems
    <3>2. i \in dir.items /\ i.id = Fix!NewId(d)
      BY DEF Fix!GroupOf
    <3>3. i.id < Fix!FirstFree /\ Fix!FirstFree \in Nat
      BY <3>2, FreeOfTwo
    <3>4. Fix!NewId(d) \in Nat
      BY <2>2 DEF Fix!Ids
    <3> QED
      BY <2>2, <3>2, <3>3, <3>4
  <2>4. \A e \in gone : Fix!NewId(e) = Fix!NewId(d) => e = d
    BY NewIds
  <2>5. (CHOOSE e \in gone : Fix!NewId(e) = Fix!NewId(d)) = d
    BY <2>1, <2>4
  <2>6. Fix!Fixed.files[d] = None
    BY <1>2, <2>1
  <2>7. Fix!Fixed.files[Fix!NewId(d)] = dir.files[CHOOSE e \in gone : Fix!NewId(e) = Fix!NewId(d)]
    BY <1>2, <2>1, <2>2, <2>3
  <2> QED
    BY <2>5, <2>6, <2>7
<1>4. ASSUME NEW x \in Fix!Ids
      PROVE  \/ Fix!Fixed.files[x] = dir.files[x]
             \/ \E d \in Fix!Duplicated : Fix!Renamed(d) /\ (x = d \/ x = Fix!NewId(d))
  BY <1>2
<1> QED
  BY <1>3, <1>4

\* The lines: those of other ids as they were, and both copies of each.
LEMMA LinesAre ==
  ASSUME NEW i
  PROVE  i \in Fix!Fixed.items <=>
           \/ i \in dir.items /\ i.id \notin Fix!Duplicated
           \/ \E id \in Fix!Duplicated : i = Fix!Renumbered(id)
           \/ \E id \in Fix!Duplicated : i = [Fix!Winner(id) EXCEPT !.detail = Fix!claimOf(id)]
<1>1. Fix!Fixed.items = {x \in dir.items : x.id \notin Fix!Duplicated}
                          \cup {Fix!Renumbered(id) : id \in Fix!Duplicated}
                          \cup {[Fix!Winner(id) EXCEPT !.detail = Fix!claimOf(id)] : id \in Fix!Duplicated}
  BY DEF Fix!Fixed
<1> QED
  BY <1>1

\* Every id is within the new next_id, and on one item.
LEMMA FixedIds ==
  ASSUME Together(dir), Chosen
  PROVE  /\ Fix!Fixed.next = Fix!FirstFree + Cardinality(Fix!Duplicated) /\ Fix!Fixed.next \in Nat
         /\ \A i \in Fix!Fixed.items : i.id \in Nat /\ i.id < Fix!Fixed.next
         /\ \A i, j \in Fix!Fixed.items : i.id = j.id => i = j
<1> DEFINE D == Fix!Duplicated
           n == Fix!Fixed.next
           free == Fix!FirstFree
           C(id) == [Fix!Winner(id) EXCEPT !.detail = Fix!claimOf(id)]
           R(id) == Fix!Renumbered(id)
<1>1. n = free + Cardinality(D)
  BY DEF Fix!Fixed, Fix!Cardinality, Cardinality
<1>2. Cardinality(D) \in Nat /\ free \in Nat /\ free <= n /\ n \in Nat
  <2>1. Cardinality(D) \in Nat /\ free \in Nat
    BY NewIds, FreeOfTwo
  <2> HIDE DEF D, free, n
  <2> QED
    BY <1>1, <2>1
<1>3. ASSUME NEW id \in D
      PROVE  /\ id \in Nat /\ id < free
             /\ Fix!NewId(id) \in Nat /\ free <= Fix!NewId(id) /\ Fix!NewId(id) < n
             /\ R(id).id = Fix!NewId(id) /\ C(id).id = id
  <2>1. PICK i \in Fix!GroupOf(id) : TRUE
    BY TwoItems
  <2>2. i \in dir.items /\ i.id = id /\ id \in Fix!Ids
    BY TwoItems DEF Fix!GroupOf
  <2>3. id < free
    BY <2>2, FreeOfTwo
  <2>4. Fix!NewId(id) \in Fix!Ids /\ free <= Fix!NewId(id) /\ Fix!NewId(id) < n
    BY <1>1, NewIds
  <2>5. R(id).id = Fix!NewId(id) /\ C(id).id = id
    BY Copies
  <2> QED
    BY <2>2, <2>3, <2>4, <2>5 DEF Fix!Ids
<1>4. ASSUME NEW i \in dir.items
      PROVE  i.id \in Nat /\ i.id < free
  <2>1. i \in Added
    BY DEF Together, Assembled, Directory
  <2> QED
    BY <2>1, AddedIs, FreeOfTwo
<1>5. ASSUME NEW i \in Fix!Fixed.items
      PROVE  \/ i \in dir.items /\ i.id \notin D
             \/ \E id \in D : i = R(id)
             \/ \E id \in D : i = C(id)
  BY LinesAre
<1>6. \A a, b \in D : Fix!NewId(a) = Fix!NewId(b) => a = b
  BY NewIds
<1>7. ASSUME NEW i \in dir.items, NEW j \in dir.items, i.id = j.id, i.id \notin D
      PROVE  i = j
  BY <1>7, TheTwo DEF Fix!GroupOf
<1> HIDE DEF D, n, free, C, R
<1>8. ASSUME NEW i \in Fix!Fixed.items
      PROVE  i.id \in Nat /\ i.id < n
  <2>1. CASE i \in dir.items
    BY <1>2, <1>4, <2>1
  <2>2. CASE \E id \in D : i = R(id)
    BY <1>3, <2>2
  <2>3. CASE \E id \in D : i = C(id)
    BY <1>2, <1>3, <2>3
  <2> QED
    BY <1>5, <2>1, <2>2, <2>3
<1>9. ASSUME NEW i \in Fix!Fixed.items, NEW j \in Fix!Fixed.items, i.id = j.id
      PROVE  i = j
  <2>1. CASE i \in dir.items /\ i.id \notin D
    <3>1. ~ \E id \in D : j = R(id)
      BY <1>2, <1>3, <1>4, <1>9, <2>1
    <3>2. ~ \E id \in D : j = C(id)
      BY <1>3, <1>9, <2>1
    <3> QED
      BY <1>5, <1>7, <1>9, <2>1, <3>1, <3>2
  <2>2. CASE \E id \in D : i = R(id)
    <3>1. PICK a \in D : i = R(a)
      BY <2>2
    <3>2. i.id = Fix!NewId(a) /\ free <= i.id /\ i.id \in Nat
      BY <1>3, <3>1
    <3>3. ASSUME j \in dir.items
          PROVE  FALSE
      <4>1. j.id \in Nat /\ j.id < free
        BY <1>4, <3>3
      <4> QED
        BY <1>2, <1>9, <3>2, <4>1
    <3>4. ASSUME NEW id \in D, j = C(id)
          PROVE  FALSE
      <4>1. j.id \in Nat /\ j.id < free
        BY <1>3, <3>4
      <4> QED
        BY <1>2, <1>9, <3>2, <4>1
    <3>5. PICK b \in D : j = R(b)
      BY <1>5, <3>3, <3>4
    <3>6. j.id = Fix!NewId(b)
      BY <1>3, <3>5
    <3> QED
      BY <1>6, <1>9, <3>1, <3>2, <3>5, <3>6
  <2>3. CASE \E id \in D : i = C(id)
    <3>1. PICK a \in D : i = C(a)
      BY <2>3
    <3>2. i.id = a /\ a < free /\ a \in Nat
      BY <1>3, <3>1
    <3>3. ASSUME NEW id \in D, j = R(id)
          PROVE  FALSE
      <4>1. j.id \in Nat /\ free <= j.id
        BY <1>3, <3>3
      <4> QED
        BY <1>2, <1>9, <3>2, <4>1
    <3>4. PICK b \in D : j = C(b)
      BY <1>5, <1>9, <3>2, <3>3
    <3>5. j.id = b
      BY <1>3, <3>4
    <3> QED
      BY <1>9, <3>1, <3>2, <3>4, <3>5
  <2> QED
    BY <1>5, <2>1, <2>2, <2>3
<1> QED
  BY <1>1, <1>2, <1>8, <1>9 DEF n, free, D

\* No file has a name that the repair gives out.
LEMMA NewNameIsFree ==
  ASSUME Together(dir), NEW d \in Fix!Duplicated
  PROVE  dir.files[Fix!NewId(d)] = None
<1> DEFINE x == Fix!NewId(d)
<1>1. x \in Fix!Ids /\ Fix!FirstFree <= x /\ Fix!FirstFree \in Nat /\ x \in Nat
  BY NewIds, FreeOfTwo DEF Fix!Ids
<1> HIDE DEF x
<1>2. ASSUME dir.files[x] # None
      PROVE  FALSE
  <2>1. PICK i \in dir.items : i.detail = x
    BY <1>1, <1>2 DEF Together, Assembled
  <2>2. i \in Added
    BY DEF Together, Assembled, Directory
  <2>3. x # None
    BY <1>1, FixAssumption DEF Fix!FixAssumption
  <2>4. i.id = x
    BY <2>1, <2>2, <2>3, AddedIs
  <2>5. i.id < Fix!FirstFree
    BY FreeOfTwo
  <2> QED
    BY <1>1, <2>4, <2>5
<1> QED
  BY <1>2 DEF x

\* What a file is of in the repaired directory: a copy that was renumbered, or
\* what it was of.
LEMMA FixedFile ==
  ASSUME Together(dir), Chosen, NEW x \in Fix!Ids
  PROVE  \/ x \in Fix!Duplicated /\ Fix!Renamed(x) /\ Fix!Fixed.files[x] = None
         \/ \E d \in Fix!Duplicated :
              Fix!Renamed(d) /\ x = Fix!NewId(d) /\ dir.files[x] = None /\ Fix!Fixed.files[x] = dir.files[d]
         \/ ~ (x \in Fix!Duplicated /\ Fix!Renamed(x)) /\ Fix!Fixed.files[x] = dir.files[x]
<1>1. ASSUME x \in Fix!Duplicated, Fix!Renamed(x)
      PROVE  Fix!Fixed.files[x] = None
  BY <1>1, FilesFollow
<1>2. ASSUME NEW d \in Fix!Duplicated, Fix!Renamed(d), x = Fix!NewId(d)
      PROVE  dir.files[x] = None /\ Fix!Fixed.files[x] = dir.files[d]
  BY <1>2, FilesFollow, NewNameIsFree
<1>3. \/ Fix!Fixed.files[x] = dir.files[x]
      \/ \E d \in Fix!Duplicated : Fix!Renamed(d) /\ (x = d \/ x = Fix!NewId(d))
  BY FilesFollow
<1> QED
  BY <1>1, <1>2, <1>3

\* A file of before keeps its text, unless it went with a renumbered copy.
LEMMA FileStays ==
  ASSUME Together(dir), Chosen, NEW x \in Fix!Ids, x < Fix!FirstFree,
         ~ (x \in Fix!Duplicated /\ Fix!Renamed(x))
  PROVE  Fix!Fixed.files[x] = dir.files[x]
<1>1. ASSUME NEW d \in Fix!Duplicated, x = Fix!NewId(d)
      PROVE  FALSE
  <2>1. Fix!FirstFree <= x /\ Fix!FirstFree \in Nat /\ x \in Nat
    BY <1>1, NewIds, FreeOfTwo DEF Fix!Ids
  <2> QED
    BY <2>1
<1> QED
  BY <1>1, FixedFile

\* The item that had a file, and is not on an id that is there twice.
LEMMA Alone ==
  ASSUME Together(dir), NEW i \in dir.items, i.id \notin Fix!Duplicated
  PROVE  /\ i.detail # None => i.detail = i.id /\ dir.files[i.id] = i.title
         /\ dir.files[i.id] # None => i.detail = i.id
<1>1. i \in Added
  BY DEF Together, Assembled, Directory
<1>2. i.detail \in {None, i.id} /\ i.id \in Fix!Ids /\ i.id # None
  BY <1>1, AddedIs
<1>3. ASSUME dir.files[i.id] # None
      PROVE  i.detail = i.id /\ dir.files[i.id] = i.title
  <2>1. PICK j \in dir.items : j.detail = i.id /\ dir.files[i.id] = j.title
    BY <1>2, <1>3 DEF Together, Assembled
  <2>2. j \in Added
    BY DEF Together, Assembled, Directory
  <2>3. j.id = i.id
    BY <1>2, <2>1, <2>2, AddedIs
  <2>4. j = i
    BY <2>3, TheTwo DEF Fix!GroupOf
  <2> QED
    BY <2>1, <2>4
<1>4. i.detail # None => dir.files[i.id] # None
  BY DEF Together, Assembled
<1> QED
  BY <1>2, <1>3, <1>4

\* A repaired directory is one that --check finds nothing in.
LEMMA FixedIsClean ==
  ASSUME Together(dir), Chosen
  PROVE  Fix!Clean(Fix!Fixed)
<1> DEFINE D == Fix!Duplicated
           e == Fix!Fixed
           C(id) == [Fix!Winner(id) EXCEPT !.detail = Fix!claimOf(id)]
           R(id) == Fix!Renumbered(id)
<1>1. /\ \A i, j \in e.items : i.id = j.id => i = j
      /\ \A i \in e.items : i.id < e.next
  BY FixedIds
<1>2. ASSUME NEW i \in dir.items
      PROVE  i.id \in Fix!Ids /\ i.id # None /\ i.id < Fix!FirstFree
  <2>1. i \in Added
    BY DEF Together, Assembled, Directory
  <2> QED
    BY <2>1, AddedIs, FreeOfTwo
<1>3. ASSUME NEW id \in D
      PROVE  /\ id \in Fix!Ids /\ id < Fix!FirstFree
             /\ R(id) \in e.items /\ C(id) \in e.items
             /\ R(id).title = Fix!Loser(id).title /\ R(id).id = Fix!NewId(id)
             /\ R(id).detail = IF Fix!Renamed(id) THEN Fix!NewId(id) ELSE None
             /\ C(id).title = Fix!Winner(id).title /\ C(id).id = id /\ C(id).detail = Fix!claimOf(id)
  <2>1. Fix!Winner(id) \in dir.items /\ Fix!Winner(id).id = id
    BY Pair DEF Chosen
  <2>2. id \in Fix!Ids /\ id < Fix!FirstFree
    BY <1>2, <2>1
  <2>3. R(id) \in e.items /\ C(id) \in e.items
    BY LinesAre
  <2>4. /\ R(id).title = Fix!Loser(id).title /\ R(id).id = Fix!NewId(id)
        /\ R(id).detail = IF Fix!Renamed(id) THEN Fix!NewId(id) ELSE None
        /\ C(id).title = Fix!Winner(id).title /\ C(id).id = id /\ C(id).detail = Fix!claimOf(id)
    BY Copies
  <2> QED
    BY <2>2, <2>3, <2>4
<1>4. ASSUME NEW id \in D
      PROVE  /\ Fix!Renamed(id) =>
                  e.files[Fix!NewId(id)] = Fix!Loser(id).title /\ Fix!claimOf(id) = None
             /\ ~ Fix!Renamed(id) =>
                  \/ Fix!claimOf(id) = id /\ e.files[id] = Fix!Winner(id).title
                  \/ Fix!claimOf(id) = None /\ e.files[id] = None
  <2>1. CASE Fix!Renamed(id)
    <3>1. dir.files[id] = Fix!Loser(id).title /\ Fix!claimOf(id) = None
      BY <2>1, Claims
    <3>2. e.files[Fix!NewId(id)] = dir.files[id]
      BY <2>1, FilesFollow
    <3> QED
      BY <2>1, <3>1, <3>2
  <2>2. CASE ~ Fix!Renamed(id)
    <3>1. e.files[id] = dir.files[id]
      BY <1>3, <2>2, FileStays
    <3>2. \/ Fix!claimOf(id) = id /\ dir.files[id] = Fix!Winner(id).title
          \/ Fix!claimOf(id) = None /\ dir.files[id] = None
      BY <2>2, Claims
    <3> QED
      BY <2>2, <3>1, <3>2
  <2> QED
    BY <2>1, <2>2
<1>5. ASSUME NEW i \in dir.items, i.id \notin D
      PROVE  /\ i \in e.items /\ e.files[i.id] = dir.files[i.id]
             /\ i.detail # None => i.detail = i.id /\ dir.files[i.id] = i.title
             /\ dir.files[i.id] # None => i.detail = i.id
  <2>1. i \in e.items
    BY <1>5, LinesAre
  <2>2. e.files[i.id] = dir.files[i.id]
    BY <1>2, <1>5, FileStays
  <2>3. /\ i.detail # None => i.detail = i.id /\ dir.files[i.id] = i.title
        /\ dir.files[i.id] # None => i.detail = i.id
    BY <1>5, Alone
  <2> QED
    BY <2>1, <2>2, <2>3
<1>6. ASSUME NEW i \in e.items
      PROVE  \/ i \in dir.items /\ i.id \notin D
             \/ \E id \in D : i = R(id)
             \/ \E id \in D : i = C(id)
  BY LinesAre
<1> HIDE DEF D, C, R, e
<1>7. ASSUME NEW i \in e.items, i.detail # None
      PROVE  e.files[i.detail] = i.title
  <2>1. CASE i \in dir.items /\ i.id \notin D
    BY <1>5, <1>7, <2>1
  <2>2. CASE \E id \in D : i = R(id)
    <3>1. PICK id \in D : i = R(id)
      BY <2>2
    <3>2. Fix!Renamed(id) /\ i.detail = Fix!NewId(id) /\ i.title = Fix!Loser(id).title
      BY <1>3, <1>7, <3>1
    <3> QED
      BY <1>4, <3>2
  <2>3. CASE \E id \in D : i = C(id)
    <3>1. PICK id \in D : i = C(id)
      BY <2>3
    <3>2. Fix!claimOf(id) # None /\ i.detail = Fix!claimOf(id) /\ i.title = Fix!Winner(id).title
      BY <1>3, <1>7, <3>1
    <3> QED
      BY <1>4, <3>2
  <2> QED
    BY <1>6, <2>1, <2>2, <2>3
<1>8. ASSUME NEW x \in Fix!Ids, e.files[x] # None
      PROVE  \E i \in e.items : i.detail = x /\ i.id = x
  <2>1. \/ \E d \in D : Fix!Renamed(d) /\ x = Fix!NewId(d)
        \/ ~ (x \in D /\ Fix!Renamed(x)) /\ e.files[x] = dir.files[x]
    <3>1. \/ x \in D /\ Fix!Renamed(x) /\ e.files[x] = None
          \/ \E d \in D : Fix!Renamed(d) /\ x = Fix!NewId(d) /\ dir.files[x] = None /\ e.files[x] = dir.files[d]
          \/ ~ (x \in D /\ Fix!Renamed(x)) /\ e.files[x] = dir.files[x]
      BY FixedFile DEF D, e
    <3> QED
      BY <1>8, <3>1
  <2>2. CASE \E d \in D : Fix!Renamed(d) /\ x = Fix!NewId(d)
    <3>1. PICK d \in D : Fix!Renamed(d) /\ x = Fix!NewId(d)
      BY <2>2
    <3>2. R(d) \in e.items /\ R(d).id = x /\ R(d).detail = x
      BY <1>3, <3>1
    <3> QED
      BY <3>2
  <2>3. CASE x \in D /\ ~ Fix!Renamed(x)
    <3>1. Fix!claimOf(x) = x
      BY <1>4, <1>8, <2>3
    <3>2. C(x) \in e.items /\ C(x).id = x /\ C(x).detail = x
      BY <1>3, <2>3, <3>1
    <3> QED
      BY <3>2
  <2>4. CASE x \notin D /\ e.files[x] = dir.files[x]
    <3>1. PICK i \in dir.items : i.detail = x
      BY <1>8, <2>4 DEF Together, Assembled
    <3>2. i \in Added
      BY DEF Together, Assembled, Directory
    <3>3. x # None
      BY FixAssumption DEF Fix!FixAssumption
    <3>4. i.id = x
      BY <3>1, <3>2, <3>3, AddedIs
    <3>5. i \in e.items
      BY <1>5, <2>4, <3>4
    <3> QED
      BY <3>1, <3>4, <3>5
  <2> QED
    BY <2>1, <2>2, <2>3, <2>4
<1> QED
  BY <1>1, <1>7, <1>8 DEF Fix!Clean, e

\* The same items are there, those further along than their namesake under
\* the ids they had.
LEMMA FixedKeepsItems ==
  ASSUME Together(dir), Chosen
  PROVE  /\ {i.title : i \in Fix!Fixed.items} = {i.title : i \in dir.items}
         /\ \A i \in Fix!Fixed.items, j \in dir.items :
              i.title = j.title /\ (\A k \in dir.items \ {j} : k.id = j.id => k.rank < j.rank) => i.id = j.id
<1> DEFINE D == Fix!Duplicated
           e == Fix!Fixed
           w(id) == Fix!Winner(id)
           l(id) == Fix!Loser(id)
           C(id) == [Fix!Winner(id) EXCEPT !.detail = Fix!claimOf(id)]
           R(id) == Fix!Renumbered(id)
<1>1. ASSUME NEW id \in D
      PROVE  /\ w(id) \in dir.items /\ l(id) \in dir.items /\ w(id).id = id /\ l(id).id = id
             /\ w(id) # l(id) /\ Fix!GroupOf(id) = {w(id), l(id)}
             /\ w(id).rank \in Nat /\ l(id).rank \in Nat /\ w(id).rank >= l(id).rank
  <2>1. /\ w(id) \in dir.items /\ l(id) \in dir.items /\ w(id).id = id /\ l(id).id = id
        /\ w(id) # l(id) /\ Fix!GroupOf(id) = {w(id), l(id)} /\ Fix!beats(w(id), l(id))
    BY Pair DEF Chosen
  <2>2. w(id) \in Added /\ l(id) \in Added
    BY <2>1 DEF Together, Assembled, Directory
  <2>3. w(id).rank \in Nat /\ l(id).rank \in Nat
    BY <2>2, AddedIs
  <2>4. w(id).rank > l(id).rank \/ w(id).rank = l(id).rank
    BY <2>1 DEF Fix!beats
  <2> HIDE DEF w, l
  <2> QED
    BY <2>1, <2>3, <2>4
<1>2. ASSUME NEW id \in D
      PROVE  /\ R(id) \in e.items /\ C(id) \in e.items
             /\ R(id).title = l(id).title /\ C(id).title = w(id).title /\ C(id).id = id
  BY LinesAre, Copies
<1>3. ASSUME NEW i \in e.items
      PROVE  \/ i \in dir.items /\ i.id \notin D
             \/ \E id \in D : i = R(id)
             \/ \E id \in D : i = C(id)
  BY LinesAre
<1>4. ASSUME NEW i \in dir.items, i.id \notin D
      PROVE  i \in e.items
  BY <1>4, LinesAre
<1>5. \A i \in dir.items : i \in Fix!GroupOf(i.id)
  BY DEF Fix!GroupOf
<1>6. \A i, j \in dir.items : i.title = j.title => i = j
  BY DEF Together, Assembled
<1> HIDE DEF D, e, w, l, C, R
<1>7. ASSUME NEW i \in e.items
      PROVE  \E j \in dir.items : j.title = i.title
  BY <1>1, <1>2, <1>3
<1>8. ASSUME NEW j \in dir.items
      PROVE  \E i \in e.items : i.title = j.title
  <2>1. CASE j.id \notin D
    BY <1>4, <2>1
  <2>2. CASE j.id \in D
    <3>1. j = w(j.id) \/ j = l(j.id)
      BY <1>1, <1>5, <2>2
    <3> QED
      BY <1>2, <2>2, <3>1
  <2> QED
    BY <2>1, <2>2
<1>9. ASSUME NEW i \in e.items, NEW j \in dir.items, i.title = j.title,
             \A k \in dir.items \ {j} : k.id = j.id => k.rank < j.rank
      PROVE  i.id = j.id
  <2>1. CASE i \in dir.items /\ i.id \notin D
    BY <1>6, <1>9, <2>1
  <2>2. CASE \E id \in D : i = R(id)
    <3>1. PICK id \in D : i = R(id)
      BY <2>2
    <3>2. j = l(id)
      BY <1>1, <1>2, <1>6, <1>9, <3>1
    <3>3. w(id).rank < l(id).rank
      BY <1>1, <1>9, <3>2
    <3>4. w(id).rank \in Nat /\ l(id).rank \in Nat /\ w(id).rank >= l(id).rank
      BY <1>1
    <3> QED
      BY <3>3, <3>4
  <2>3. CASE \E id \in D : i = C(id)
    <3>1. PICK id \in D : i = C(id)
      BY <2>3
    <3>2. j = w(id)
      BY <1>1, <1>2, <1>6, <1>9, <3>1
    <3> QED
      BY <1>1, <1>2, <3>1, <3>2
  <2> QED
    BY <1>3, <2>1, <2>2, <2>3
<1>10. {i.title : i \in e.items} = {i.title : i \in dir.items}
  <2>1. \A t : t \in {i.title : i \in e.items} <=> \E i \in e.items : t = i.title
    OBVIOUS
  <2>2. \A t : t \in {i.title : i \in dir.items} <=> \E i \in dir.items : t = i.title
    OBVIOUS
  <2> QED
    BY <1>7, <1>8, <2>1, <2>2
<1> QED
  BY <1>9, <1>10 DEF e

\* And the same texts of files.
LEMMA FixedKeepsTexts ==
  ASSUME Together(dir), Chosen
  PROVE  {Fix!Fixed.files[id] : id \in Fix!Ids} = {dir.files[id] : id \in Fix!Ids}
<1> DEFINE e == Fix!Fixed
<1>1. ASSUME NEW d \in Fix!Duplicated, Fix!Renamed(d)
      PROVE  /\ d \in Fix!Ids /\ Fix!NewId(d) \in Fix!Ids
             /\ e.files[Fix!NewId(d)] = dir.files[d] /\ e.files[d] = None
  BY <1>1, TwoItems, NewIds, FilesFollow
<1>2. ASSUME NEW d \in Fix!Duplicated, Fix!Renamed(d)
      PROVE  dir.files[Fix!NewId(d)] = None
  BY NewNameIsFree
<1>3. ASSUME NEW x \in Fix!Ids
      PROVE  \E y \in Fix!Ids : e.files[x] = dir.files[y]
  <2>1. CASE x \in Fix!Duplicated /\ Fix!Renamed(x)
    BY <1>1, <1>2, <2>1
  <2>2. CASE ~ (x \in Fix!Duplicated /\ Fix!Renamed(x))
    <3>1. \/ \E d \in Fix!Duplicated : Fix!Renamed(d) /\ e.files[x] = dir.files[d]
          \/ e.files[x] = dir.files[x]
      BY <2>2, FixedFile
    <3> QED
      BY <1>1, <3>1
  <2> QED
    BY <2>1, <2>2
<1>4. ASSUME NEW x \in Fix!Ids
      PROVE  \E y \in Fix!Ids : dir.files[x] = e.files[y]
  <2>1. CASE x \in Fix!Duplicated /\ Fix!Renamed(x)
    BY <1>1, <2>1
  <2>2. CASE \E d \in Fix!Duplicated : Fix!Renamed(d) /\ x = Fix!NewId(d)
    BY <1>1, <1>2, <2>2
  <2>3. CASE e.files[x] = dir.files[x]
    BY <2>3
  <2> QED
    BY <2>1, <2>2, <2>3, FilesFollow
<1> HIDE DEF e
<1>5. \A t : t \in {e.files[id] : id \in Fix!Ids} <=> \E id \in Fix!Ids : t = e.files[id]
  OBVIOUS
<1>6. \A t : t \in {dir.files[id] : id \in Fix!Ids} <=> \E id \in Fix!Ids : t = dir.files[id]
  OBVIOUS
<1>7. {e.files[id] : id \in Fix!Ids} = {dir.files[id] : id \in Fix!Ids}
  BY <1>3, <1>4, <1>5, <1>6
<1> QED
  BY <1>7 DEF e

\* So the repair of a merged directory is one.
LEMMA FixedIsRepaired ==
  ASSUME Together(dir), Chosen
  PROVE  Repaired(Fix!Fixed, dir)
<1>1. Fix!Fixed = [items |-> Fix!Fixed.items, files |-> [id \in Fix!Ids |-> Fix!Fixed.files[id]], next |-> Fix!Fixed.next]
  BY DEF Fix!Fixed
<1>2. Fix!Fixed.next \in Nat /\ \A i \in Fix!Fixed.items : i.id \in Nat
  BY FixedIds
<1> QED
  BY <1>1, <1>2, FixedIsClean, FixedKeepsItems, FixedKeepsTexts DEF Repaired

\* Run again, the repair does nothing.
LEMMA FixedAgain ==
  ASSUME NEW before, Repaired(dir, before)
  PROVE  Fix!Fixed = dir
<1>1. /\ dir = [items |-> dir.items, files |-> [id \in Fix!Ids |-> dir.files[id]], next |-> dir.next]
      /\ dir.next \in Nat /\ \A i \in dir.items : i.id \in Nat
      /\ \A i, j \in dir.items : i.id = j.id => i = j
      /\ \A i \in dir.items : i.id < dir.next
  BY DEF Repaired, Fix!Clean
<1>2. Fix!Duplicated = {}
  <2>1. ASSUME NEW id \in Fix!Duplicated
        PROVE  FALSE
    <3>1. PICK i, j \in Fix!GroupOf(id) : i # j
      BY TwoItems
    <3> QED
      BY <1>1, <3>1 DEF Fix!GroupOf
  <2> QED
    BY <2>1
<1>3. Fix!FirstFree = dir.next
  <2>1. Fix!FirstFree \in Nat /\ dir.next <= Fix!FirstFree /\ Fix!FirstFree <= dir.next
    BY <1>1, FreeIsAbove
  <2> QED
    BY <1>1, <2>1
<1>4. Fix!Fixed.items = dir.items
  BY <1>2, LinesAre
<1>5. Fix!Fixed.files = [id \in Fix!Ids |-> dir.files[id]]
  BY <1>2 DEF Fix!Fixed
<1>6. Fix!Fixed.next = dir.next
  <2>1. Fix!Fixed.next = Fix!FirstFree + Cardinality(Fix!Duplicated)
    BY DEF Fix!Fixed, Fix!Cardinality, Cardinality
  <2>2. Cardinality(Fix!Duplicated) = 0
    BY <1>2, FS_EmptySet
  <2> QED
    BY <1>1, <1>3, <2>1, <2>2
<1>7. Fix!Fixed = [items |-> Fix!Fixed.items, files |-> Fix!Fixed.files, next |-> Fix!Fixed.next]
  BY DEF Fix!Fixed
<1> QED
  BY <1>1, <1>4, <1>5, <1>6, <1>7

-----------------------------------------------------------------------------
(* The invariant.                                                          *)

\* The directories that nothing is in.
LEMMA EmptyIs ==
  ASSUME NEW b
  PROVE  Branched(b, Fix!Empty)
<1>1. Fix!Empty = [items |-> {}, files |-> [id \in Fix!Ids |-> None], next |-> 1]
  BY DEF Fix!Empty
<1>2. 1 \in 1..(MaxAdds + 1)
  BY FixAssumption DEF Fix!FixAssumption
<1>3. [id \in Fix!Ids |-> None] \in [Fix!Ids -> Texts]
  BY DEF Texts
<1>4. Fix!Empty \in Directory
  BY <1>1, <1>2, <1>3 DEF Directory
<1> QED
  BY <1>1, <1>4 DEF Branched

\* A branch adds an item under the next id.
LEMMA AddKeeps ==
  ASSUME NEW b \in Branches, NEW withFile \in BOOLEAN, Branched(b, branch[b]), day \in Nat,
         branch = [x \in Branches |-> branch[x]], Fix!Add(b, withFile)
  PROVE  /\ branch' = [x \in Branches |-> branch'[x]]
         /\ \A x \in Branches \ {b} : branch'[x] = branch[x]
         /\ Branched(b, branch'[b])
<1> DEFINE d == branch[b]
           id == d.next
           new == [title |-> <<b, id>>, id |-> id, rank |-> 1, created |-> day,
                   detail |-> IF withFile THEN id ELSE None]
           fs == IF withFile THEN [d.files EXCEPT ![id] = new.title] ELSE d.files
           e == [items |-> d.items \cup {new}, files |-> fs, next |-> id + 1]
<1>1. branch' = [branch EXCEPT ![b] = e] /\ id <= MaxAdds
  BY DEF Fix!Add
<1>2. /\ d.items \subseteq Added /\ d.files \in [Fix!Ids -> Texts] /\ id \in 1..(MaxAdds + 1)
      /\ \A i \in d.items : i.title[1] = b /\ i.id < id
      /\ \A i, j \in d.items : i.id = j.id => i = j
      /\ \A x \in Fix!Ids : d.files[x] # None => \E i \in d.items : i.detail = x /\ d.files[x] = i.title
      /\ \A i \in d.items : i.detail # None => d.files[i.id] = i.title
  BY DEF Branched, Directory
<1>3. MaxAdds \in Nat /\ id \in 1..MaxAdds /\ id \in Nat /\ id + 1 \in 1..(MaxAdds + 1)
  BY <1>1, <1>2, FixAssumption DEF Fix!FixAssumption
<1>4. id \in Fix!Ids /\ id # None
  <2>1. id \in Fix!Ids
    BY <1>3 DEF Fix!Ids, Fix!MaxId
  <2> QED
    BY <2>1, FixAssumption DEF Fix!FixAssumption
<1>5. new.title = <<b, id>> /\ new.id = id /\ new.detail = IF withFile THEN id ELSE None
  OBVIOUS
<1>6. new \in Added
  BY <1>3 DEF Added
<1>7. new.title \in Texts /\ new.title # None
  <2>1. new.title \in Branches \X (1..MaxAdds)
    BY <1>3
  <2>2. new.title # None
    BY <1>6, AddedIs
  <2> QED
    BY <2>1, <2>2 DEF Texts
<1>8. /\ e.items = d.items \cup {new} /\ e.files = fs /\ e.next = id + 1
      /\ e = [items |-> e.items, files |-> e.files, next |-> e.next]
  OBVIOUS
<1> HIDE DEF new, e, id
<1>9. fs \in [Fix!Ids -> Texts]
  BY <1>2, <1>4, <1>7
<1>10. /\ fs[id] = IF withFile THEN new.title ELSE d.files[id]
       /\ \A x \in Fix!Ids \ {id} : fs[x] = d.files[x]
  BY <1>2, <1>4
<1>11. ASSUME NEW i \in d.items
       PROVE  /\ i.id \in Fix!Ids /\ i.id # id /\ i.title[1] = b /\ i.id < id + 1
              /\ i.detail \in {None, i.id} /\ i.id \in Nat
  <2>1. i \in Added
    BY <1>2
  <2>2. i.id \in Fix!Ids /\ i.id \in Nat /\ i.detail \in {None, i.id}
    BY <2>1, AddedIs
  <2>3. i.id < id /\ i.title[1] = b
    BY <1>2
  <2> QED
    BY <1>3, <2>2, <2>3
<1>12. d.files[id] = None
  <2>1. ASSUME NEW i \in d.items, i.detail = id
        PROVE  FALSE
    BY <1>4, <1>11, <2>1
  <2> QED
    BY <1>2, <1>4, <2>1
<1> HIDE DEF d, fs
<1>13. e \in Directory
  BY <1>2, <1>3, <1>6, <1>8, <1>9 DEF Directory
<1>14. \A i \in e.items : i.title[1] = b /\ i.id < e.next
  BY <1>3, <1>5, <1>8, <1>11
<1>15. \A i, j \in e.items : i.id = j.id => i = j
  BY <1>2, <1>5, <1>8, <1>11
<1>16. ASSUME NEW x \in Fix!Ids, e.files[x] # None
       PROVE  \E i \in e.items : i.detail = x /\ e.files[x] = i.title
  <2>1. CASE x = id
    <3>1. withFile /\ fs[x] = new.title
      BY <1>8, <1>10, <1>12, <1>16, <2>1
    <3> QED
      BY <1>5, <1>8, <2>1, <3>1
  <2>2. CASE x # id
    <3>1. fs[x] = d.files[x]
      BY <1>10, <2>2
    <3> QED
      BY <1>2, <1>8, <1>16, <3>1
  <2> QED
    BY <2>1, <2>2
<1>17. ASSUME NEW i \in e.items, i.detail # None
       PROVE  e.files[i.id] = i.title
  <2>1. CASE i = new
    BY <1>5, <1>8, <1>10, <1>17, <2>1
  <2>2. CASE i \in d.items
    <3>1. fs[i.id] = d.files[i.id]
      BY <1>10, <1>11, <2>2
    <3> QED
      BY <1>2, <1>8, <1>17, <2>2, <3>1
  <2> QED
    BY <1>8, <2>1, <2>2
<1>18. Branched(b, e)
  BY <1>13, <1>14, <1>15, <1>16, <1>17 DEF Branched
<1>19. branch' = [x \in Branches |-> branch'[x]] /\ branch'[b] = e /\ \A x \in Branches \ {b} : branch'[x] = branch[x]
  BY <1>1
<1> QED
  BY <1>18, <1>19

\* An item that moves on is the same but for its rank.
LEMMA AdvanceKeeps ==
  ASSUME NEW b \in Branches, NEW i \in branch[b].items, NEW home \in DOMAIN Fix!Homes, Branched(b, branch[b]),
         branch = [x \in Branches |-> branch[x]], Fix!Advance(b, i, home)
  PROVE  /\ branch' = [x \in Branches |-> branch'[x]]
         /\ \A x \in Branches \ {b} : branch'[x] = branch[x]
         /\ Branched(b, branch'[b])
<1> DEFINE d == branch[b]
           new == [i EXCEPT !.rank = home]
           ls == (d.items \ {i}) \cup {new}
           e == [d EXCEPT !.items = ls]
<1>1. branch' = [branch EXCEPT ![b] = e]
  BY DEF Fix!Advance
<1>2. /\ d \in Directory /\ d.items \subseteq Added
      /\ \A j \in d.items : j.title[1] = b /\ j.id < d.next
      /\ \A j, k \in d.items : j.id = k.id => j = k
      /\ \A x \in Fix!Ids : d.files[x] # None => \E j \in d.items : j.detail = x /\ d.files[x] = j.title
      /\ \A j \in d.items : j.detail # None => d.files[j.id] = j.title
  BY DEF Branched, Directory
<1>3. home \in 1..3
  BY DEF Fix!Homes
<1>4. i \in Added /\ i.rank \in 1..3
  <2>1. i \in Added
    BY <1>2
  <2> QED
    BY <2>1, AddedIs
<1>5. /\ new.title = i.title /\ new.id = i.id /\ new.detail = i.detail
      /\ new \in Added
  <2>1. i \in [title : Branches \X (1..MaxAdds), id : 1..MaxAdds, rank : 1..3, created : Nat,
               detail : (1..MaxAdds) \cup {None}] /\ i.title[2] = i.id /\ i.detail \in {None, i.id}
    BY <1>4 DEF Added
  <2>2. home \in 1..3
    BY <1>3
  <2>3. new.title = i.title /\ new.id = i.id /\ new.detail = i.detail
    BY <2>1
  <2>4. new \in [title : Branches \X (1..MaxAdds), id : 1..MaxAdds, rank : 1..3, created : Nat,
                 detail : (1..MaxAdds) \cup {None}]
    BY <2>1, <2>2
  <2> HIDE DEF new
  <2> QED
    BY <2>1, <2>3, <2>4 DEF Added
<1> HIDE DEF new
<1>6. e.items = ls /\ e.files = d.files /\ e.next = d.next /\ e \in Directory
  <2>1. d \in [items : SUBSET Added, files : [Fix!Ids -> Texts], next : 1..(MaxAdds + 1)]
    BY <1>2 DEF Directory
  <2>2. ls \in SUBSET Added
    BY <1>2, <1>5
  <2> HIDE DEF ls, d
  <2> QED
    BY <2>1, <2>2 DEF Directory
<1> HIDE DEF e
<1>7. ASSUME NEW j \in e.items
      PROVE  \E k \in d.items : k.title = j.title /\ k.id = j.id /\ k.detail = j.detail /\ (j = k \/ (k = i /\ j = new))
  BY <1>5, <1>6
<1>8. ASSUME NEW k \in d.items
      PROVE  \E j \in e.items : k.title = j.title /\ k.id = j.id /\ k.detail = j.detail
  BY <1>5, <1>6
<1>9. i \notin e.items \/ new = i
  BY <1>6
<1> HIDE DEF d
<1>10. \A j \in e.items : j.title[1] = b /\ j.id < e.next
  BY <1>2, <1>6, <1>7
<1>11. ASSUME NEW j \in e.items, NEW k \in e.items, j.id = k.id
       PROVE  j = k
  <2>1. PICK x \in d.items : x.id = j.id /\ (j = x \/ (x = i /\ j = new))
    BY <1>7
  <2>2. PICK y \in d.items : y.id = k.id /\ (k = y \/ (y = i /\ k = new))
    BY <1>7
  <2>3. x = y
    BY <1>2, <1>11, <2>1, <2>2
  <2> QED
    BY <1>9, <2>1, <2>2, <2>3
<1>12. ASSUME NEW x \in Fix!Ids, e.files[x] # None
       PROVE  \E j \in e.items : j.detail = x /\ e.files[x] = j.title
  <2>1. PICK k \in d.items : k.detail = x /\ e.files[x] = k.title
    BY <1>2, <1>6, <1>12
  <2> QED
    BY <1>8, <2>1
<1>13. ASSUME NEW j \in e.items, j.detail # None
       PROVE  e.files[j.id] = j.title
  <2>1. PICK k \in d.items : k.title = j.title /\ k.id = j.id /\ k.detail = j.detail
    BY <1>7
  <2> QED
    BY <1>2, <1>6, <1>13, <2>1
<1>14. Branched(b, e)
  BY <1>6, <1>10, <1>11, <1>12, <1>13 DEF Branched
<1>15. branch' = [x \in Branches |-> branch'[x]] /\ branch'[b] = e /\ \A x \in Branches \ {b} : branch'[x] = branch[x]
  BY <1>1
<1> QED
  BY <1>14, <1>15

\* The merge has every line of both, and of each file one that is there, or
\* none.
LEMMA MergeKeeps ==
  ASSUME FixInvariant, Fix!Merge
  PROVE  Assembled(dir') /\ Sourced(dir') /\ merged' = dir'
<1> DEFINE other(id, kept) == CHOOSE b \in Branches : b # kept[id]
           File(id, kept, lost) == IF id > MaxAdds \/ id = lost THEN None
                                   ELSE Fix!MergedFile(id, kept[id], other(id, kept))
<1>1. PICK kept \in [1..MaxAdds -> Branches], counter \in Branches, lost \in {None} \cup 1..MaxAdds :
        dir' = [items |-> UNION {branch[b].items : b \in Branches},
                files |-> [id \in Fix!Ids |-> File(id, kept, lost)],
                next  |-> branch[counter].next]
  BY DEF Fix!Merge
<1>2. merged' = dir'
  BY DEF Fix!Merge
<1>3. dir'.items = UNION {branch[b].items : b \in Branches} /\ dir'.next = branch[counter].next
  BY <1>1
<1>4. \A id \in Fix!Ids : dir'.files[id] = File(id, kept, lost)
  BY <1>1
<1>5. PICK ours, theirs \in Branches : ours # theirs /\ Branches = {ours, theirs}
  BY FixAssumption DEF Fix!FixAssumption
<1>6. ASSUME NEW b \in Branches
      PROVE  /\ branch[b].items \subseteq Added /\ branch[b].files \in [Fix!Ids -> Texts]
             /\ branch[b].next \in 1..(MaxAdds + 1)
             /\ \A i \in branch[b].items : i.title[1] = b
             /\ \A i, j \in branch[b].items : i.id = j.id => i = j
             /\ \A id \in Fix!Ids : branch[b].files[id] # None =>
                  \E i \in branch[b].items : i.detail = id /\ branch[b].files[id] = i.title
             /\ \A i \in branch[b].items : i.detail # None => branch[b].files[i.id] = i.title
  BY DEF FixInvariant, Branched, Directory
<1>7. ASSUME NEW id \in Fix!Ids, id <= MaxAdds, id # lost
      PROVE  \E b \in Branches : dir'.files[id] = branch[b].files[id]
  <2> DEFINE first  == kept[id]
             second == other(id, kept)
  <2>1. id \in 1..MaxAdds /\ ~ (id > MaxAdds \/ id = lost)
    BY <1>7, FixAssumption DEF Fix!FixAssumption, Fix!Ids, Fix!MaxId
  <2>2. first \in Branches
    BY <2>1
  <2>3. \E b \in Branches : b # first
    BY <1>5
  <2>4. second \in Branches /\ second # first
    BY <2>3
  <2>5. dir'.files[id] = IF branch[first].files[id] # None THEN branch[first].files[id] ELSE branch[second].files[id]
    BY <1>4, <2>1 DEF Fix!MergedFile
  <2> HIDE DEF first, second
  <2> QED
    BY <2>2, <2>4, <2>5
<1>8. ASSUME NEW id \in Fix!Ids, ~ (id <= MaxAdds) \/ id = lost
      PROVE  dir'.files[id] = None
  <2>1. id > MaxAdds \/ id = lost
    BY <1>8, FixAssumption DEF Fix!FixAssumption, Fix!Ids, Fix!MaxId
  <2> QED
    BY <1>4, <2>1
<1> HIDE DEF File
<1>9. ASSUME NEW i \in dir'.items
      PROVE  \E b \in Branches : i \in branch[b].items
  BY <1>3
<1>10. dir'.items \in SUBSET Added
  BY <1>6, <1>9
<1>11. ASSUME NEW id \in Fix!Ids
       PROVE  dir'.files[id] \in Texts
  BY <1>6, <1>7, <1>8 DEF Texts
<1>12. dir' \in Directory
  <2>1. dir' = [items |-> dir'.items, files |-> dir'.files, next |-> dir'.next]
    BY <1>1
  <2>2. dir'.files \in [Fix!Ids -> Texts]
    <3>1. dir'.files = [id \in Fix!Ids |-> File(id, kept, lost)]
      BY <1>1
    <3>2. \A id \in Fix!Ids : File(id, kept, lost) \in Texts
      BY <1>4, <1>11
    <3> QED
      BY <3>1, <3>2
  <2>3. dir'.next \in 1..(MaxAdds + 1)
    BY <1>3, <1>6
  <2> QED
    BY <1>10, <2>1, <2>2, <2>3 DEF Directory
<1>13. ASSUME NEW i \in dir'.items, NEW j \in dir'.items, i.title = j.title
       PROVE  i = j
  <2>1. PICK b \in Branches : i \in branch[b].items
    BY <1>9
  <2>2. PICK c \in Branches : j \in branch[c].items
    BY <1>9
  <2>3. b = c
    BY <1>6, <1>13, <2>1, <2>2
  <2>4. i \in Added /\ j \in Added
    BY <1>10
  <2>5. i.title = <<i.title[1], i.id>> /\ j.title = <<j.title[1], j.id>>
    BY <2>4, AddedIs
  <2>6. i.id = j.id
    BY <1>13, <2>5
  <2> QED
    BY <1>6, <2>1, <2>2, <2>3, <2>6
<1>14. ASSUME NEW id \in Fix!Ids, dir'.files[id] # None
       PROVE  \E i \in dir'.items : i.detail = id /\ dir'.files[id] = i.title
  <2>1. PICK b \in Branches : dir'.files[id] = branch[b].files[id]
    BY <1>7, <1>8, <1>14
  <2>2. PICK i \in branch[b].items : i.detail = id /\ dir'.files[id] = i.title
    BY <1>6, <1>14, <2>1
  <2>3. i \in dir'.items
    BY <1>3, <2>2
  <2> QED
    BY <2>2, <2>3
<1>15. ASSUME NEW b \in Branches, NEW id \in Fix!Ids, branch[b].files[id] # None
       PROVE  \E i \in dir'.items : i.detail = id /\ branch[b].files[id] = i.title
  <2>1. PICK i \in branch[b].items : i.detail = id /\ branch[b].files[id] = i.title
    BY <1>6, <1>15
  <2>2. i \in dir'.items
    BY <1>3, <2>1
  <2> QED
    BY <2>1, <2>2
<1>16. Assembled(dir')
  BY <1>12, <1>13, <1>14 DEF Assembled
<1>17. Sourced(dir')
  BY <1>15 DEF Sourced
<1> QED
  BY <1>2, <1>16, <1>17

\* So has a merge in which a person moved the creation of one item back.
LEMMA EditKeeps ==
  ASSUME NEW i \in dir.items, Assembled(dir), Sourced(dir), Fix!EditCreated(i)
  PROVE  Assembled(dir') /\ Sourced(dir') /\ merged' = dir'
<1> DEFINE new == [i EXCEPT !.created = 0]
           ls == (dir.items \ {i}) \cup {new}
<1>1. dir' = [dir EXCEPT !.items = ls] /\ merged' = dir'
  BY DEF Fix!EditCreated
<1>2. /\ dir \in Directory /\ dir.items \subseteq Added
      /\ \A j, k \in dir.items : j.title = k.title => j = k
      /\ \A x \in Fix!Ids : dir.files[x] # None => \E j \in dir.items : j.detail = x /\ dir.files[x] = j.title
      /\ \A b \in Branches, x \in Fix!Ids :
           branch[b].files[x] # None => \E j \in dir.items : j.detail = x /\ branch[b].files[x] = j.title
  BY DEF Assembled, Sourced, Directory
<1>3. new.title = i.title /\ new.id = i.id /\ new.detail = i.detail /\ new \in Added
  <2>1. i \in [title : Branches \X (1..MaxAdds), id : 1..MaxAdds, rank : 1..3, created : Nat,
               detail : (1..MaxAdds) \cup {None}] /\ i.title[2] = i.id /\ i.detail \in {None, i.id}
    BY <1>2 DEF Added
  <2>2. new.title = i.title /\ new.id = i.id /\ new.detail = i.detail
    BY <2>1
  <2>3. new \in [title : Branches \X (1..MaxAdds), id : 1..MaxAdds, rank : 1..3, created : Nat,
                 detail : (1..MaxAdds) \cup {None}]
    BY <2>1
  <2> HIDE DEF new
  <2> QED
    BY <2>1, <2>2, <2>3 DEF Added
<1> HIDE DEF new
<1>4. dir'.items = ls /\ dir'.files = dir.files /\ dir'.next = dir.next /\ dir' \in Directory
  <2>1. dir \in [items : SUBSET Added, files : [Fix!Ids -> Texts], next : 1..(MaxAdds + 1)]
    BY <1>2 DEF Directory
  <2>2. ls \in SUBSET Added
    BY <1>2, <1>3
  <2> HIDE DEF ls
  <2> QED
    BY <1>1, <2>1, <2>2 DEF Directory
<1>5. ASSUME NEW j \in dir'.items
      PROVE  \E k \in dir.items : k.title = j.title /\ k.id = j.id /\ k.detail = j.detail /\ (j = k \/ (k = i /\ j = new))
  BY <1>3, <1>4
<1>6. ASSUME NEW k \in dir.items
      PROVE  \E j \in dir'.items : k.title = j.title /\ k.id = j.id /\ k.detail = j.detail
  BY <1>3, <1>4
<1>7. i \notin dir'.items \/ new = i
  BY <1>4
<1>8. ASSUME NEW j \in dir'.items, NEW k \in dir'.items, j.title = k.title
      PROVE  j = k
  <2>1. PICK x \in dir.items : x.title = j.title /\ (j = x \/ (x = i /\ j = new))
    BY <1>5
  <2>2. PICK y \in dir.items : y.title = k.title /\ (k = y \/ (y = i /\ k = new))
    BY <1>5
  <2>3. x = y
    BY <1>2, <1>8, <2>1, <2>2
  <2> QED
    BY <1>7, <2>1, <2>2, <2>3
<1>9. ASSUME NEW x \in Fix!Ids, dir'.files[x] # None
      PROVE  \E j \in dir'.items : j.detail = x /\ dir'.files[x] = j.title
  <2>1. PICK k \in dir.items : k.detail = x /\ dir'.files[x] = k.title
    BY <1>2, <1>4, <1>9
  <2> QED
    BY <1>6, <2>1
<1>10. ASSUME NEW b \in Branches, NEW x \in Fix!Ids, branch[b].files[x] # None
       PROVE  \E j \in dir'.items : j.detail = x /\ branch[b].files[x] = j.title
  <2>1. PICK k \in dir.items : k.detail = x /\ branch[b].files[x] = k.title
    BY <1>2, <1>10
  <2> QED
    BY <1>6, <2>1
<1>11. Assembled(dir')
  BY <1>4, <1>8, <1>9 DEF Assembled
<1>12. Sourced(dir')
  BY <1>10 DEF Sourced
<1> QED
  BY <1>1, <1>11, <1>12

\* And one in which a person took the file of an item from a branch.
LEMMA RestoreKeeps ==
  ASSUME NEW i \in dir.items, NEW b \in Branches, Branched(b, branch[b]), Assembled(dir), Sourced(dir),
         Fix!Restore(i, b)
  PROVE  Assembled(dir') /\ Sourced(dir') /\ merged' = dir'
<1> DEFINE id   == i.detail
           text == branch[b].files[id]
           fs   == [dir.files EXCEPT ![id] = text]
<1>1. dir' = [dir EXCEPT !.files = fs] /\ merged' = dir' /\ id # None /\ text # None
  BY DEF Fix!Restore
<1>2. /\ dir \in [items : SUBSET Added, files : [Fix!Ids -> Texts], next : 1..(MaxAdds + 1)]
      /\ branch[b].files \in [Fix!Ids -> Texts]
  BY DEF Assembled, Branched, Directory
<1>3. id \in Fix!Ids
  <2>1. i \in Added
    BY <1>2
  <2> QED
    BY <1>1, <2>1, AddedIs
<1>4. text \in Texts
  BY <1>2, <1>3
<1> HIDE DEF id, text
<1>5. fs \in [Fix!Ids -> Texts] /\ fs[id] = text /\ \A x \in Fix!Ids \ {id} : fs[x] = dir.files[x]
  BY <1>2, <1>3, <1>4
<1> HIDE DEF fs
<1>6. dir'.items = dir.items /\ dir'.files = fs /\ dir'.next = dir.next /\ dir' \in Directory
  BY <1>1, <1>2, <1>5 DEF Directory
<1>7. \E j \in dir.items : j.detail = id /\ text = j.title
  BY <1>1, <1>3 DEF Sourced, text
<1>8. ASSUME NEW x \in Fix!Ids, dir'.files[x] # None
      PROVE  \E j \in dir'.items : j.detail = x /\ dir'.files[x] = j.title
  <2>1. CASE x = id
    BY <1>5, <1>6, <1>7, <2>1
  <2>2. CASE x # id
    BY <1>5, <1>6, <1>8, <2>2 DEF Assembled
  <2> QED
    BY <2>1, <2>2
<1>9. Assembled(dir')
  BY <1>6, <1>8 DEF Assembled
<1>10. Sourced(dir')
  BY <1>6 DEF Sourced
<1> QED
  BY <1>1, <1>9, <1>10

\* Two empty branches are well formed.
LEMMA FixStarts == Fix!Init => FixInvariant
<1> SUFFICES ASSUME Fix!Init PROVE FixInvariant
  OBVIOUS
<1>1. /\ day = 1 /\ branch = [b \in Branches |-> Fix!Empty] /\ phase = "apart"
  BY DEF Fix!Init
<1>2. \A b \in Branches : Branched(b, branch[b])
  BY <1>1, EmptyIs
<1> QED
  BY <1>1, <1>2 DEF FixInvariant

\* A merge that nothing blocks has the file of every claim.
LEMMA UnblockedIsTogether ==
  ASSUME Assembled(dir), ~Fix!Blocked
  PROVE  Together(dir)
<1>1. ASSUME NEW i \in dir.items, i.detail # None
      PROVE  dir.files[i.id] # None
  <2>1. i \in Added
    BY DEF Assembled, Directory
  <2>2. i.detail = i.id
    BY <1>1, <2>1, AddedIs
  <2> QED
    BY <1>1, <2>2 DEF Fix!Blocked
<1> QED
  BY <1>1 DEF Together

\* Every step keeps the invariant: the branches' own (Branched), that of a merge
\* (Assembled, Sourced), and that of a repair (Repaired).
LEMMA FixSteps == FixInvariant /\ [Fix!Next]_(Fix!vars) => FixInvariant'
<1> SUFFICES ASSUME FixInvariant, [Fix!Next]_(Fix!vars) PROVE FixInvariant'
  OBVIOUS
<1>1. /\ day \in Nat
      /\ branch = [b \in Branches |-> branch[b]]
      /\ \A b \in Branches : Branched(b, branch[b])
      /\ phase \in {"apart", "merged", "refused", "crashed", "fixed"}
      /\ phase \in {"merged", "refused", "crashed"} => merged = dir /\ Assembled(dir) /\ Sourced(dir)
      /\ phase = "fixed" => version = 1 /\ Repaired(dir, merged)
  BY DEF FixInvariant
<1>2. CASE Fix!NextDay
  <2>1. day' = day + 1 /\ branch' = branch /\ phase' = phase /\ phase = "apart"
    BY <1>2 DEF Fix!NextDay
  <2>2. day' \in Nat
    BY <1>1, <2>1
  <2> QED
    BY <1>1, <2>1, <2>2 DEF FixInvariant
<1>3. CASE Fix!Merge
  <2>1. day' = day /\ branch' = branch /\ phase' = "merged"
    BY <1>3 DEF Fix!Merge
  <2>2. Assembled(dir') /\ Sourced(dir') /\ merged' = dir'
    BY <1>3, MergeKeeps
  <2>3. Sourced(dir)'
    BY <2>1, <2>2 DEF Sourced
  <2> QED
    BY <1>1, <2>1, <2>2, <2>3 DEF FixInvariant
<1>4. CASE Fix!Refuse \/ Fix!Crash
  <2>1. /\ day' = day /\ branch' = branch /\ dir' = dir /\ merged' = merged
        /\ phase = "merged" /\ phase' \in {"refused", "crashed"}
    BY <1>4 DEF Fix!Refuse, Fix!Crash
  <2>2. Sourced(dir)'
    BY <1>1, <2>1 DEF Sourced
  <2> QED
    BY <1>1, <2>1, <2>2 DEF FixInvariant
<1>5. CASE Fix!Repair
  <2>1. /\ day' = day /\ branch' = branch /\ merged' = merged /\ phase' = "fixed"
        /\ phase \in {"merged", "fixed"} /\ Chosen /\ ~Fix!Blocked /\ dir' = Fix!Fixed
        /\ version = 1 /\ version' = version
    BY <1>5 DEF Fix!Repair, Chosen
  <2>2. CASE phase = "merged"
    <3>1. Together(dir)
      BY <1>1, <2>1, <2>2, UnblockedIsTogether
    <3>2. Repaired(Fix!Fixed, dir) /\ merged = dir
      BY <1>1, <2>1, <2>2, <3>1, FixedIsRepaired
    <3> QED
      BY <1>1, <2>1, <3>2 DEF FixInvariant
  <2>3. CASE phase = "fixed"
    <3>1. Fix!Fixed = dir /\ Repaired(dir, merged)
      BY <1>1, <2>3, FixedAgain
    <3> QED
      BY <1>1, <2>1, <3>1 DEF FixInvariant
  <2> QED
    BY <2>1, <2>2, <2>3
<1>6. ASSUME NEW b \in Branches, NEW withFile \in BOOLEAN, Fix!Add(b, withFile)
      PROVE  FixInvariant'
  <2>1. day' = day /\ phase' = phase /\ phase = "apart"
    BY <1>6 DEF Fix!Add
  <2>2. /\ branch' = [x \in Branches |-> branch'[x]] /\ Branched(b, branch'[b])
        /\ \A x \in Branches \ {b} : branch'[x] = branch[x]
    BY <1>1, <1>6, AddKeeps
  <2>3. \A x \in Branches : Branched(x, branch'[x])
    BY <1>1, <2>2
  <2> QED
    BY <1>1, <2>1, <2>2, <2>3 DEF FixInvariant
<1>7. ASSUME NEW b \in Branches, NEW i \in branch[b].items, NEW home \in DOMAIN Fix!Homes, Fix!Advance(b, i, home)
      PROVE  FixInvariant'
  <2>1. day' = day /\ phase' = phase /\ phase = "apart"
    BY <1>7 DEF Fix!Advance
  <2>2. /\ branch' = [x \in Branches |-> branch'[x]] /\ Branched(b, branch'[b])
        /\ \A x \in Branches \ {b} : branch'[x] = branch[x]
    BY <1>1, <1>7, AdvanceKeeps
  <2>3. \A x \in Branches : Branched(x, branch'[x])
    BY <1>1, <2>2
  <2> QED
    BY <1>1, <2>1, <2>2, <2>3 DEF FixInvariant
<1>8. ASSUME NEW i \in dir.items, Fix!EditCreated(i)
      PROVE  FixInvariant'
  <2>1. day' = day /\ branch' = branch /\ phase = "refused" /\ phase' = "merged"
    BY <1>8 DEF Fix!EditCreated
  <2>2. Assembled(dir') /\ Sourced(dir') /\ merged' = dir'
    BY <1>1, <1>8, <2>1, EditKeeps
  <2>3. Sourced(dir)'
    BY <2>1, <2>2 DEF Sourced
  <2> QED
    BY <1>1, <2>1, <2>2, <2>3 DEF FixInvariant
<1>9. ASSUME NEW i \in dir.items, NEW b \in Branches, Fix!Restore(i, b)
      PROVE  FixInvariant'
  <2>1. day' = day /\ branch' = branch /\ phase = "refused" /\ phase' = "merged"
    BY <1>9 DEF Fix!Restore
  <2>2. Assembled(dir') /\ Sourced(dir') /\ merged' = dir'
    BY <1>1, <1>9, <2>1, RestoreKeeps
  <2>3. Sourced(dir)'
    BY <2>1, <2>2 DEF Sourced
  <2> QED
    BY <1>1, <2>1, <2>2, <2>3 DEF FixInvariant
<1>10. CASE UNCHANGED Fix!vars
  <2>1. /\ version' = version /\ day' = day /\ branch' = branch
        /\ dir' = dir /\ merged' = merged /\ phase' = phase
    BY <1>10 DEF Fix!vars
  <2>2. Sourced(dir) => Sourced(dir)'
    BY <2>1 DEF Sourced
  <2> QED
    BY <1>1, <2>1, <2>2 DEF FixInvariant
<1> QED
  BY <1>2, <1>3, <1>4, <1>5, <1>6, <1>7, <1>8, <1>9, <1>10 DEF Fix!Next

\* Fix: at every point the branches, their merge and its repair are as above.
THEOREM RepairsInvariant == Fix!Spec => []FixInvariant
BY FixStarts, FixSteps, PTL DEF Fix!Spec

\* The repair leaves what checks clean, and loses nothing.
LEMMA InvariantRepairs == FixInvariant => Fix!FixRepairs
<1> SUFFICES ASSUME FixInvariant PROVE Fix!FixRepairs
  OBVIOUS
<1>1. phase \in {"refused", "crashed"} => dir = merged
  BY DEF FixInvariant
<1>2. CASE phase = "fixed"
  <2>1. version = 1 /\ Repaired(dir, merged)
    BY <1>2 DEF FixInvariant
  <2>2. Fix!Fixed = dir
    BY <2>1, FixedAgain
  <2> QED
    BY <1>1, <2>1, <2>2 DEF Fix!FixRepairs, Repaired
<1> QED
  BY <1>1, <1>2 DEF Fix!FixRepairs

\* The tools of one process: a step of them is one of Fix, or none of its.
LEMMA ToolsAreFix == ToolsSpec => Fix!Spec
<1>1. ToolsInit => Fix!Init
  BY DEF ToolsInit
<1>2. [ToolsNext]_tools => [Fix!Next]_(Fix!vars)
  <2> SUFFICES ASSUME [ToolsNext]_tools PROVE [Fix!Next]_(Fix!vars)
    OBVIOUS
  <2>1. fixing = Fix!vars /\ fixing' = Fix!vars'
    BY DEF fixing, Fix!vars
  <2>2. CASE ToolsNext
    BY <2>1, <2>2 DEF ToolsNext
  <2>3. CASE UNCHANGED tools
    BY <2>1, <2>3 DEF tools
  <2> QED
    BY <2>2, <2>3
<1> QED
  BY <1>1, <1>2, PTL DEF ToolsSpec, Fix!Spec

\* Fix: whatever two branches of version 1 added, moved on and gave files to,
\* and whichever of two files the person kept, --fix leaves a directory in which
\* --check finds nothing, no item and no text is lost, and to run it again does
\* nothing; or it refuses, and has written nothing.  On version 2, which it
\* never gets to the end of, it has written nothing either.
THEOREM MergesAreRepaired == ToolsSpec => []FixRepairs
<1>1. FixInvariant => FixRepairs
  BY InvariantRepairs DEF FixRepairs
<1> QED
  BY <1>1, ToolsAreFix, RepairsInvariant, PTL

-----------------------------------------------------------------------------
(* Sequences.                                                              *)

\* What is left of a sequence without its first element.
LEMMA TailIs ==
  ASSUME NEW S, NEW q \in Seq(S), q # <<>>
  PROVE  /\ Len(q) \in Nat /\ DOMAIN q = 1..Len(q) /\ 1 \in DOMAIN q /\ Head(q) = q[1]
         /\ Tail(q) \in Seq(S) /\ Len(Tail(q)) = Len(q) - 1
         /\ \A i \in DOMAIN Tail(q) : i \in Nat /\ i + 1 \in DOMAIN q /\ Tail(q)[i] = q[i + 1]
         /\ \A j \in DOMAIN q : j # 1 => j - 1 \in DOMAIN Tail(q) /\ Tail(q)[j - 1] = q[j]
OBVIOUS

\* The elements of one sequence after another.
LEMMA ConcatIs ==
  ASSUME NEW S, NEW q \in Seq(S), NEW r \in Seq(S)
  PROVE  /\ q \o r \in Seq(S) /\ Len(q \o r) = Len(q) + Len(r) /\ Len(q) \in Nat /\ Len(r) \in Nat
         /\ \A i \in DOMAIN q : i \in DOMAIN (q \o r) /\ (q \o r)[i] = q[i]
         /\ \A i \in DOMAIN r : Len(q) + i \in DOMAIN (q \o r) /\ (q \o r)[Len(q) + i] = r[i]
         /\ \A k \in DOMAIN (q \o r) :
              \/ k \in DOMAIN q /\ (q \o r)[k] = q[k]
              \/ k > Len(q) /\ k - Len(q) \in DOMAIN r /\ (q \o r)[k] = r[k - Len(q)]
OBVIOUS

\* What an empty sequence, and one of a single element, are.
LEMMA EmptySeqIs ==
  ASSUME NEW S
  PROVE  /\ <<>> \in Seq(S) /\ Len(<<>>) = 0 /\ DOMAIN <<>> = {}
         /\ \A q \in Seq(S) : (<<>> \o q) \o <<>> = q
OBVIOUS

LEMMA SingletonIs ==
  ASSUME NEW S, NEW e \in S
  PROVE  <<e>> \in Seq(S) /\ Len(<<e>>) = 1 /\ DOMAIN <<e>> = {1} /\ <<e>>[1] = e
OBVIOUS

\* An element that is put in the second place pushes none out.
LEMMA InsertIs ==
  ASSUME NEW S, NEW q \in Seq(S), q # <<>>, NEW e \in S
  PROVE  /\ Migrate!InsertAt(q, 2, e) \in Seq(S) /\ Migrate!InsertAt(q, 2, e) # <<>>
         /\ \A n \in DOMAIN q : \E m \in DOMAIN Migrate!InsertAt(q, 2, e) : Migrate!InsertAt(q, 2, e)[m] = q[n]
<1> DEFINE p == SubSeq(q, 1, 1)
           t == SubSeq(q, 2, Len(q))
           u == <<e>>
           r == (p \o u) \o t
<1>1. Migrate!InsertAt(q, 2, e) = r
  BY DEF Migrate!InsertAt
<1>2. /\ p \in Seq(S) /\ Len(p) = 1 /\ DOMAIN p = {1} /\ p[1] = q[1]
      /\ t \in Seq(S) /\ u \in Seq(S) /\ Len(u) = 1
      /\ \A n \in DOMAIN q : n # 1 => n - 1 \in DOMAIN t /\ t[n - 1] = q[n]
  OBVIOUS
<1> HIDE DEF p, t, u
<1>3. p \o u \in Seq(S) /\ Len(p \o u) = 2 /\ 1 \in DOMAIN (p \o u) /\ (p \o u)[1] = q[1]
  <2>1. p \o u \in Seq(S) /\ Len(p \o u) = Len(p) + Len(u)
    <3>1. p \in Seq(S) /\ u \in Seq(S)
      BY <1>2
    <3> QED
      BY <3>1, ConcatIs
  <2>2. 1 \in DOMAIN (p \o u) /\ (p \o u)[1] = p[1]
    BY <1>2, ConcatIs
  <2> QED
    BY <1>2, <2>1, <2>2
<1>4. r \in Seq(S) /\ 1 \in DOMAIN r /\ r[1] = q[1]
  BY <1>2, <1>3, ConcatIs
<1>5. \A n \in DOMAIN t : 2 + n \in DOMAIN r /\ r[2 + n] = t[n]
  BY <1>2, <1>3, ConcatIs
<1> HIDE DEF r
<1>6. ASSUME NEW n \in DOMAIN q
      PROVE  \E m \in DOMAIN r : r[m] = q[n]
  BY <1>2, <1>4, <1>5
<1> QED
  BY <1>1, <1>4, <1>6

\* A finite set of numbers in order is all of it.
LEMMA OrderedIs ==
  ASSUME NEW S \in SUBSET Nat, IsFiniteSet(S)
  PROVE  /\ Migrate!Ordered(S) = [n \in 1..Cardinality(S) |-> Migrate!Ordered(S)[n]] /\ Cardinality(S) \in Nat
         /\ \A n \in 1..Cardinality(S) : Migrate!Ordered(S)[n] \in S
         /\ \A x \in S : \E n \in 1..Cardinality(S) : Migrate!Ordered(S)[n] = x
<1> DEFINE UpTo(x) == {y \in S : y <= x}
           N == Cardinality(S)
           rank == [x \in S |-> Cardinality(UpTo(x))]
           o == Migrate!Ordered(S)
<1>1. o = [n \in 1..N |-> CHOOSE x \in S : Cardinality(UpTo(x)) = n]
  BY DEF Migrate!Ordered, Migrate!Cardinality, Cardinality
<1>2. N \in Nat
  BY FS_CardinalityType
<1>3. \A x \in S : rank[x] = Cardinality(UpTo(x))
  OBVIOUS
<1> HIDE DEF o, N, rank
<1>4. ASSUME NEW x \in S
      PROVE  IsFiniteSet(UpTo(x)) /\ rank[x] \in 1..N
  <2>1. UpTo(x) \in SUBSET S /\ UpTo(x) # {}
    OBVIOUS
  <2> HIDE DEF UpTo
  <2>2. IsFiniteSet(UpTo(x)) /\ Cardinality(UpTo(x)) <= N
    BY <2>1, FS_Subset DEF N
  <2>3. Cardinality(UpTo(x)) \in Nat /\ Cardinality(UpTo(x)) # 0
    BY <2>1, <2>2, FS_CardinalityType, FS_EmptySet
  <2> QED
    BY <1>2, <1>3, <2>2, <2>3
<1>5. ASSUME NEW x \in S, NEW y \in S, x < y
      PROVE  rank[x] < rank[y]
  <2>1. UpTo(x) \in SUBSET UpTo(y) /\ UpTo(x) # UpTo(y)
    <3>1. x \in Nat /\ y \in Nat /\ \A z \in S : z \in Nat
      OBVIOUS
    <3>2. \A z \in S : z <= x => z <= y
      BY <1>5, <3>1
    <3>3. y \in UpTo(y) /\ y \notin UpTo(x)
      BY <1>5, <3>1
    <3> QED
      BY <3>2, <3>3
  <2>2. IsFiniteSet(UpTo(y)) /\ rank[x] \in 1..N /\ rank[y] \in 1..N
    BY <1>4
  <2> HIDE DEF UpTo
  <2>3. Cardinality(UpTo(x)) <= Cardinality(UpTo(y)) /\ Cardinality(UpTo(x)) # Cardinality(UpTo(y))
    BY <2>1, <2>2, FS_Subset
  <2> QED
    BY <1>2, <1>3, <2>2, <2>3
<1>6. ASSUME NEW x \in S, NEW y \in S, rank[x] = rank[y]
      PROVE  x = y
  <2>1. x < y \/ y < x \/ x = y
    OBVIOUS
  <2> HIDE DEF UpTo
  <2>2. rank[x] \in 1..N
    BY <1>4
  <2> QED
    BY <1>2, <1>5, <1>6, <2>1, <2>2
<1>7. ASSUME NEW n \in 1..N, \A x \in S : rank[x] # n
      PROVE  FALSE
  <2> DEFINE T == (1..N) \ {n}
  <2>1. IsFiniteSet(1..N) /\ Cardinality(1..N) = N
    BY <1>2, FS_Interval
  <2>2. IsFiniteSet(T) /\ Cardinality(T) = N - 1
    <3> DEFINE I == 1..N
    <3>1. IsFiniteSet(I) /\ Cardinality(I) = N /\ n \in I
      BY <2>1
    <3> HIDE DEF I
    <3>2. IsFiniteSet(I \ {n}) /\ Cardinality(I \ {n}) = N - 1
      BY <3>1, FS_RemoveElement
    <3> QED
      BY <3>2 DEF I
  <2>3. rank \in [S -> T]
    <3>1. \A x \in S : rank[x] \in T
      BY <1>4, <1>7
    <3>2. rank = [x \in S |-> rank[x]]
      BY DEF rank
    <3> QED
      BY <3>1, <3>2
  <2>4. Cardinality(T) < Cardinality(S)
    BY <1>2, <2>2 DEF N
  <2> HIDE DEF T
  <2>5. \E x, y \in S : x # y /\ rank[x] = rank[y]
    BY <2>2, <2>3, <2>4, FS_PigeonHole
  <2> QED
    BY <1>6, <2>5
<1>8. ASSUME NEW n \in 1..N
      PROVE  o[n] \in S /\ rank[o[n]] = n
  <2>1. \E x \in S : Cardinality(UpTo(x)) = n
    BY <1>3, <1>7
  <2>2. o[n] = CHOOSE x \in S : Cardinality(UpTo(x)) = n
    BY <1>1
  <2> HIDE DEF UpTo
  <2>3. o[n] \in S /\ Cardinality(UpTo(o[n])) = n
    BY <2>1, <2>2
  <2> QED
    BY <1>3, <2>3
<1>9. ASSUME NEW x \in S
      PROVE  \E n \in 1..N : o[n] = x
  <2>1. rank[x] \in 1..N
    BY <1>4
  <2>2. o[rank[x]] \in S /\ rank[o[rank[x]]] = rank[x]
    BY <1>8, <2>1
  <2> QED
    BY <1>6, <2>1, <2>2
<1> HIDE DEF UpTo
<1>10. o = [n \in 1..N |-> o[n]]
  BY <1>1
<1> QED
  BY <1>2, <1>8, <1>9, <1>10 DEF o, N

-----------------------------------------------------------------------------
(* Migrate.  What a directory holds.                                       *)

Disks ==
  {d \in [working : Migrate!WorkingFiles \cup {None}, slot : [Slots -> Migrate!WorkingFiles \cup {None}],
          backlog : Seq(Migrate!BacklogLines) \cup {None}, board : Seq(Migrate!Cards) \cup {None},
          detail : [CardIds -> (SUBSET Notes) \cup {None}]] :
     /\ d.working # None => d.working.item # None
     /\ d.backlog # None => d.backlog # <<>>}

Changes == [file : {"slot", "detail", "backlog", "working", "board"}, at : Slots \cup CardIds \cup {None},
            to : Migrate!WorkingFiles \cup Seq(Migrate!BacklogLines) \cup Seq(Migrate!Cards) \cup (SUBSET Notes) \cup {None}]

LEMMA DiskIs ==
  ASSUME NEW d \in Disks
  PROVE  /\ d = [working |-> d.working, slot |-> d.slot, backlog |-> d.backlog, board |-> d.board, detail |-> d.detail]
         /\ d.working \in Migrate!WorkingFiles \cup {None} /\ d.slot \in [Slots -> Migrate!WorkingFiles \cup {None}]
         /\ d.backlog \in Seq(Migrate!BacklogLines) \cup {None} /\ d.board \in Seq(Migrate!Cards) \cup {None}
         /\ d.detail \in [CardIds -> (SUBSET Notes) \cup {None}]
         /\ d.working # None => d.working.item # None
         /\ d.backlog # None => d.backlog # <<>>
BY DEF Disks

\* The values that are not None.
LEMMA NoneIs ==
  /\ None \notin Migrate!ItemsIn({"working"}) /\ None \notin Migrate!WorkingFiles
  /\ None \notin Seq(Migrate!BacklogLines) /\ None \notin Seq(Migrate!Cards) /\ None \notin SUBSET Notes
  /\ Slots \in SUBSET Nat /\ IsFiniteSet(Slots)
BY MigrateAssumption DEF Migrate!MigrateAssumption, Migrate!IsFiniteSet, IsFiniteSet

\* The occupant of a working file has one of the ids.
LEMMA OccupantIs ==
  ASSUME NEW x \in Migrate!WorkingFiles
  PROVE  /\ x = [item |-> x.item, body |-> x.body] /\ x.body \in SUBSET Notes
         /\ x.item # None => x.item.id \in CardIds /\ x.item.detail \in BOOLEAN
BY DEF Migrate!WorkingFiles, Migrate!ItemsIn

\* A line that is listed has an id and a section.
LEMMA ListedIs ==
  ASSUME NEW q \in Seq(Migrate!BacklogLines), NEW n \in Migrate!Listed(q)
  PROVE  n \in DOMAIN q /\ q[n] \in Migrate!BacklogLines /\ q[n].id \in CardIds /\ q[n].detail \in BOOLEAN
         /\ q[n].section \in Migrate!Sections
<1>1. n \in DOMAIN q /\ q[n].kind = "item"
  BY DEF Migrate!Listed, Migrate!Readable
<1>2. q[n] \in Migrate!BacklogLines
  BY <1>1
<1>3. q[n] # Migrate!Header /\ q[n] # Migrate!Project
  BY <1>1 DEF Migrate!Header, Migrate!Project
<1>4. q[n] \in Migrate!ItemsIn(Migrate!Sections)
  BY <1>2, <1>3 DEF Migrate!BacklogLines
<1> QED
  BY <1>1, <1>2, <1>4 DEF Migrate!ItemsIn

\* What it means to be held, file by file.
LEMMA ItemsAre ==
  ASSUME NEW d, NEW id
  PROVE  id \in Migrate!Items(d) <=>
           \/ \E n \in Migrate!Listed(Migrate!BacklogOf(d)) : Migrate!BacklogOf(d)[n].id = id
           \/ \E s \in Migrate!Occupied(d) : d.slot[s].item.id = id
           \/ d.working # None /\ d.working.item.id = id
           \/ d.board # None /\ \E i \in DOMAIN d.board : d.board[i].id = id
<1> DEFINE lines == Migrate!BacklogOf(d)
           A == Migrate!Listed(lines)
           O == Migrate!Occupied(d)
<1>1. Migrate!Items(d) = {lines[n].id : n \in A} \cup {d.slot[s].item.id : s \in O}
        \cup (IF d.working = None THEN {} ELSE {d.working.item.id})
        \cup (IF d.board = None THEN {} ELSE {d.board[i].id : i \in DOMAIN d.board})
  BY DEF Migrate!Items
<1> HIDE DEF lines, A, O
<1>2. id \in {lines[n].id : n \in A} <=> \E n \in A : lines[n].id = id
  OBVIOUS
<1>3. id \in {d.slot[s].item.id : s \in O} <=> \E s \in O : d.slot[s].item.id = id
  OBVIOUS
<1>4. id \in {d.board[i].id : i \in DOMAIN d.board} <=> \E i \in DOMAIN d.board : d.board[i].id = id
  OBVIOUS
<1> QED
  BY <1>1, <1>2, <1>3, <1>4 DEF lines, A, O

LEMMA WrittenAre ==
  ASSUME NEW d, NEW x
  PROVE  x \in Migrate!Written(d) <=>
           \/ \E s \in Migrate!Occupied(d) : x \in d.slot[s].body
           \/ \E id \in CardIds : d.detail[id] # None /\ x \in d.detail[id]
           \/ d.working # None /\ x \in d.working.body
<1> DEFINE O == Migrate!Occupied(d)
           W == {d.slot[s].body : s \in O}
           P == {d.detail[id] : id \in {i \in CardIds : d.detail[i] # None}}
           Q == IF d.working = None THEN {} ELSE {d.working.body}
<1>1. Migrate!Written(d) = UNION (W \cup P \cup Q)
  BY DEF Migrate!Written
<1> HIDE DEF O
<1>2. (\E S \in W : x \in S) <=> \E s \in O : x \in d.slot[s].body
  OBVIOUS
<1>3. (\E S \in P : x \in S) <=> \E id \in CardIds : d.detail[id] # None /\ x \in d.detail[id]
  OBVIOUS
<1>4. (\E S \in Q : x \in S) <=> d.working # None /\ x \in d.working.body
  OBVIOUS
<1> HIDE DEF W, P, Q
<1>5. x \in Migrate!Written(d) <=> \E S \in W \cup P \cup Q : x \in S
  BY <1>1
<1> QED
  BY <1>2, <1>3, <1>4, <1>5 DEF O

-----------------------------------------------------------------------------
(* The repair of lines, and the board.                                     *)

\* A repaired backlog.md lists what was listed.
LEMMA RepairedIs ==
  ASSUME NEW q \in Seq(Migrate!BacklogLines), q # <<>>
  PROVE  /\ Migrate!Repaired(q) \in Seq(Migrate!BacklogLines) /\ Migrate!Repaired(q) # <<>>
         /\ \A n \in Migrate!Listed(q) : \E m \in Migrate!Listed(Migrate!Repaired(q)) :
              Migrate!Repaired(q)[m].id = q[n].id
<1> DEFINE c == Migrate!migrateTags(q, q)
           p == Migrate!Repaired(q)
<1>1. c = [n \in DOMAIN q |-> Migrate!Converted(q[n])]
  BY DEF Migrate!migrateTags
<1>2. ASSUME NEW n \in DOMAIN q
      PROVE  Migrate!Converted(q[n]) \in Migrate!BacklogLines
  <2>1. q[n] \in Migrate!BacklogLines
    OBVIOUS
  <2>2. CASE q[n].kind = "item" /\ q[n].tags = "flow"
    <3>1. q[n] # Migrate!Header /\ q[n] # Migrate!Project
      BY <2>2 DEF Migrate!Header, Migrate!Project
    <3>2. q[n] \in Migrate!ItemsIn(Migrate!Sections)
      BY <2>1, <3>1 DEF Migrate!BacklogLines
    <3>3. [q[n] EXCEPT !.tags = "list"] \in Migrate!ItemsIn(Migrate!Sections)
      BY <3>2 DEF Migrate!ItemsIn
    <3>4. Migrate!Converted(q[n]) = [q[n] EXCEPT !.tags = "list"]
      BY <2>2 DEF Migrate!Converted
    <3> QED
      BY <3>3, <3>4 DEF Migrate!BacklogLines
  <2>3. CASE ~ (q[n].kind = "item" /\ q[n].tags = "flow")
    BY <2>1, <2>3 DEF Migrate!Converted
  <2> QED
    BY <2>2, <2>3
<1>3. ASSUME NEW n \in Migrate!Listed(q)
      PROVE  n \in DOMAIN q /\ Migrate!Readable(q[n]) /\ Migrate!Converted(q[n]) = q[n]
  BY DEF Migrate!Listed, Migrate!Readable, Migrate!Converted
<1>4. c \in Seq(Migrate!BacklogLines) /\ DOMAIN c = DOMAIN q /\ c # <<>>
  <2>1. DOMAIN q = 1..Len(q) /\ Len(q) \in Nat /\ Len(q) # 0
    OBVIOUS
  <2>2. c \in [1..Len(q) -> Migrate!BacklogLines]
    BY <1>1, <1>2, <2>1
  <2> HIDE DEF c
  <2> QED
    BY <2>1, <2>2
<1>5. \A n \in Migrate!Listed(q) : n \in DOMAIN c /\ c[n] = q[n]
  BY <1>1, <1>3, <1>4
<1>6. p = IF Migrate!Project \in Migrate!ToSet(c) THEN c ELSE Migrate!InsertAt(c, 2, Migrate!Project)
  BY DEF Migrate!Repaired, Migrate!migrateProject
<1> HIDE DEF c, p
<1>7. /\ p \in Seq(Migrate!BacklogLines) /\ p # <<>>
      /\ \A n \in DOMAIN c : \E m \in DOMAIN p : p[m] = c[n]
  <2>1. CASE Migrate!Project \in Migrate!ToSet(c)
    BY <1>4, <1>6, <2>1
  <2>2. CASE ~ (Migrate!Project \in Migrate!ToSet(c))
    <3>1. Migrate!Project \in Migrate!BacklogLines
      BY DEF Migrate!BacklogLines
    <3>2. p = Migrate!InsertAt(c, 2, Migrate!Project)
      BY <1>6, <2>2
    <3> QED
      BY <1>4, <3>1, <3>2, InsertIs
  <2> QED
    BY <2>1, <2>2
<1>8. ASSUME NEW n \in Migrate!Listed(q)
      PROVE  \E m \in Migrate!Listed(p) : p[m].id = q[n].id
  <2>1. n \in DOMAIN c /\ c[n] = q[n] /\ Migrate!Readable(q[n])
    BY <1>3, <1>5
  <2>2. PICK m \in DOMAIN p : p[m] = c[n]
    BY <1>7, <2>1
  <2>3. m \in Migrate!Listed(p)
    BY <2>1, <2>2 DEF Migrate!Listed
  <2> QED
    BY <2>1, <2>2, <2>3
<1> QED
  BY <1>7, <1>8 DEF p

\* The board has a card of every item that is listed or in a working file, and
\* a card of each of them if no two cards are of one id.
LEMMA BoardIs ==
  ASSUME NEW d \in Disks
  PROVE  /\ Migrate!Board(d) \in Seq(Migrate!Cards)
         /\ \A n \in Migrate!Listed(Migrate!BacklogOf(d)) :
              \E k \in DOMAIN Migrate!Board(d) : Migrate!Board(d)[k].id = Migrate!BacklogOf(d)[n].id
         /\ \A s \in Migrate!Occupied(d) : \E k \in DOMAIN Migrate!Board(d) : Migrate!Board(d)[k].id = d.slot[s].item.id
         /\ Migrate!IsInjective([k \in DOMAIN Migrate!Board(d) |-> Migrate!Board(d)[k].id]) =>
              \A r, s \in Migrate!Occupied(d) : d.slot[r].item.id = d.slot[s].item.id => r = s
<1> DEFINE lines == Migrate!BacklogOf(d)
           T(sec) == {n \in Migrate!Listed(lines) : lines[n].section = sec}
           At(sec) == Migrate!Ordered(T(sec))
           C(sec) == [i \in DOMAIN At(sec) |->
                        Migrate!Card(lines[At(sec)[i]].id, Migrate!Stages[sec], lines[At(sec)[i]].detail)]
           O == Migrate!Occupied(d)
           P == Migrate!Ordered(O)
           F == [i \in DOMAIN P |-> Migrate!Card(d.slot[P[i]].item.id, "working",
                                                 d.slot[P[i]].item.detail \/ Migrate!Folds(d, P[i]))]
           b1 == C("someday") \o C("ready")
           b2 == b1 \o C("blocked")
           b == b2 \o F
<1>1. Migrate!Board(d) = b
  BY DEF Migrate!Board
<1>2. lines \in Seq(Migrate!BacklogLines)
  <2>1. d.backlog \in Seq(Migrate!BacklogLines) \cup {None}
    BY DiskIs
  <2> QED
    BY <2>1 DEF Migrate!BacklogOf
<1> HIDE DEF lines
<1>3. ASSUME NEW n \in Migrate!Listed(lines)
      PROVE  /\ n \in DOMAIN lines /\ lines[n].id \in CardIds /\ lines[n].detail \in BOOLEAN
             /\ lines[n].section \in Migrate!Sections
  BY <1>2, ListedIs
<1>4. ASSUME NEW sec \in Migrate!Sections
      PROVE  /\ C(sec) \in Seq(Migrate!Cards)
             /\ \A n \in Migrate!Listed(lines) : lines[n].section = sec =>
                  \E k \in DOMAIN C(sec) : C(sec)[k].id = lines[n].id
  <2>1. T(sec) \in SUBSET Nat /\ IsFiniteSet(T(sec))
    <3>1. Len(lines) \in Nat /\ DOMAIN lines = 1..Len(lines)
      BY <1>2
    <3>2. T(sec) \in SUBSET (1..Len(lines)) /\ 1..Len(lines) \subseteq Nat
      BY <1>3, <3>1
    <3>3. IsFiniteSet(1..Len(lines))
      BY <3>1, FS_Interval
    <3> HIDE DEF T
    <3> QED
      BY <3>2, <3>3, FS_Subset
  <2> DEFINE N == Cardinality(T(sec))
             a == At(sec)
  <2>2. /\ a = [n \in 1..N |-> a[n]] /\ N \in Nat
        /\ \A n \in 1..N : a[n] \in T(sec)
        /\ \A x \in T(sec) : \E n \in 1..N : a[n] = x
    <3> HIDE DEF T
    <3> QED
      BY <2>1, OrderedIs
  <2>3. Migrate!Stages[sec] \in Migrate!Sections
    BY DEF Migrate!Stages, Migrate!Sections
  <2> HIDE DEF a, N
  <2>4. C(sec) = [i \in 1..N |-> Migrate!Card(lines[a[i]].id, Migrate!Stages[sec], lines[a[i]].detail)]
    BY <2>2 DEF a
  <2>5. ASSUME NEW i \in 1..N
        PROVE  Migrate!Card(lines[a[i]].id, Migrate!Stages[sec], lines[a[i]].detail) \in Migrate!Cards
    <3>1. lines[a[i]].id \in CardIds /\ lines[a[i]].detail \in BOOLEAN
      BY <1>3, <2>2
    <3> QED
      BY <2>3, <3>1 DEF Migrate!Card, Migrate!Cards
  <2>6. \A i \in 1..N : Migrate!Card(lines[a[i]].id, Migrate!Stages[sec], lines[a[i]].detail).id = lines[a[i]].id
    BY DEF Migrate!Card
  <2> HIDE DEF C
  <2>7. C(sec) \in Seq(Migrate!Cards) /\ DOMAIN C(sec) = 1..N
    <3>1. C(sec) \in [1..N -> Migrate!Cards]
      BY <2>4, <2>5
    <3> QED
      BY <2>2, <3>1
  <2>8. ASSUME NEW n \in Migrate!Listed(lines), lines[n].section = sec
        PROVE  \E k \in DOMAIN C(sec) : C(sec)[k].id = lines[n].id
    <3>1. PICK k \in 1..N : a[k] = n
      BY <2>2, <2>8
    <3>2. C(sec)[k].id = lines[n].id
      BY <2>4, <2>6, <3>1
    <3> QED
      BY <2>7, <3>2
  <2> QED
    BY <2>7, <2>8
<1> DEFINE M == Cardinality(O)
<1>5. O \in SUBSET Nat /\ IsFiniteSet(O) /\ O \subseteq Slots
  <2>1. O \in SUBSET Slots
    BY DEF Migrate!Occupied
  <2> HIDE DEF O
  <2> QED
    BY <2>1, NoneIs, FS_Subset
<1>6. /\ P = [n \in 1..M |-> P[n]] /\ M \in Nat
      /\ \A n \in 1..M : P[n] \in O
      /\ \A x \in O : \E n \in 1..M : P[n] = x
  <2> HIDE DEF O
  <2> QED
    BY <1>5, OrderedIs
<1>7. ASSUME NEW s \in O
      PROVE  /\ d.slot[s].item.id \in CardIds
             /\ (d.slot[s].item.detail \/ Migrate!Folds(d, s)) \in BOOLEAN
  <2>1. s \in Slots /\ d.slot[s] # None /\ d.slot[s].item # None
    BY DEF Migrate!Occupied
  <2>2. d.slot[s] \in Migrate!WorkingFiles
    BY <2>1, DiskIs
  <2>3. d.slot[s].item.id \in CardIds /\ d.slot[s].item.detail \in BOOLEAN
    BY <2>1, <2>2, OccupantIs
  <2> QED
    BY <2>3
<1> HIDE DEF O, P, M
<1>8. F = [i \in 1..M |-> Migrate!Card(d.slot[P[i]].item.id, "working",
                                       d.slot[P[i]].item.detail \/ Migrate!Folds(d, P[i]))]
  BY <1>6
<1>9. ASSUME NEW i \in 1..M
      PROVE  Migrate!Card(d.slot[P[i]].item.id, "working",
                          d.slot[P[i]].item.detail \/ Migrate!Folds(d, P[i])) \in Migrate!Cards
  BY <1>6, <1>7 DEF Migrate!Card, Migrate!Cards
<1>10. \A i \in 1..M : Migrate!Card(d.slot[P[i]].item.id, "working",
                          d.slot[P[i]].item.detail \/ Migrate!Folds(d, P[i])).id = d.slot[P[i]].item.id
  BY DEF Migrate!Card
<1> HIDE DEF F
<1>11. /\ F \in Seq(Migrate!Cards) /\ DOMAIN F = 1..M
       /\ \A i \in 1..M : F[i].id = d.slot[P[i]].item.id
  <2>1. F \in [1..M -> Migrate!Cards]
    BY <1>8, <1>9, SMTT(30)
  <2>2. F \in Seq(Migrate!Cards) /\ DOMAIN F = 1..M
    BY <1>6, <2>1, SMTT(30)
  <2>3. \A i \in 1..M : F[i].id = d.slot[P[i]].item.id
    BY <1>8, <1>10, SMTT(30)
  <2> QED
    BY <2>2, <2>3
<1>12. /\ C("someday") \in Seq(Migrate!Cards) /\ C("ready") \in Seq(Migrate!Cards) /\ C("blocked") \in Seq(Migrate!Cards)
  BY <1>4 DEF Migrate!Sections
<1> HIDE DEF C
<1>13. /\ b1 \in Seq(Migrate!Cards)
       /\ \A k \in DOMAIN C("someday") : k \in DOMAIN b1 /\ b1[k] = C("someday")[k]
       /\ \A k \in DOMAIN C("ready") : Len(C("someday")) + k \in DOMAIN b1 /\ b1[Len(C("someday")) + k] = C("ready")[k]
  BY <1>12, ConcatIs
<1> HIDE DEF b1
<1>14. /\ b2 \in Seq(Migrate!Cards)
       /\ \A k \in DOMAIN b1 : k \in DOMAIN b2 /\ b2[k] = b1[k]
       /\ \A k \in DOMAIN C("blocked") : Len(b1) + k \in DOMAIN b2 /\ b2[Len(b1) + k] = C("blocked")[k]
  BY <1>12, <1>13, ConcatIs
<1> HIDE DEF b2
<1>15. /\ b \in Seq(Migrate!Cards) /\ Len(b2) \in Nat
       /\ \A k \in DOMAIN b2 : k \in DOMAIN b /\ b[k] = b2[k]
       /\ \A k \in DOMAIN F : Len(b2) + k \in DOMAIN b /\ b[Len(b2) + k] = F[k]
  <2>1. b2 \in Seq(Migrate!Cards) /\ F \in Seq(Migrate!Cards)
    BY <1>11, <1>14
  <2> QED
    BY <2>1, ConcatIs
<1> HIDE DEF b
<1>16. ASSUME NEW sec \in Migrate!Sections, NEW k \in DOMAIN C(sec)
       PROVE  \E m \in DOMAIN b : b[m] = C(sec)[k]
  <2>1. \E m \in DOMAIN b2 : b2[m] = C(sec)[k]
    <3>1. CASE sec = "blocked"
      BY <1>14, <3>1
    <3>2. CASE sec = "someday"
      BY <1>13, <1>14, <3>2
    <3>3. CASE sec = "ready"
      BY <1>13, <1>14, <3>3
    <3> QED
      BY <3>1, <3>2, <3>3 DEF Migrate!Sections
  <2> QED
    BY <1>15, <2>1
<1>17. ASSUME NEW n \in Migrate!Listed(lines)
       PROVE  \E k \in DOMAIN b : b[k].id = lines[n].id
  <2>1. lines[n].section \in Migrate!Sections
    BY <1>3
  <2>2. PICK k \in DOMAIN C(lines[n].section) : C(lines[n].section)[k].id = lines[n].id
    BY <1>4, <2>1
  <2> QED
    BY <1>16, <2>1, <2>2, SMTT(30)
<1>18. ASSUME NEW s \in O
       PROVE  \E n \in 1..M : P[n] = s /\ Len(b2) + n \in DOMAIN b /\ b[Len(b2) + n].id = d.slot[s].item.id
  BY <1>6, <1>11, <1>15, SMTT(30)
<1>19. ASSUME Migrate!IsInjective([k \in DOMAIN b |-> b[k].id]), NEW r \in O, NEW s \in O,
              d.slot[r].item.id = d.slot[s].item.id
       PROVE  r = s
  <2>1. \A i, j \in DOMAIN b : b[i].id = b[j].id => i = j
    BY <1>19 DEF Migrate!IsInjective
  <2>2. PICK m \in 1..M : P[m] = r /\ Len(b2) + m \in DOMAIN b /\ b[Len(b2) + m].id = d.slot[r].item.id
    BY <1>18
  <2>3. PICK n \in 1..M : P[n] = s /\ Len(b2) + n \in DOMAIN b /\ b[Len(b2) + n].id = d.slot[s].item.id
    BY <1>18
  <2>4. Len(b2) + m = Len(b2) + n
    BY <1>19, <2>1, <2>2, <2>3
  <2>5. m = n
    BY <1>6, <1>15, <2>4
  <2> QED
    BY <2>2, <2>3, <2>5
<1>20. \A s \in O : \E k \in DOMAIN b : b[k].id = d.slot[s].item.id
  BY <1>18
<1> QED
  BY <1>1, <1>15, <1>17, <1>19, <1>20 DEF lines, O

\* The detail file that a slot's body is folded into keeps what it had.
LEMMA FoldIs ==
  ASSUME NEW d \in Disks, ~ Migrate!Refused(d), NEW s \in Migrate!Occupied(d), Migrate!Folds(d, s)
  PROVE  /\ s \in Slots /\ d.slot[s] # None /\ d.slot[s].item.id \in CardIds
         /\ Migrate!foldWorkingBody(d, s) \in SUBSET Notes
         /\ d.slot[s].body \subseteq Migrate!foldWorkingBody(d, s)
         /\ d.detail[d.slot[s].item.id] # None => d.detail[d.slot[s].item.id] \subseteq Migrate!foldWorkingBody(d, s)
<1> DEFINE x == d.slot[s]
           held == d.detail[x.item.id]
<1>1. s \in Slots /\ x # None /\ x.item # None
  BY DEF Migrate!Occupied
<1>2. x \in Migrate!WorkingFiles
  BY <1>1, DiskIs
<1>3. x.item.id \in CardIds /\ x.item.detail \in BOOLEAN /\ x.body \in SUBSET Notes
  BY <1>1, <1>2, OccupantIs
<1>4. held \in (SUBSET Notes) \cup {None}
  BY <1>3, DiskIs
<1>5. x.item.detail <=> held # None
  <2>1. ~ (x.item.detail <=> held = None)
    BY DEF Migrate!Refused
  <2> HIDE DEF x, held
  <2> QED
    BY <1>3, <2>1
<1>6. Migrate!foldWorkingBody(d, s) = (IF x.item.detail THEN held ELSE {}) \cup x.body
  BY DEF Migrate!foldWorkingBody
<1> HIDE DEF x, held
<1>7. /\ Migrate!foldWorkingBody(d, s) \in SUBSET Notes
      /\ x.body \subseteq Migrate!foldWorkingBody(d, s)
      /\ held # None => held \subseteq Migrate!foldWorkingBody(d, s)
  <2>1. CASE x.item.detail
    <3>1. Migrate!foldWorkingBody(d, s) = held \cup x.body /\ held \in SUBSET Notes
      BY <1>4, <1>5, <1>6, <2>1
    <3> QED
      BY <1>3, <3>1
  <2>2. CASE ~ x.item.detail
    <3>1. Migrate!foldWorkingBody(d, s) = x.body /\ held = None
      BY <1>5, <1>6, <2>2
    <3> QED
      BY <1>3, <3>1
  <2> QED
    BY <2>1, <2>2
<1> QED
  BY <1>1, <1>3, <1>7 DEF x, held

\* The version step writes the board, then the detail files of the bodies it
\* folds, all of them, and then deletes.
LEMMA VersionPlanIs ==
  ASSUME NEW d \in Disks, ~ Migrate!Refused(d)
  PROVE  LET P == Migrate!VersionPlan(d)
         IN /\ P \in Seq(Changes) /\ P # <<>> /\ P[1] = Migrate!Change("board", None, Migrate!Board(d))
            /\ \E k \in Nat :
                 /\ \A i \in DOMAIN P : i # 1 /\ i <= k =>
                      \E s \in Migrate!Occupied(d) :
                        /\ Migrate!Folds(d, s)
                        /\ P[i] = Migrate!Change("detail", d.slot[s].item.id, Migrate!foldWorkingBody(d, s))
                 /\ \A i \in DOMAIN P : i > k =>
                      \/ P[i] = Migrate!Change("backlog", None, None)
                      \/ \E s \in Slots : P[i] = Migrate!Change("slot", s, None)
                 /\ 1 <= k
            /\ \A s \in Migrate!Occupied(d) : Migrate!Folds(d, s) =>
                 \E i \in DOMAIN P : P[i] = Migrate!Change("detail", d.slot[s].item.id, Migrate!foldWorkingBody(d, s))
<1> DEFINE S1 == {s \in Migrate!Occupied(d) : Migrate!Folds(d, s)}
           S2 == {s \in Slots : d.slot[s] # None}
           o1 == Migrate!Ordered(S1)
           o2 == Migrate!Ordered(S2)
           first == Migrate!Change("board", None, Migrate!Board(d))
           last1 == Migrate!Change("backlog", None, None)
           folded(s) == Migrate!Change("detail", d.slot[s].item.id, Migrate!foldWorkingBody(d, s))
           dropped(s) == Migrate!Change("slot", s, None)
           details == [i \in DOMAIN o1 |-> folded(o1[i])]
           drops == [i \in DOMAIN o2 |-> dropped(o2[i])]
           u == <<first>>
           v == <<last1>>
           writes == u \o details
           deletes == v \o drops
           P == writes \o deletes
           N1 == Cardinality(S1)
           N2 == Cardinality(S2)
<1>1. Migrate!VersionPlan(d) = P
  BY DEF Migrate!VersionPlan, Migrate!Order
<1>2. S1 \in SUBSET Nat /\ IsFiniteSet(S1) /\ S2 \in SUBSET Nat /\ IsFiniteSet(S2) /\ S2 \subseteq Slots
  <2>1. S1 \in SUBSET Slots /\ S2 \in SUBSET Slots
    BY DEF Migrate!Occupied
  <2> HIDE DEF S1, S2
  <2> QED
    BY <2>1, NoneIs, FS_Subset
<1>3. \A s \in S1 : s \in Migrate!Occupied(d) /\ Migrate!Folds(d, s)
  OBVIOUS
<1>4. \A s \in Migrate!Occupied(d) : Migrate!Folds(d, s) => s \in S1
  OBVIOUS
<1> HIDE DEF S1, S2
<1>5. /\ o1 = [n \in 1..N1 |-> o1[n]] /\ N1 \in Nat
      /\ \A n \in 1..N1 : o1[n] \in S1
      /\ \A x \in S1 : \E n \in 1..N1 : o1[n] = x
  BY <1>2, OrderedIs
<1>6. /\ o2 = [n \in 1..N2 |-> o2[n]] /\ N2 \in Nat
      /\ \A n \in 1..N2 : o2[n] \in S2
  BY <1>2, OrderedIs
<1>7. first \in Changes /\ last1 \in Changes
  <2>1. Migrate!Board(d) \in Seq(Migrate!Cards)
    BY BoardIs
  <2> QED
    BY <2>1 DEF Migrate!Change, Changes
<1>8. ASSUME NEW s \in S1
      PROVE  folded(s) \in Changes
  <2>1. d.slot[s].item.id \in CardIds /\ Migrate!foldWorkingBody(d, s) \in SUBSET Notes
    BY <1>3, FoldIs
  <2> QED
    BY <2>1 DEF Migrate!Change, Changes
<1>9. ASSUME NEW s \in Slots
      PROVE  dropped(s) \in Changes
  BY DEF Migrate!Change, Changes
<1> HIDE DEF o1, o2, N1, N2, first, last1, folded, dropped
<1>10. details = [i \in 1..N1 |-> folded(o1[i])] /\ drops = [i \in 1..N2 |-> dropped(o2[i])]
  BY <1>5, <1>6
<1> HIDE DEF details, drops
<1>11. /\ details \in Seq(Changes) /\ DOMAIN details = 1..N1 /\ \A i \in 1..N1 : details[i] = folded(o1[i])
  <2>1. details \in [1..N1 -> Changes]
    BY <1>5, <1>8, <1>10
  <2>2. details \in Seq(Changes) /\ DOMAIN details = 1..N1
    BY <1>5, <2>1
  <2> QED
    BY <1>10, <2>2
<1>12. /\ drops \in Seq(Changes) /\ DOMAIN drops = 1..N2 /\ \A i \in 1..N2 : drops[i] = dropped(o2[i])
  <2>1. drops \in [1..N2 -> Changes]
    BY <1>2, <1>6, <1>9, <1>10
  <2>2. drops \in Seq(Changes) /\ DOMAIN drops = 1..N2
    BY <1>6, <2>1
  <2> QED
    BY <1>10, <2>2
<1>13. /\ u \in Seq(Changes) /\ Len(u) = 1 /\ DOMAIN u = {1} /\ u[1] = first
       /\ v \in Seq(Changes) /\ Len(v) = 1 /\ DOMAIN v = {1} /\ v[1] = last1
  BY <1>7
<1> HIDE DEF u, v
<1>14. /\ writes \in Seq(Changes) /\ Len(writes) = Len(u) + Len(details) /\ Len(details) \in Nat
       /\ \A i \in DOMAIN u : i \in DOMAIN writes /\ writes[i] = u[i]
       /\ \A i \in DOMAIN details : Len(u) + i \in DOMAIN writes /\ writes[Len(u) + i] = details[i]
       /\ \A k \in DOMAIN writes :
            \/ k \in DOMAIN u /\ writes[k] = u[k]
            \/ k > Len(u) /\ k - Len(u) \in DOMAIN details /\ writes[k] = details[k - Len(u)]
  <2>1. u \in Seq(Changes) /\ details \in Seq(Changes)
    BY <1>11, <1>13
  <2> QED
    BY <2>1, ConcatIs
<1>15. /\ deletes \in Seq(Changes)
       /\ \A k \in DOMAIN deletes :
            \/ k \in DOMAIN v /\ deletes[k] = v[k]
            \/ k > Len(v) /\ k - Len(v) \in DOMAIN drops /\ deletes[k] = drops[k - Len(v)]
  <2>1. v \in Seq(Changes) /\ drops \in Seq(Changes)
    BY <1>12, <1>13
  <2> QED
    BY <2>1, ConcatIs
<1> HIDE DEF writes, deletes
<1>16. /\ P \in Seq(Changes) /\ Len(writes) \in Nat
       /\ \A i \in DOMAIN writes : i \in DOMAIN P /\ P[i] = writes[i]
       /\ \A k \in DOMAIN P :
            \/ k \in DOMAIN writes /\ P[k] = writes[k]
            \/ k > Len(writes) /\ k - Len(writes) \in DOMAIN deletes /\ P[k] = deletes[k - Len(writes)]
  <2>1. writes \in Seq(Changes) /\ deletes \in Seq(Changes)
    BY <1>14, <1>15
  <2> QED
    BY <2>1, ConcatIs
<1> HIDE DEF P
<1>17. 1 \in DOMAIN P /\ P[1] = first /\ P # <<>>
  <2>1. 1 \in DOMAIN writes /\ writes[1] = first
    BY <1>13, <1>14
  <2>2. 1 \in DOMAIN P /\ P[1] = first
    BY <1>16, <2>1
  <2> QED
    BY <2>2
<1>18. ASSUME NEW i \in DOMAIN P, i # 1, i <= Len(writes)
       PROVE  \E s \in Migrate!Occupied(d) : Migrate!Folds(d, s) /\ P[i] = folded(s)
  <2>1. i \in DOMAIN writes /\ P[i] = writes[i] /\ i \in Nat
    BY <1>16, <1>18
  <2>2. i - 1 \in DOMAIN details /\ writes[i] = details[i - 1]
    BY <1>13, <1>14, <1>18, <2>1
  <2>3. i - 1 \in 1..N1 /\ writes[i] = folded(o1[i - 1])
    BY <1>11, <2>2
  <2>4. o1[i - 1] \in S1
    BY <1>5, <2>3
  <2> QED
    BY <1>3, <2>1, <2>3, <2>4
<1>19. ASSUME NEW i \in DOMAIN P, i > Len(writes)
       PROVE  P[i] = last1 \/ \E s \in Slots : P[i] = dropped(s)
  <2>1. DOMAIN writes = 1..Len(writes)
    BY <1>14
  <2>2. i - Len(writes) \in DOMAIN deletes /\ P[i] = deletes[i - Len(writes)]
    BY <1>16, <1>19, <2>1
  <2> DEFINE j == i - Len(writes)
  <2>3. \/ j \in DOMAIN v /\ deletes[j] = v[j]
        \/ j - Len(v) \in DOMAIN drops /\ deletes[j] = drops[j - Len(v)]
    BY <1>15, <2>2
  <2> HIDE DEF j
  <2>4. CASE j \in DOMAIN v /\ deletes[j] = v[j]
    BY <1>13, <2>2, <2>4 DEF j
  <2>5. CASE j - Len(v) \in DOMAIN drops /\ deletes[j] = drops[j - Len(v)]
    <3>1. j - Len(v) \in 1..N2 /\ deletes[j] = dropped(o2[j - Len(v)])
      BY <1>12, <2>5
    <3>2. o2[j - Len(v)] \in Slots
      BY <1>2, <1>6, <3>1
    <3> QED
      BY <2>2, <3>1, <3>2 DEF j
  <2> QED
    BY <2>3, <2>4, <2>5
<1>20. ASSUME NEW s \in Migrate!Occupied(d), Migrate!Folds(d, s)
       PROVE  \E i \in DOMAIN P : P[i] = folded(s)
  <2>1. PICK n \in 1..N1 : o1[n] = s
    BY <1>4, <1>5, <1>20
  <2>2. n \in DOMAIN details /\ details[n] = folded(s)
    BY <1>11, <2>1
  <2>3. Len(u) + n \in DOMAIN writes /\ writes[Len(u) + n] = folded(s)
    BY <1>14, <2>2
  <2> QED
    BY <1>16, <2>3
<1>21. Len(writes) \in Nat /\ 1 <= Len(writes)
  BY <1>13, <1>14
<1>22. \E k \in Nat :
         /\ \A i \in DOMAIN P : i # 1 /\ i <= k => \E s \in Migrate!Occupied(d) : Migrate!Folds(d, s) /\ P[i] = folded(s)
         /\ \A i \in DOMAIN P : i > k => P[i] = last1 \/ \E s \in Slots : P[i] = dropped(s)
         /\ 1 <= k
  BY <1>18, <1>19, <1>21
<1>23. P \in Seq(Changes)
  BY <1>16
<1> QED
  BY <1>1, <1>17, <1>20, <1>22, <1>23 DEF first, last1, folded, dropped

\* The number that a repair beside a board writes to, whatever is there.
Taken(d) == IF d.board # None /\ d.working # None THEN Migrate!Free(d) ELSE {}

\* The repair writes the new working file first and deletes working.md last.
LEMMA RepairPlanIs ==
  ASSUME NEW d \in Disks, d.working # None => Migrate!Free(d) # {}
  PROVE  LET P == Migrate!RepairPlan(d)
         IN /\ P \in Seq(Changes)
            /\ \A i \in DOMAIN P :
                 \/ /\ P[i].file = "slot" /\ i = 1 /\ P[i].to = d.working /\ d.working # None
                    /\ P[i].at \in Slots /\ (d.slot[P[i].at] = None \/ P[i].at \in Taken(d))
                 \/ P[i].file = "backlog" /\ d.backlog # None /\ P[i].to = Migrate!Repaired(d.backlog)
                 \/ P[i].file = "working" /\ P[i].to = None /\ i = Len(P)
            /\ d.working # None => P # <<>> /\ P[1].file = "slot"
<1> DEFINE at == CHOOSE s \in Migrate!Free(d) : TRUE
           c1 == Migrate!Change("slot", at, d.working)
           c2 == Migrate!Change("backlog", None, Migrate!Repaired(d.backlog))
           c3 == Migrate!Change("working", None, None)
           nothing == d.board # None \/ d.backlog = None \/ Migrate!Repaired(Migrate!BacklogOf(d)) = d.backlog
           q == IF nothing THEN <<>> ELSE <<c2>>
<1>1. ASSUME d.working # None
      PROVE  at \in Slots /\ (d.slot[at] = None \/ at \in Taken(d))
  <2>1. at \in Migrate!Free(d)
    BY <1>1
  <2>2. at \in Slots /\ (d.board # None \/ d.slot[at] = None)
    BY <2>1 DEF Migrate!Free
  <2> HIDE DEF at
  <2> QED
    BY <1>1, <2>1, <2>2 DEF Taken
<1>2. /\ c1.file = "slot" /\ c1.at = at /\ c1.to = d.working
      /\ c2.file = "backlog" /\ c2.to = Migrate!Repaired(d.backlog)
      /\ c3.file = "working" /\ c3.to = None
  BY DEF Migrate!Change
<1>3. d.working # None => c1 \in Changes
  <2>1. d.working \in Migrate!WorkingFiles \cup {None}
    BY DiskIs
  <2> HIDE DEF at
  <2> QED
    BY <1>1, <2>1 DEF Migrate!Change, Changes
<1>4. d.backlog # None => c2 \in Changes
  <2>1. ASSUME d.backlog # None
        PROVE  Migrate!Repaired(d.backlog) \in Seq(Migrate!BacklogLines)
    <3>1. d.backlog \in Seq(Migrate!BacklogLines) /\ d.backlog # <<>>
      BY <2>1, DiskIs
    <3> QED
      BY <3>1, RepairedIs
  <2> QED
    BY <2>1 DEF Migrate!Change, Changes
<1>5. c3 \in Changes
  BY DEF Migrate!Change, Changes
<1>6. Migrate!RepairPlan(d) = (IF d.working # None THEN [i \in 1..1 |-> c1] ELSE <<>>) \o q
                                \o (IF d.working # None THEN <<c3>> ELSE <<>>)
  BY DEF Migrate!RepairPlan
<1> HIDE DEF c1, c2, c3, at
<1>7. q = <<>> \/ (d.backlog # None /\ q = <<c2>>)
  OBVIOUS
<1> HIDE DEF q
<1>10. /\ q \in Seq(Changes) /\ Len(q) \in Nat
       /\ \A i \in DOMAIN q : q[i].file = "backlog" /\ d.backlog # None /\ q[i].to = Migrate!Repaired(d.backlog)
  <2>1. CASE q = <<>>
    BY <2>1, EmptySeqIs
  <2>2. CASE d.backlog # None /\ q = <<c2>>
    <3>1. c2 \in Changes
      BY <1>4, <2>2
    <3>2. q \in Seq(Changes) /\ Len(q) \in Nat /\ DOMAIN q = {1} /\ q[1] = c2
      BY <2>2, <3>1, SingletonIs
    <3> QED
      BY <1>2, <2>2, <3>2
  <2> QED
    BY <1>7, <2>1, <2>2
<1>8. CASE d.working = None
  <2>1. Migrate!RepairPlan(d) = (<<>> \o q) \o <<>>
    BY <1>6, <1>8
  <2>2. Migrate!RepairPlan(d) = q
    BY <1>10, <2>1, EmptySeqIs
  <2> QED
    BY <1>8, <1>10, <2>2
<1>9. CASE d.working # None
  <2> DEFINE u == <<c1>>
             v == <<c3>>
             uq == u \o q
             P == uq \o v
  <2>1. [i \in 1..1 |-> c1] = u
    OBVIOUS
  <2>2. Migrate!RepairPlan(d) = P
    BY <1>6, <1>9, <2>1
  <2>3. /\ u \in Seq(Changes) /\ Len(u) = 1 /\ DOMAIN u = {1} /\ u[1] = c1
        /\ v \in Seq(Changes) /\ Len(v) = 1 /\ DOMAIN v = {1} /\ v[1] = c3
    BY <1>3, <1>5, <1>9, SingletonIs
  <2> HIDE DEF u, v
  <2>4. /\ uq \in Seq(Changes) /\ Len(uq) = 1 + Len(q) /\ 1 \in DOMAIN uq /\ uq[1] = c1
        /\ \A i \in DOMAIN uq : i = 1 \/ (i > 1 /\ i - 1 \in DOMAIN q /\ uq[i] = q[i - 1])
    <3>1. /\ uq \in Seq(Changes) /\ Len(uq) = Len(u) + Len(q)
          /\ \A i \in DOMAIN u : i \in DOMAIN uq /\ uq[i] = u[i]
          /\ \A k \in DOMAIN uq :
              \/ k \in DOMAIN u /\ uq[k] = u[k]
              \/ k > Len(u) /\ k - Len(u) \in DOMAIN q /\ uq[k] = q[k - Len(u)]
      BY <1>10, <2>3, ConcatIs
    <3> QED
      BY <2>3, <3>1
  <2> HIDE DEF uq
  <2>5. /\ P \in Seq(Changes) /\ Len(P) = Len(uq) + Len(v) /\ Len(uq) \in Nat
        /\ \A i \in DOMAIN uq : i \in DOMAIN P /\ P[i] = uq[i]
        /\ \A k \in DOMAIN P :
              \/ k \in DOMAIN uq /\ P[k] = uq[k]
              \/ k > Len(uq) /\ k - Len(uq) \in DOMAIN v /\ P[k] = v[k - Len(uq)]
    <3>1. uq \in Seq(Changes) /\ v \in Seq(Changes)
      BY <2>3, <2>4
    <3> QED
      BY <3>1, ConcatIs
  <2> HIDE DEF P
  <2>6. P # <<>> /\ P[1].file = "slot"
    <3>1. 1 \in DOMAIN P /\ P[1] = c1
      BY <2>4, <2>5
    <3> QED
      BY <1>2, <3>1
  <2>7. ASSUME NEW i \in DOMAIN P
        PROVE  \/ /\ P[i].file = "slot" /\ i = 1 /\ P[i].to = d.working /\ d.working # None
                  /\ P[i].at \in Slots /\ (d.slot[P[i].at] = None \/ P[i].at \in Taken(d))
               \/ P[i].file = "backlog" /\ d.backlog # None /\ P[i].to = Migrate!Repaired(d.backlog)
               \/ P[i].file = "working" /\ P[i].to = None /\ i = Len(P)
    <3>1. CASE i = 1
      <4>1. P[i] = c1
        BY <2>4, <2>5, <3>1
      <4> QED
        BY <1>1, <1>2, <1>9, <3>1, <4>1
    <3>2. CASE i # 1 /\ i \in DOMAIN uq
      <4>1. i - 1 \in DOMAIN q /\ P[i] = q[i - 1]
        BY <2>4, <2>5, <3>2
      <4> QED
        BY <1>10, <4>1
    <3>3. CASE i \notin DOMAIN uq
      <4>1. i - Len(uq) \in DOMAIN v /\ P[i] = v[i - Len(uq)] /\ i \in Int
        BY <2>5, <3>3
      <4>2. i - Len(uq) = 1 /\ P[i] = c3
        BY <2>3, <4>1
      <4>3. i = Len(P)
        BY <2>3, <2>5, <4>1, <4>2
      <4> QED
        BY <1>2, <4>2, <4>3
    <3> QED
      BY <3>1, <3>2, <3>3
  <2>8. P \in Seq(Changes)
    BY <2>5
  <2> QED
    BY <1>9, <2>2, <2>6, <2>7, <2>8
<1> QED
  BY <1>8, <1>9

-----------------------------------------------------------------------------
(* The invariant: where what was read is, at every point of a run.         *)

\* In the same working file, in backlog.md, in the same detail file.
SlotsKept(r, d) ==
  \A s \in Slots : r.slot[s] # None =>
    d.slot[s] # None /\ d.slot[s].item = r.slot[s].item /\ r.slot[s].body \subseteq d.slot[s].body

\* But for some of them.
SlotsBut(r, d, T) ==
  \A s \in Slots \ T : r.slot[s] # None =>
    d.slot[s] # None /\ d.slot[s].item = r.slot[s].item /\ r.slot[s].body \subseteq d.slot[s].body

BacklogKept(r, d) ==
  \A n \in Migrate!Listed(Migrate!BacklogOf(r)) : \E m \in Migrate!Listed(Migrate!BacklogOf(d)) :
    Migrate!BacklogOf(d)[m].id = Migrate!BacklogOf(r)[n].id

DetailsKept(r, d) ==
  \A id \in CardIds : r.detail[id] # None => d.detail[id] # None /\ r.detail[id] \subseteq d.detail[id]

\* What was in working.md is in a working file with a number.
Carried(r, d) ==
  \E s \in Slots : d.slot[s] # None /\ d.slot[s].item = r.working.item /\ r.working.body \subseteq d.slot[s].body

\* No working file holds an item that it did not.
SameOccupants(r, d) ==
  \A s \in Slots : d.slot[s] # None => r.slot[s] # None /\ d.slot[s].item = r.slot[s].item

\* While there is a working.md beside a board, every item of a working file is
\* on the board, or is that of working.md.
Boarded(d) ==
  d.board # None /\ d.working # None => \A s \in Migrate!Occupied(d) :
    \/ \E k \in DOMAIN d.board : d.board[k].id = d.slot[s].item.id
    \/ d.slot[s].item.id = d.working.item.id

\* A change that the repair has to make: the new name, the lines, the old name.
RepairStep(r, p, i) ==
  \/ /\ p[i].file = "slot" /\ i = 1 /\ p[i].to = r.working /\ r.working # None
     /\ p[i].at \in Slots /\ (r.slot[p[i].at] = None \/ p[i].at \in Taken(r))
  \/ p[i].file = "backlog" /\ r.backlog # None /\ p[i].to = Migrate!Repaired(r.backlog)
  \/ p[i].file = "working" /\ p[i].to = None /\ i = Len(p)

Repairing(r, d, p) ==
  /\ \A i \in DOMAIN p : RepairStep(r, p, i)
  /\ Boarded(r) /\ d.board = r.board /\ d.detail = r.detail
  /\ SlotsBut(r, d, Taken(r)) /\ BacklogKept(r, d)
  /\ d.working = r.working \/ (d.working = None /\ p = <<>>)
  /\ r.working # None => (p # <<>> /\ p[1].file = "slot") \/ Carried(r, d)

\* A change that the version step has to make: the board, a detail file, or
\* one of the old files.
FoldOf(r, s) == Migrate!Change("detail", r.slot[s].item.id, Migrate!foldWorkingBody(r, s))

VersionStep(r, p, i) ==
  \/ i = 1 /\ p[i] = Migrate!Change("board", None, Migrate!Board(r))
  \/ \E s \in Migrate!Occupied(r) : Migrate!Folds(r, s) /\ p[i] = FoldOf(r, s)
  \/ p[i] = Migrate!Change("backlog", None, None)
  \/ \E s \in Slots : p[i] = Migrate!Change("slot", s, None)

Writing(c) == c.file \in {"board", "detail"}

\* The old files are there until the last detail file is written.
Versioning(r, d, p) ==
  /\ ~ Migrate!Refused(r) /\ r.board = None /\ SameOccupants(r, d)
  /\ \A i \in DOMAIN p : VersionStep(r, p, i)
  /\ \A i, j \in DOMAIN p : i < j /\ p[j].file = "detail" => Writing(p[i])
  /\ d.working = r.working /\ DetailsKept(r, d)
  /\ (p # <<>> /\ p[1].file = "board" /\ d.board = None) \/ d.board = Migrate!Board(r)
  /\ \A s \in Migrate!Occupied(r) : Migrate!Folds(r, s) =>
       \/ \E i \in DOMAIN p : p[i] = FoldOf(r, s)
       \/ d.detail[r.slot[s].item.id] = Migrate!foldWorkingBody(r, s)
  /\ p # <<>> /\ Writing(p[1]) => SlotsKept(r, d) /\ BacklogKept(r, d)

MigrateInvariant ==
  /\ disk \in Disks /\ plan \in Seq(Changes) /\ step \in {"idle", "repair", "version"}
  /\ Boarded(disk)
  /\ read # None \/ step # "idle" => read \in Disks
  /\ step # "idle" => plan # <<>>
  /\ step = "repair" => Repairing(read, disk, plan)
  /\ step = "version" => Versioning(read, disk, plan)
  /\ Migrate!NothingDropped

-----------------------------------------------------------------------------
(* What is kept is held.                                                   *)

\* What is kept is kept but for some.
LEMMA KeptIsBut ==
  ASSUME NEW r, NEW d, NEW T, SlotsKept(r, d)
  PROVE  SlotsBut(r, d, T)
BY DEF SlotsKept, SlotsBut

LEMMA KeptItems ==
  ASSUME NEW r \in Disks, NEW d \in Disks, SlotsBut(r, d, Taken(r)), BacklogKept(r, d),
         r.working # None => d.working = r.working \/ Carried(r, d),
         r.board = None \/ d.board = r.board, Boarded(r)
  PROVE  Migrate!Items(r) \subseteq Migrate!Items(d)
<1> SUFFICES ASSUME NEW id \in Migrate!Items(r)
             PROVE  id \in Migrate!Items(d)
  OBVIOUS
<1>1. CASE \E n \in Migrate!Listed(Migrate!BacklogOf(r)) : Migrate!BacklogOf(r)[n].id = id
  <2>1. \E m \in Migrate!Listed(Migrate!BacklogOf(d)) : Migrate!BacklogOf(d)[m].id = id
    BY <1>1 DEF BacklogKept
  <2> QED
    BY <2>1, ItemsAre
<1>2. CASE r.working # None /\ r.working.item.id = id
  <2>1. CASE d.working = r.working
    BY <1>2, <2>1, ItemsAre
  <2>2. CASE Carried(r, d)
    <3>1. PICK s \in Slots : d.slot[s] # None /\ d.slot[s].item = r.working.item
      BY <2>2 DEF Carried
    <3>2. r.working.item # None
      BY <1>2, DiskIs
    <3>3. s \in Migrate!Occupied(d) /\ d.slot[s].item.id = id
      BY <1>2, <3>1, <3>2 DEF Migrate!Occupied
    <3> QED
      BY <3>3, ItemsAre
  <2> QED
    BY <1>2, <2>1, <2>2
<1>3. CASE r.board # None /\ \E i \in DOMAIN r.board : r.board[i].id = id
  BY <1>3, ItemsAre
<1>4. CASE \E s \in Migrate!Occupied(r) : r.slot[s].item.id = id
  <2>1. PICK s \in Migrate!Occupied(r) : r.slot[s].item.id = id
    BY <1>4
  <2>2. s \in Slots /\ r.slot[s] # None /\ r.slot[s].item # None
    BY <2>1 DEF Migrate!Occupied
  <2>3. CASE s \notin Taken(r)
    <3>1. d.slot[s] # None /\ d.slot[s].item = r.slot[s].item
      BY <2>2, <2>3 DEF SlotsBut
    <3>2. s \in Migrate!Occupied(d)
      BY <2>2, <3>1 DEF Migrate!Occupied
    <3> QED
      BY <2>1, <3>1, <3>2, ItemsAre
  <2>4. CASE s \in Taken(r)
    <3>1. r.board # None /\ r.working # None
      BY <2>4 DEF Taken
    <3>2. (\E k \in DOMAIN r.board : r.board[k].id = id) \/ r.working.item.id = id
      BY <2>1, <3>1 DEF Boarded
    <3> QED
      BY <1>2, <1>3, <3>1, <3>2
  <2> QED
    BY <2>3, <2>4
<1>5. \/ \E n \in Migrate!Listed(Migrate!BacklogOf(r)) : Migrate!BacklogOf(r)[n].id = id
      \/ \E s \in Migrate!Occupied(r) : r.slot[s].item.id = id
      \/ r.working # None /\ r.working.item.id = id
      \/ r.board # None /\ \E i \in DOMAIN r.board : r.board[i].id = id
  BY ItemsAre
<1> QED
  BY <1>1, <1>2, <1>3, <1>4, <1>5

\* So is what is written, but in working files that are not kept.
LEMMA ButWritten ==
  ASSUME NEW r \in Disks, NEW d \in Disks, NEW T, SlotsBut(r, d, T), DetailsKept(r, d),
         r.working # None => d.working = r.working \/ Carried(r, d),
         NEW x \in Migrate!Written(r)
  PROVE  x \in Migrate!Written(d) \/ \E s \in T : s \in Slots /\ r.slot[s] # None /\ x \in r.slot[s].body
<1>1. CASE \E s \in Migrate!Occupied(r) : x \in r.slot[s].body
  <2>1. PICK s \in Migrate!Occupied(r) : x \in r.slot[s].body
    BY <1>1
  <2>2. s \in Slots /\ r.slot[s] # None /\ r.slot[s].item # None
    BY <2>1 DEF Migrate!Occupied
  <2>3. CASE s \notin T
    <3>1. d.slot[s] # None /\ d.slot[s].item = r.slot[s].item /\ x \in d.slot[s].body
      BY <2>1, <2>2, <2>3 DEF SlotsBut
    <3>2. s \in Migrate!Occupied(d)
      BY <2>2, <3>1 DEF Migrate!Occupied
    <3> QED
      BY <3>1, <3>2, WrittenAre
  <2> QED
    BY <2>1, <2>2, <2>3
<1>2. CASE \E id \in CardIds : r.detail[id] # None /\ x \in r.detail[id]
  <2>1. \E id \in CardIds : d.detail[id] # None /\ x \in d.detail[id]
    BY <1>2 DEF DetailsKept
  <2> QED
    BY <2>1, WrittenAre
<1>3. CASE r.working # None /\ x \in r.working.body
  <2>1. CASE d.working = r.working
    BY <1>3, <2>1, WrittenAre
  <2>2. CASE Carried(r, d)
    <3>1. PICK s \in Slots : d.slot[s] # None /\ d.slot[s].item = r.working.item /\ x \in d.slot[s].body
      BY <1>3, <2>2 DEF Carried
    <3>2. r.working.item # None
      BY <1>3, DiskIs
    <3>3. s \in Migrate!Occupied(d)
      BY <3>1, <3>2 DEF Migrate!Occupied
    <3> QED
      BY <3>1, <3>3, WrittenAre
  <2> QED
    BY <1>3, <2>1, <2>2
<1>4. \/ \E s \in Migrate!Occupied(r) : x \in r.slot[s].body
      \/ \E id \in CardIds : r.detail[id] # None /\ x \in r.detail[id]
      \/ r.working # None /\ x \in r.working.body
  BY WrittenAre
<1> QED
  BY <1>1, <1>2, <1>3, <1>4

LEMMA KeptWritten ==
  ASSUME NEW r \in Disks, NEW d \in Disks, SlotsKept(r, d), DetailsKept(r, d),
         r.working # None => d.working = r.working \/ Carried(r, d)
  PROVE  Migrate!Written(r) \subseteq Migrate!Written(d)
<1>1. SlotsBut(r, d, {})
  BY KeptIsBut
<1> QED
  BY <1>1, ButWritten

\* What a repair beside a board writes over.
LEMMA OverwrittenAre ==
  ASSUME NEW r, NEW s \in Taken(r), r.slot[s] # None, NEW x \in r.slot[s].body
  PROVE  x \in Migrate!Overwritten(r)
<1> DEFINE F == {z \in Migrate!Free(r) : r.slot[z] # None}
           B == {r.slot[z].body : z \in F}
<1>1. r.working # None /\ s \in F
  BY DEF Taken
<1>2. r.slot[s].body \in B
  BY <1>1
<1>3. Migrate!Overwritten(r) = UNION B
  BY <1>1 DEF Migrate!Overwritten
<1> HIDE DEF B
<1> QED
  BY <1>2, <1>3

\* NothingDropped, of a directory that was read and the one there is.
Lossless(r, d) ==
  /\ Migrate!Items(r) \subseteq Migrate!Items(d)
  /\ Migrate!Written(r) \subseteq Migrate!Written(d) \cup Migrate!Overwritten(r)
  /\ d.board # None /\ r.board = None =>
       Migrate!Items([r EXCEPT !.working = None])
         \subseteq Migrate!Items([d EXCEPT !.backlog = None, !.working = None, !.slot = [s \in Slots |-> None]])

\* What a board alone holds.
LEMMA BoardAlone ==
  ASSUME NEW d \in Disks
  PROVE  LET e == [d EXCEPT !.backlog = None, !.working = None, !.slot = [s \in Slots |-> None]]
         IN \A id : id \in Migrate!Items(e) <=> d.board # None /\ \E i \in DOMAIN d.board : d.board[i].id = id
<1> DEFINE e == [d EXCEPT !.backlog = None, !.working = None, !.slot = [s \in Slots |-> None]]
<1>1. e.backlog = None /\ e.working = None /\ e.board = d.board /\ e.slot = [s \in Slots |-> None]
  BY DiskIs
<1> HIDE DEF e
<1>2. Migrate!Listed(Migrate!BacklogOf(e)) = {}
  BY <1>1 DEF Migrate!BacklogOf, Migrate!Listed
<1>3. Migrate!Occupied(e) = {}
  BY <1>1 DEF Migrate!Occupied
<1>4. \A id : id \in Migrate!Items(e) <=> d.board # None /\ \E i \in DOMAIN d.board : d.board[i].id = id
  BY <1>1, <1>2, <1>3, ItemsAre
<1> QED
  BY <1>4 DEF e

\* A board that has the items of backlog.md and of the working files.
LEMMA OnTheBoard ==
  ASSUME NEW r \in Disks, NEW d \in Disks, r.board = None, d.board # None,
         \A n \in Migrate!Listed(Migrate!BacklogOf(r)) :
           \E k \in DOMAIN d.board : d.board[k].id = Migrate!BacklogOf(r)[n].id,
         \A s \in Migrate!Occupied(r) : \E k \in DOMAIN d.board : d.board[k].id = r.slot[s].item.id
  PROVE  Migrate!Items([r EXCEPT !.working = None])
           \subseteq Migrate!Items([d EXCEPT !.backlog = None, !.working = None, !.slot = [s \in Slots |-> None]])
<1> DEFINE q == [r EXCEPT !.working = None]
           e == [d EXCEPT !.backlog = None, !.working = None, !.slot = [s \in Slots |-> None]]
<1>1. q.backlog = r.backlog /\ q.working = None /\ q.board = None /\ q.slot = r.slot
  BY DiskIs
<1>2. \A id : id \in Migrate!Items(e) <=> d.board # None /\ \E i \in DOMAIN d.board : d.board[i].id = id
  BY BoardAlone
<1> HIDE DEF q, e
<1>3. Migrate!BacklogOf(q) = Migrate!BacklogOf(r) /\ Migrate!Occupied(q) = Migrate!Occupied(r)
  BY <1>1 DEF Migrate!BacklogOf, Migrate!Occupied
<1>4. ASSUME NEW id \in Migrate!Items(q)
      PROVE  id \in Migrate!Items(e)
  <2>1. \/ \E n \in Migrate!Listed(Migrate!BacklogOf(q)) : Migrate!BacklogOf(q)[n].id = id
        \/ \E s \in Migrate!Occupied(q) : q.slot[s].item.id = id
    BY <1>1, ItemsAre
  <2>2. \E i \in DOMAIN d.board : d.board[i].id = id
    BY <1>1, <1>3, <2>1
  <2> QED
    BY <1>2, <2>2
<1> QED
  BY <1>4 DEF q, e

\* At every point of a repair, what was read is held.
LEMMA RepairingHolds ==
  ASSUME NEW r \in Disks, NEW d \in Disks, NEW p, Repairing(r, d, p)
  PROVE  Lossless(r, d)
<1>1. SlotsBut(r, d, Taken(r)) /\ BacklogKept(r, d) /\ d.board = r.board /\ d.detail = r.detail /\ Boarded(r)
  BY DEF Repairing
<1>2. r.working # None => d.working = r.working \/ Carried(r, d)
  BY DEF Repairing
<1>3. DetailsKept(r, d)
  BY <1>1 DEF DetailsKept
<1>4. Migrate!Items(r) \subseteq Migrate!Items(d)
  BY <1>1, <1>2, KeptItems
<1>5. Migrate!Written(r) \subseteq Migrate!Written(d) \cup Migrate!Overwritten(r)
  <2> SUFFICES ASSUME NEW x \in Migrate!Written(r), x \notin Migrate!Written(d)
               PROVE  x \in Migrate!Overwritten(r)
    OBVIOUS
  <2>1. PICK s \in Taken(r) : r.slot[s] # None /\ x \in r.slot[s].body
    BY <1>1, <1>2, <1>3, ButWritten
  <2> QED
    BY <2>1, OverwrittenAre
<1> QED
  BY <1>1, <1>4, <1>5 DEF Lossless

\* At every point of the version step, what was read is held.
LEMMA VersioningHolds ==
  ASSUME NEW r \in Disks, NEW d \in Disks, NEW p \in Seq(Changes), Versioning(r, d, p)
  PROVE  Lossless(r, d) /\ Boarded(d)
<1> DEFINE lines == Migrate!BacklogOf(r)
           early == p # <<>> /\ Writing(p[1])
<1>1. /\ d.working = r.working /\ DetailsKept(r, d) /\ ~ Migrate!Refused(r)
      /\ r.board = None /\ SameOccupants(r, d)
  BY DEF Versioning
<1>2. early => SlotsKept(r, d) /\ BacklogKept(r, d)
  BY DEF Versioning
<1>3. ASSUME d.board = Migrate!Board(r)
      PROVE  /\ d.board # None
             /\ \A n \in Migrate!Listed(lines) : \E k \in DOMAIN d.board : d.board[k].id = lines[n].id
             /\ \A s \in Migrate!Occupied(r) : \E k \in DOMAIN d.board : d.board[k].id = r.slot[s].item.id
  <2>1. /\ Migrate!Board(r) \in Seq(Migrate!Cards)
        /\ \A n \in Migrate!Listed(lines) : \E k \in DOMAIN Migrate!Board(r) : Migrate!Board(r)[k].id = lines[n].id
        /\ \A s \in Migrate!Occupied(r) : \E k \in DOMAIN Migrate!Board(r) : Migrate!Board(r)[k].id = r.slot[s].item.id
    BY BoardIs
  <2>2. d.board # None
    BY <1>3, <2>1, NoneIs
  <2> QED
    BY <1>3, <2>1, <2>2
<1>4. ~ early => d.board = Migrate!Board(r)
  BY DEF Versioning, Writing
<1>5. d.board = None \/ d.board = Migrate!Board(r)
  BY DEF Versioning
<1>6. Migrate!Items(r) \subseteq Migrate!Items(d)
  <2>1. CASE early
    <3>1. SlotsBut(r, d, Taken(r)) /\ Boarded(r)
      BY <1>1, <1>2, <2>1, KeptIsBut DEF Boarded
    <3> QED
      BY <1>1, <1>2, <2>1, <3>1, KeptItems
  <2>2. CASE ~ early
    <3> SUFFICES ASSUME NEW id \in Migrate!Items(r)
                 PROVE  id \in Migrate!Items(d)
      OBVIOUS
    <3>1. \/ \E n \in Migrate!Listed(lines) : lines[n].id = id
          \/ \E s \in Migrate!Occupied(r) : r.slot[s].item.id = id
          \/ r.working # None /\ r.working.item.id = id
          \/ r.board # None /\ \E i \in DOMAIN r.board : r.board[i].id = id
      BY ItemsAre
    <3>2. \/ d.board # None /\ \E i \in DOMAIN d.board : d.board[i].id = id
          \/ d.working # None /\ d.working.item.id = id
      BY <1>1, <1>3, <1>4, <2>2, <3>1
    <3> QED
      BY <3>2, ItemsAre
  <2> QED
    BY <2>1, <2>2
<1>7. Migrate!Written(r) \subseteq Migrate!Written(d)
  <2>1. CASE early
    BY <1>1, <1>2, <2>1, KeptWritten
  <2>2. CASE ~ early
    <3> SUFFICES ASSUME NEW x \in Migrate!Written(r)
                 PROVE  x \in Migrate!Written(d)
      OBVIOUS
    <3>1. CASE \E s \in Migrate!Occupied(r) : x \in r.slot[s].body
      <4>1. PICK s \in Migrate!Occupied(r) : x \in r.slot[s].body
        BY <3>1
      <4>2. Migrate!Folds(r, s)
        BY <4>1 DEF Migrate!Folds
      <4>3. ASSUME NEW i \in DOMAIN p
            PROVE  p[i] # FoldOf(r, s)
        <5>1. SUFFICES ASSUME p[i] = FoldOf(r, s)
                       PROVE  FALSE
          OBVIOUS
        <5>2. p[i].file = "detail"
          BY <5>1 DEF FoldOf, Migrate!Change
        <5>3. p # <<>> /\ 1 \in DOMAIN p /\ i \in Nat /\ i >= 1
          OBVIOUS
        <5>4. CASE i = 1
          BY <2>2, <5>2, <5>3, <5>4 DEF Writing
        <5>5. CASE i # 1
          <6>1. 1 < i
            BY <5>3, <5>5
          <6>2. Writing(p[1])
            BY <5>2, <5>3, <6>1 DEF Versioning
          <6> QED
            BY <2>2, <5>3, <6>2
        <5> QED
          BY <5>4, <5>5
      <4>4. d.detail[r.slot[s].item.id] = Migrate!foldWorkingBody(r, s)
        BY <4>2, <4>3 DEF Versioning
      <4>5. r.slot[s].item.id \in CardIds /\ x \in Migrate!foldWorkingBody(r, s) /\ Migrate!foldWorkingBody(r, s) # None
        <5>1. /\ r.slot[s].item.id \in CardIds
              /\ Migrate!foldWorkingBody(r, s) \in SUBSET Notes
              /\ r.slot[s].body \subseteq Migrate!foldWorkingBody(r, s)
          BY <1>1, <4>2, FoldIs
        <5> QED
          BY <4>1, <5>1, NoneIs
      <4> QED
        BY <4>4, <4>5, WrittenAre
    <3>2. CASE \E id \in CardIds : r.detail[id] # None /\ x \in r.detail[id]
      <4>1. \E id \in CardIds : d.detail[id] # None /\ x \in d.detail[id]
        BY <1>1, <3>2 DEF DetailsKept
      <4> QED
        BY <4>1, WrittenAre
    <3>3. CASE r.working # None /\ x \in r.working.body
      BY <1>1, <3>3, WrittenAre
    <3>4. \/ \E s \in Migrate!Occupied(r) : x \in r.slot[s].body
          \/ \E id \in CardIds : r.detail[id] # None /\ x \in r.detail[id]
          \/ r.working # None /\ x \in r.working.body
      BY WrittenAre
    <3> QED
      BY <3>1, <3>2, <3>3, <3>4
  <2> QED
    BY <2>1, <2>2
<1>8. ASSUME d.board # None
      PROVE  Migrate!Items([r EXCEPT !.working = None])
               \subseteq Migrate!Items([d EXCEPT !.backlog = None, !.working = None, !.slot = [s \in Slots |-> None]])
  BY <1>1, <1>3, <1>5, <1>8, OnTheBoard
<1>9. ASSUME d.board # None, NEW s \in Migrate!Occupied(d)
      PROVE  \E k \in DOMAIN d.board : d.board[k].id = d.slot[s].item.id
  <2>1. s \in Migrate!Occupied(r) /\ d.slot[s].item = r.slot[s].item
    BY <1>1 DEF SameOccupants, Migrate!Occupied
  <2> QED
    BY <1>3, <1>5, <1>9, <2>1
<1>10. Boarded(d)
  BY <1>9 DEF Boarded
<1> QED
  BY <1>6, <1>7, <1>8, <1>10 DEF Lossless

-----------------------------------------------------------------------------
(* The steps.  A person adds a line or a note, and takes none away.        *)

LEMMA LineAdded ==
  ASSUME NEW r \in Disks, NEW d \in Disks, r.backlog # None, d.backlog # None,
         \A n \in DOMAIN r.backlog : \E m \in DOMAIN d.backlog : d.backlog[m] = r.backlog[n]
  PROVE  BacklogKept(r, d)
<1>1. Migrate!BacklogOf(r) = r.backlog /\ Migrate!BacklogOf(d) = d.backlog
  BY DEF Migrate!BacklogOf
<1>2. ASSUME NEW n \in Migrate!Listed(r.backlog)
      PROVE  \E m \in Migrate!Listed(d.backlog) : d.backlog[m].id = r.backlog[n].id
  <2>1. n \in DOMAIN r.backlog /\ Migrate!Readable(r.backlog[n])
    BY DEF Migrate!Listed
  <2>2. PICK m \in DOMAIN d.backlog : d.backlog[m] = r.backlog[n]
    BY <2>1
  <2>3. m \in Migrate!Listed(d.backlog)
    BY <2>1, <2>2 DEF Migrate!Listed
  <2> QED
    BY <2>2, <2>3
<1> QED
  BY <1>1, <1>2 DEF BacklogKept

LEMMA PersonAdds ==
  ASSUME disk \in Disks, Migrate!Person
  PROVE  /\ disk' \in Disks /\ disk'.board = disk.board /\ disk'.working = disk.working /\ disk'.detail = disk.detail
         /\ SlotsKept(disk, disk') /\ BacklogKept(disk, disk') /\ SameOccupants(disk, disk')
<1>1. /\ disk = [working |-> disk.working, slot |-> disk.slot, backlog |-> disk.backlog, board |-> disk.board,
                 detail |-> disk.detail]
      /\ disk.working \in Migrate!WorkingFiles \cup {None} /\ disk.slot \in [Slots -> Migrate!WorkingFiles \cup {None}]
      /\ disk.backlog \in Seq(Migrate!BacklogLines) \cup {None} /\ disk.board \in Seq(Migrate!Cards) \cup {None}
      /\ disk.detail \in [CardIds -> (SUBSET Notes) \cup {None}]
      /\ disk.working # None => disk.working.item # None
      /\ disk.backlog # None => disk.backlog # <<>>
  BY DiskIs
<1>2. ASSUME NEW l \in {Migrate!Project} \cup {Migrate!ItemLine(id, "ready", "list", FALSE) : id \in CardIds},
             disk.backlog # None,
             disk' = [disk EXCEPT !.backlog = IF l = Migrate!Project THEN Migrate!InsertAt(@, 2, l) ELSE Append(@, l)]
      PROVE  /\ disk' \in Disks /\ disk'.board = disk.board /\ disk'.working = disk.working
             /\ disk'.detail = disk.detail /\ SlotsKept(disk, disk') /\ BacklogKept(disk, disk')
             /\ SameOccupants(disk, disk')
  <2> DEFINE b == IF l = Migrate!Project THEN Migrate!InsertAt(disk.backlog, 2, l) ELSE Append(disk.backlog, l)
  <2>1. l \in Migrate!BacklogLines
    <3>1. CASE l = Migrate!Project
      BY <3>1 DEF Migrate!BacklogLines
    <3>2. CASE \E id \in CardIds : l = Migrate!ItemLine(id, "ready", "list", FALSE)
      <4>1. PICK id \in CardIds : l = Migrate!ItemLine(id, "ready", "list", FALSE)
        BY <3>2
      <4>2. l = [kind |-> "item", id |-> id, section |-> "ready", tags |-> "list", detail |-> FALSE]
        BY <4>1 DEF Migrate!ItemLine
      <4>3. l \in Migrate!ItemsIn(Migrate!Sections)
        BY <4>2 DEF Migrate!ItemsIn, Migrate!Sections
      <4> QED
        BY <4>3 DEF Migrate!BacklogLines
    <3> QED
      BY <1>2, <3>1, <3>2
  <2>2. disk.backlog \in Seq(Migrate!BacklogLines) /\ disk.backlog # <<>>
    BY <1>1, <1>2
  <2>3. /\ b \in Seq(Migrate!BacklogLines) /\ b # <<>>
        /\ \A n \in DOMAIN disk.backlog : \E m \in DOMAIN b : b[m] = disk.backlog[n]
    <3>1. CASE l = Migrate!Project
      <4>1. b = Migrate!InsertAt(disk.backlog, 2, l)
        BY <3>1
      <4> HIDE DEF b
      <4> QED
        BY <2>1, <2>2, <4>1, InsertIs
    <3>2. CASE l # Migrate!Project
      <4>1. b = Append(disk.backlog, l)
        BY <3>2
      <4> HIDE DEF b
      <4> QED
        BY <2>1, <2>2, <4>1
    <3> QED
      BY <3>1, <3>2
  <2>4. disk' = [disk EXCEPT !.backlog = b]
    BY <1>2
  <2> HIDE DEF b
  <2>5. disk' = [working |-> disk.working, slot |-> disk.slot, backlog |-> b, board |-> disk.board,
                 detail |-> disk.detail]
    BY <1>1, <2>4
  <2>6. b # None
    BY <2>3, NoneIs
  <2>7. disk' \in Disks
    BY <1>1, <2>3, <2>5 DEF Disks
  <2>8. SlotsKept(disk, disk') /\ SameOccupants(disk, disk')
    BY <2>5 DEF SlotsKept, SameOccupants
  <2>9. disk'.backlog = b
    BY <2>5
  <2>10. BacklogKept(disk, disk')
    BY <1>2, <2>3, <2>6, <2>7, <2>9, LineAdded
  <2> QED
    BY <2>5, <2>7, <2>8, <2>10
<1>3. ASSUME NEW s \in Migrate!Occupied(disk), NEW n \in Notes,
             disk' = [disk EXCEPT !.slot[s].body = @ \cup {n}]
      PROVE  /\ disk' \in Disks /\ disk'.board = disk.board /\ disk'.working = disk.working
             /\ disk'.detail = disk.detail /\ SlotsKept(disk, disk') /\ BacklogKept(disk, disk')
             /\ SameOccupants(disk, disk')
  <2> DEFINE x == disk.slot[s]
             y == [item |-> x.item, body |-> x.body \cup {n}]
             sl == [disk.slot EXCEPT ![s] = y]
  <2>1. s \in Slots /\ x # None
    BY DEF Migrate!Occupied
  <2>2. x \in Migrate!WorkingFiles
    BY <1>1, <2>1
  <2>3. x = [item |-> x.item, body |-> x.body] /\ x.body \in SUBSET Notes
    BY <2>2, OccupantIs
  <2>4. y \in Migrate!WorkingFiles
    BY <2>2, <2>3 DEF Migrate!WorkingFiles
  <2>5. disk' = [disk EXCEPT !.slot = [disk.slot EXCEPT ![s] = [x EXCEPT !.body = x.body \cup {n}]]]
    BY <1>3
  <2>6. [x EXCEPT !.body = x.body \cup {n}] = y
    BY <2>3
  <2>7. disk' = [disk EXCEPT !.slot = sl]
    BY <2>5, <2>6
  <2>8. /\ sl \in [Slots -> Migrate!WorkingFiles \cup {None}] /\ sl[s] = y
        /\ \A t \in Slots : t # s => sl[t] = disk.slot[t]
    BY <1>1, <2>1, <2>4
  <2>9. y.item = x.item /\ x.body \subseteq y.body
    OBVIOUS
  <2>10. y # None
    BY <2>4, NoneIs
  <2> HIDE DEF sl, y
  <2>11. disk' = [working |-> disk.working, slot |-> sl, backlog |-> disk.backlog, board |-> disk.board,
                  detail |-> disk.detail]
    BY <1>1, <2>7
  <2>12. disk' \in Disks
    BY <1>1, <2>8, <2>11 DEF Disks
  <2>13. disk'.slot = sl /\ disk'.backlog = disk.backlog
    BY <2>11
  <2>14. SlotsKept(disk, disk') /\ SameOccupants(disk, disk')
    BY <2>1, <2>8, <2>9, <2>10, <2>13 DEF SlotsKept, SameOccupants
  <2>15. BacklogKept(disk, disk')
    BY <2>13 DEF BacklogKept, Migrate!BacklogOf
  <2> QED
    BY <2>11, <2>12, <2>14, <2>15
<1> QED
  BY <1>2, <1>3 DEF Migrate!Person

\* What is kept twice is kept.
LEMMA KeptTwice ==
  ASSUME NEW r, NEW c, NEW d
  PROVE  /\ \A T : SlotsBut(r, c, T) /\ SlotsKept(c, d) => SlotsBut(r, d, T)
         /\ SameOccupants(r, c) /\ SameOccupants(c, d) => SameOccupants(r, d)
         /\ SlotsKept(r, c) /\ SlotsKept(c, d) => SlotsKept(r, d)
         /\ BacklogKept(r, c) /\ BacklogKept(c, d) => BacklogKept(r, d)
         /\ Carried(r, c) /\ SlotsKept(c, d) => Carried(r, d)
<1>1. SlotsKept(r, c) /\ SlotsKept(c, d) => SlotsKept(r, d)
  BY DEF SlotsKept
<1>2. ASSUME BacklogKept(r, c), BacklogKept(c, d), NEW n \in Migrate!Listed(Migrate!BacklogOf(r))
      PROVE  \E m \in Migrate!Listed(Migrate!BacklogOf(d)) : Migrate!BacklogOf(d)[m].id = Migrate!BacklogOf(r)[n].id
  <2>1. PICK k \in Migrate!Listed(Migrate!BacklogOf(c)) : Migrate!BacklogOf(c)[k].id = Migrate!BacklogOf(r)[n].id
    BY <1>2 DEF BacklogKept
  <2>2. PICK m \in Migrate!Listed(Migrate!BacklogOf(d)) : Migrate!BacklogOf(d)[m].id = Migrate!BacklogOf(c)[k].id
    BY <1>2 DEF BacklogKept
  <2> QED
    BY <2>1, <2>2
<1>3. ASSUME Carried(r, c), SlotsKept(c, d)
      PROVE  Carried(r, d)
  <2>1. PICK s \in Slots : c.slot[s] # None /\ c.slot[s].item = r.working.item /\ r.working.body \subseteq c.slot[s].body
    BY <1>3 DEF Carried
  <2>2. d.slot[s] # None /\ d.slot[s].item = r.working.item /\ r.working.body \subseteq d.slot[s].body
    BY <1>3, <2>1 DEF SlotsKept
  <2> QED
    BY <2>2 DEF Carried
<1>4. ASSUME NEW T, SlotsBut(r, c, T), SlotsKept(c, d)
      PROVE  SlotsBut(r, d, T)
  BY <1>4 DEF SlotsBut, SlotsKept
<1>5. SameOccupants(r, c) /\ SameOccupants(c, d) => SameOccupants(r, d)
  BY DEF SameOccupants
<1> QED
  BY <1>1, <1>2, <1>3, <1>4, <1>5 DEF BacklogKept

\* The items of the working files are where they were, on the board or not.
LEMMA BoardedStays ==
  ASSUME NEW d, NEW e, Boarded(d), SameOccupants(d, e), e.board = d.board, e.working \in {d.working, None}
  PROVE  Boarded(e)
<1> SUFFICES ASSUME e.board # None, e.working # None, NEW s \in Migrate!Occupied(e)
             PROVE  \/ \E k \in DOMAIN e.board : e.board[k].id = e.slot[s].item.id
                    \/ e.slot[s].item.id = e.working.item.id
  BY DEF Boarded
<1>1. s \in Migrate!Occupied(d) /\ e.slot[s].item = d.slot[s].item /\ e.working = d.working
  BY DEF SameOccupants, Migrate!Occupied
<1> QED
  BY <1>1 DEF Boarded

LEMMA PersonKeeps ==
  ASSUME MigrateInvariant, Migrate!Person
  PROVE  MigrateInvariant'
<1>1. /\ disk \in Disks /\ plan \in Seq(Changes) /\ step \in {"idle", "repair", "version"}
      /\ Boarded(disk)
      /\ read # None \/ step # "idle" => read \in Disks
      /\ step # "idle" => plan # <<>>
      /\ step = "repair" => Repairing(read, disk, plan)
      /\ step = "version" => Versioning(read, disk, plan)
      /\ Migrate!NothingDropped
  BY DEF MigrateInvariant
<1>2. /\ disk' \in Disks /\ disk'.board = disk.board /\ disk'.working = disk.working /\ disk'.detail = disk.detail
      /\ SlotsKept(disk, disk') /\ BacklogKept(disk, disk') /\ SameOccupants(disk, disk')
  BY <1>1, PersonAdds
<1>3. step' = step /\ read' = read /\ plan' = plan
  BY DEF Migrate!Person
<1>4. ASSUME step = "repair"
      PROVE  Repairing(read, disk', plan)
  <2>1. Repairing(read, disk, plan)
    BY <1>1, <1>4
  <2>2. SlotsBut(read, disk', Taken(read)) /\ BacklogKept(read, disk')
    BY <1>2, <2>1, KeptTwice DEF Repairing
  <2>3. Carried(read, disk) => Carried(read, disk')
    BY <1>2, KeptTwice
  <2> QED
    BY <1>2, <2>1, <2>2, <2>3 DEF Repairing
<1>5. ASSUME step = "version"
      PROVE  Versioning(read, disk', plan)
  <2>1. Versioning(read, disk, plan)
    BY <1>1, <1>5
  <2>2. plan # <<>> /\ Writing(plan[1]) => SlotsKept(read, disk') /\ BacklogKept(read, disk')
    BY <1>2, <2>1, KeptTwice DEF Versioning
  <2>3. DetailsKept(read, disk')
    BY <1>2, <2>1 DEF Versioning, DetailsKept
  <2>4. SameOccupants(read, disk')
    BY <1>2, <2>1, KeptTwice DEF Versioning
  <2> QED
    BY <1>2, <2>1, <2>2, <2>3, <2>4 DEF Versioning
<1>6. ASSUME read # None
      PROVE  Lossless(read, disk')
  <2>1. Lossless(read, disk)
    BY <1>1, <1>6 DEF Migrate!NothingDropped, Lossless
  <2>2. DetailsKept(disk, disk')
    BY <1>2 DEF DetailsKept
  <2>3. Migrate!Items(disk) \subseteq Migrate!Items(disk')
    <3>1. SlotsBut(disk, disk', Taken(disk))
      BY <1>2, KeptIsBut
    <3> QED
      BY <1>1, <1>2, <3>1, KeptItems
  <2>4. Migrate!Written(disk) \subseteq Migrate!Written(disk')
    BY <1>1, <1>2, <2>2, KeptWritten
  <2> DEFINE e(d) == Migrate!Items([d EXCEPT !.backlog = None, !.working = None, !.slot = [s \in Slots |-> None]])
  <2>5. e(disk) \subseteq e(disk')
    <3>1. \A id : id \in e(disk) <=> disk.board # None /\ \E i \in DOMAIN disk.board : disk.board[i].id = id
      BY <1>1, BoardAlone
    <3>2. \A id : id \in e(disk') <=> disk'.board # None /\ \E i \in DOMAIN disk'.board : disk'.board[i].id = id
      BY <1>2, BoardAlone
    <3> HIDE DEF e
    <3> QED
      BY <1>2, <3>1, <3>2
  <2>6. Lossless(read, disk) => (disk.board # None /\ read.board = None =>
          Migrate!Items([read EXCEPT !.working = None]) \subseteq e(disk))
    BY DEF Lossless
  <2>7. (disk'.board # None /\ read.board = None =>
          Migrate!Items([read EXCEPT !.working = None]) \subseteq e(disk'))
    BY <1>2, <2>1, <2>5, <2>6
  <2> QED
    BY <2>1, <2>3, <2>4, <2>7 DEF Lossless
<1>7. Migrate!NothingDropped'
  BY <1>3, <1>6 DEF Migrate!NothingDropped, Lossless
<1>8. Boarded(disk')
  BY <1>1, <1>2, BoardedStays
<1> QED
  BY <1>1, <1>2, <1>3, <1>4, <1>5, <1>7, <1>8 DEF MigrateInvariant

\* What is read is there.
LEMMA AllKept ==
  ASSUME NEW d
  PROVE  /\ SlotsKept(d, d) /\ BacklogKept(d, d) /\ DetailsKept(d, d) /\ SameOccupants(d, d)
         /\ \A T : SlotsBut(d, d, T)
BY DEF SlotsKept, BacklogKept, DetailsKept, SameOccupants, SlotsBut

LEMMA RunRepairKeeps ==
  ASSUME MigrateInvariant, Migrate!RunRepair
  PROVE  MigrateInvariant'
<1>1. disk \in Disks /\ Boarded(disk)
  BY DEF MigrateInvariant
<1>2. /\ (disk.working # None => Migrate!Free(disk) # {}) /\ Migrate!RepairPlan(disk) # <<>>
      /\ step' = "repair" /\ read' = disk /\ plan' = Migrate!RepairPlan(disk) /\ disk' = disk
  BY DEF Migrate!RunRepair, Migrate!Start
<1>3. /\ plan' \in Seq(Changes) /\ \A i \in DOMAIN plan' : RepairStep(disk, plan', i)
      /\ disk.working # None => plan' # <<>> /\ plan'[1].file = "slot"
  <2> DEFINE P == Migrate!RepairPlan(disk)
  <2>1. /\ P \in Seq(Changes)
        /\ \A i \in DOMAIN P :
             \/ /\ P[i].file = "slot" /\ i = 1 /\ P[i].to = disk.working /\ disk.working # None
                /\ P[i].at \in Slots /\ (disk.slot[P[i].at] = None \/ P[i].at \in Taken(disk))
             \/ P[i].file = "backlog" /\ disk.backlog # None /\ P[i].to = Migrate!Repaired(disk.backlog)
             \/ P[i].file = "working" /\ P[i].to = None /\ i = Len(P)
        /\ disk.working # None => P # <<>> /\ P[1].file = "slot"
    BY <1>1, <1>2, RepairPlanIs
  <2>2. plan' = P
    BY <1>2
  <2> HIDE DEF P
  <2> QED
    BY <2>1, <2>2 DEF RepairStep
<1>4. Repairing(disk, disk, plan')
  BY <1>1, <1>2, <1>3, AllKept DEF Repairing
<1>5. Lossless(disk, disk)
  BY <1>1, <1>2, <1>4, RepairingHolds
<1>6. Migrate!NothingDropped'
  BY <1>2, <1>5 DEF Migrate!NothingDropped, Lossless
<1> QED
  BY <1>1, <1>2, <1>3, <1>4, <1>6 DEF MigrateInvariant

LEMMA RunVersionKeeps ==
  ASSUME MigrateInvariant, Migrate!RunVersion
  PROVE  MigrateInvariant'
<1>1. disk \in Disks /\ Boarded(disk)
  BY DEF MigrateInvariant
<1>2. /\ disk.board = None /\ ~ Migrate!Refused(disk)
      /\ step' = "version" /\ read' = disk /\ plan' = Migrate!VersionPlan(disk) /\ disk' = disk
  BY DEF Migrate!RunVersion, Migrate!Start
<1> DEFINE P == Migrate!VersionPlan(disk)
           folded(s) == Migrate!Change("detail", disk.slot[s].item.id, Migrate!foldWorkingBody(disk, s))
<1>3. /\ P \in Seq(Changes) /\ P # <<>> /\ P[1] = Migrate!Change("board", None, Migrate!Board(disk))
      /\ \E k \in Nat :
           /\ \A i \in DOMAIN P : i # 1 /\ i <= k =>
                \E s \in Migrate!Occupied(disk) : Migrate!Folds(disk, s) /\ P[i] = folded(s)
           /\ \A i \in DOMAIN P : i > k =>
                \/ P[i] = Migrate!Change("backlog", None, None)
                \/ \E s \in Slots : P[i] = Migrate!Change("slot", s, None)
           /\ 1 <= k
      /\ \A s \in Migrate!Occupied(disk) : Migrate!Folds(disk, s) => \E i \in DOMAIN P : P[i] = folded(s)
  BY <1>1, <1>2, VersionPlanIs
<1>4. plan' = P
  BY <1>2
<1> HIDE DEF P
<1>5. \A s : folded(s) = FoldOf(disk, s)
  BY DEF FoldOf
<1> HIDE DEF folded
<1>6. PICK k \in Nat :
        /\ \A i \in DOMAIN P : i # 1 /\ i <= k =>
             \E s \in Migrate!Occupied(disk) : Migrate!Folds(disk, s) /\ P[i] = FoldOf(disk, s)
        /\ \A i \in DOMAIN P : i > k =>
             \/ P[i] = Migrate!Change("backlog", None, None)
             \/ \E s \in Slots : P[i] = Migrate!Change("slot", s, None)
        /\ 1 <= k
  BY <1>3, <1>5
<1>7. ASSUME NEW i \in DOMAIN P
      PROVE  VersionStep(disk, P, i) /\ (P[i].file = "detail" => i <= k) /\ (i <= k => Writing(P[i]))
  <2>1. i \in Nat
    BY <1>3
  <2>2. CASE i = 1
    <3>1. P[i] = Migrate!Change("board", None, Migrate!Board(disk))
      BY <1>3, <2>2
    <3>2. P[i].file = "board"
      BY <3>1 DEF Migrate!Change
    <3> QED
      BY <1>6, <2>2, <3>1, <3>2 DEF VersionStep, Writing
  <2>3. CASE i # 1 /\ i <= k
    <3>1. PICK s \in Migrate!Occupied(disk) : Migrate!Folds(disk, s) /\ P[i] = FoldOf(disk, s)
      BY <1>6, <2>3
    <3>2. P[i].file = "detail"
      BY <3>1 DEF FoldOf, Migrate!Change
    <3> QED
      BY <2>3, <3>1, <3>2 DEF VersionStep, Writing
  <2>4. CASE i > k
    <3>1. \/ P[i] = Migrate!Change("backlog", None, None)
          \/ \E s \in Slots : P[i] = Migrate!Change("slot", s, None)
      BY <1>6, <2>4
    <3>2. P[i].file # "detail"
      BY <3>1 DEF Migrate!Change
    <3>3. ~ (i <= k)
      BY <1>6, <2>1, <2>4
    <3> QED
      BY <3>1, <3>2, <3>3 DEF VersionStep
  <2> QED
    BY <1>6, <2>1, <2>2, <2>3, <2>4
<1>8. ASSUME NEW i \in DOMAIN P, NEW j \in DOMAIN P, i < j, P[j].file = "detail"
      PROVE  Writing(P[i])
  <2>1. j <= k /\ i \in Nat /\ j \in Nat
    BY <1>3, <1>7, <1>8
  <2>2. i <= k
    BY <1>6, <1>8, <2>1
  <2> QED
    BY <1>7, <2>2
<1>9. P # <<>> /\ P[1].file = "board"
  BY <1>3 DEF Migrate!Change
<1>10. Versioning(disk, disk, P)
  BY <1>2, <1>3, <1>5, <1>7, <1>8, <1>9, AllKept DEF Versioning
<1>11. Lossless(disk, disk)
  BY <1>1, <1>2, <1>3, <1>10, VersioningHolds
<1>12. Migrate!NothingDropped'
  BY <1>2, <1>11 DEF Migrate!NothingDropped, Lossless
<1> QED
  BY <1>1, <1>2, <1>3, <1>4, <1>9, <1>10, <1>12 DEF MigrateInvariant

LEMMA AbandonKeeps ==
  ASSUME MigrateInvariant, Migrate!Abandon
  PROVE  MigrateInvariant'
<1>1. step' = "idle" /\ plan' = <<>> /\ disk' = disk /\ read' = read
  BY DEF Migrate!Abandon
<1>2. plan' \in Seq(Changes)
  BY <1>1
<1>3. Migrate!NothingDropped'
  BY <1>1 DEF MigrateInvariant, Migrate!NothingDropped
<1> QED
  BY <1>1, <1>2, <1>3 DEF MigrateInvariant

\* A change is written to its file, and to no other.
Applied(d, c) ==
  CASE c.file = "slot"    -> [d EXCEPT !.slot[c.at] = c.to]
    [] c.file = "detail"  -> [d EXCEPT !.detail[c.at] = c.to]
    [] c.file = "backlog" -> [d EXCEPT !.backlog = c.to]
    [] c.file = "working" -> [d EXCEPT !.working = c.to]
    [] c.file = "board"   -> [d EXCEPT !.board = c.to]

LEMMA AppliedIs ==
  ASSUME NEW d \in Disks, NEW c
  PROVE  /\ c.file = "slot" => Applied(d, c) =
              [working |-> d.working, slot |-> [d.slot EXCEPT ![c.at] = c.to], backlog |-> d.backlog,
               board |-> d.board, detail |-> d.detail]
         /\ c.file = "detail" => Applied(d, c) =
              [working |-> d.working, slot |-> d.slot, backlog |-> d.backlog,
               board |-> d.board, detail |-> [d.detail EXCEPT ![c.at] = c.to]]
         /\ c.file = "backlog" => Applied(d, c) =
              [working |-> d.working, slot |-> d.slot, backlog |-> c.to, board |-> d.board, detail |-> d.detail]
         /\ c.file = "working" => Applied(d, c) =
              [working |-> c.to, slot |-> d.slot, backlog |-> d.backlog, board |-> d.board, detail |-> d.detail]
         /\ c.file = "board" => Applied(d, c) =
              [working |-> d.working, slot |-> d.slot, backlog |-> d.backlog, board |-> c.to, detail |-> d.detail]
<1>1. d = [working |-> d.working, slot |-> d.slot, backlog |-> d.backlog, board |-> d.board, detail |-> d.detail]
  BY DiskIs
<1> DEFINE sl == [d.slot EXCEPT ![c.at] = c.to]
           dt == [d.detail EXCEPT ![c.at] = c.to]
<1>2. /\ c.file = "slot" => Applied(d, c) = [d EXCEPT !.slot = sl]
      /\ c.file = "detail" => Applied(d, c) = [d EXCEPT !.detail = dt]
      /\ c.file = "backlog" => Applied(d, c) = [d EXCEPT !.backlog = c.to]
      /\ c.file = "working" => Applied(d, c) = [d EXCEPT !.working = c.to]
      /\ c.file = "board" => Applied(d, c) = [d EXCEPT !.board = c.to]
  <2>1. CASE c.file = "slot"
    <3>1. Applied(d, c) = [d EXCEPT !.slot[c.at] = c.to]
      BY <2>1, Zenon DEF Applied
    <3> QED
      BY <2>1, <3>1
  <2>2. CASE c.file = "detail"
    <3>1. Applied(d, c) = [d EXCEPT !.detail[c.at] = c.to]
      BY <2>2 DEF Applied
    <3> QED
      BY <2>2, <3>1
  <2>3. CASE c.file = "backlog"
    BY <2>3 DEF Applied
  <2>4. CASE c.file = "working"
    BY <2>4 DEF Applied
  <2>5. CASE c.file = "board"
    BY <2>5 DEF Applied
  <2>6. CASE c.file \notin {"slot", "detail", "backlog", "working", "board"}
    BY <2>6
  <2> QED
    BY <2>1, <2>2, <2>3, <2>4, <2>5, <2>6
<1> HIDE DEF sl, dt
<1>3. /\ c.file = "slot" => Applied(d, c) = [working |-> d.working, slot |-> sl, backlog |-> d.backlog,
                                              board |-> d.board, detail |-> d.detail]
      /\ c.file = "detail" => Applied(d, c) = [working |-> d.working, slot |-> d.slot, backlog |-> d.backlog,
                                              board |-> d.board, detail |-> dt]
  BY <1>1, <1>2
<1>4. /\ c.file = "backlog" => Applied(d, c) = [working |-> d.working, slot |-> d.slot, backlog |-> c.to,
                                              board |-> d.board, detail |-> d.detail]
      /\ c.file = "working" => Applied(d, c) = [working |-> c.to, slot |-> d.slot, backlog |-> d.backlog,
                                              board |-> d.board, detail |-> d.detail]
      /\ c.file = "board" => Applied(d, c) = [working |-> d.working, slot |-> d.slot, backlog |-> d.backlog,
                                              board |-> c.to, detail |-> d.detail]
  BY <1>1, <1>2
<1> QED
  BY <1>3, <1>4 DEF sl, dt

LEMMA RepairApplied ==
  ASSUME NEW r \in Disks, NEW d \in Disks, NEW p \in Seq(Changes), p # <<>>, Repairing(r, d, p), Boarded(d)
  PROVE  /\ Applied(d, Head(p)) \in Disks /\ Repairing(r, Applied(d, Head(p)), Tail(p))
         /\ Boarded(Applied(d, Head(p)))
<1> DEFINE c == p[1]
           t == Tail(p)
           e == Applied(d, c)
<1>1. /\ Len(p) \in Nat /\ 1 \in DOMAIN p /\ Head(p) = c /\ t \in Seq(Changes) /\ Len(t) = Len(p) - 1
      /\ \A i \in DOMAIN t : i \in Nat /\ i + 1 \in DOMAIN p /\ t[i] = p[i + 1]
  BY TailIs
<1>2. \A i \in DOMAIN t : RepairStep(r, t, i)
  <2> SUFFICES ASSUME NEW i \in DOMAIN t
               PROVE  RepairStep(r, t, i)
    OBVIOUS
  <2>1. i \in Nat /\ i + 1 \in DOMAIN p /\ t[i] = p[i + 1] /\ i >= 1 /\ i + 1 # 1
    BY <1>1
  <2>2. RepairStep(r, p, i + 1)
    BY <2>1 DEF Repairing
  <2> HIDE DEF t
  <2>3. i + 1 = Len(p) => i = Len(t)
    BY <1>1, <2>1
  <2> QED
    BY <2>1, <2>2, <2>3 DEF RepairStep
<1>3. RepairStep(r, p, 1)
  BY <1>1 DEF Repairing
<1> HIDE DEF t
<1>4. /\ Boarded(r) /\ d.board = r.board /\ d.detail = r.detail /\ SlotsBut(r, d, Taken(r)) /\ BacklogKept(r, d)
      /\ d.working = r.working \/ (d.working = None /\ p = <<>>)
      /\ r.working # None => (p # <<>> /\ c.file = "slot") \/ Carried(r, d)
  BY DEF Repairing
<1>5. /\ d.working \in Migrate!WorkingFiles \cup {None} /\ d.slot \in [Slots -> Migrate!WorkingFiles \cup {None}]
      /\ d.backlog \in Seq(Migrate!BacklogLines) \cup {None} /\ d.board \in Seq(Migrate!Cards) \cup {None}
      /\ d.detail \in [CardIds -> (SUBSET Notes) \cup {None}]
      /\ d.working # None => d.working.item # None
      /\ d.backlog # None => d.backlog # <<>>
  BY DiskIs
<1> HIDE DEF c
<1>6. CASE /\ c.file = "slot" /\ c.to = r.working /\ r.working # None /\ c.at \in Slots
               /\ (r.slot[c.at] = None \/ c.at \in Taken(r))
  <2> DEFINE sl == [d.slot EXCEPT ![c.at] = c.to]
  <2>1. e = [working |-> d.working, slot |-> sl, backlog |-> d.backlog, board |-> d.board, detail |-> d.detail]
    BY <1>6, AppliedIs
  <2>2. c.to \in Migrate!WorkingFiles
    BY <1>6, DiskIs
  <2>3. /\ sl \in [Slots -> Migrate!WorkingFiles \cup {None}] /\ sl[c.at] = r.working
        /\ \A s \in Slots : s # c.at => sl[s] = d.slot[s]
    BY <1>5, <1>6, <2>2
  <2> HIDE DEF sl, e
  <2>4. e \in Disks
    BY <1>5, <2>1, <2>3 DEF Disks
  <2>5. e.slot = sl /\ e.working = d.working /\ e.backlog = d.backlog /\ e.board = d.board /\ e.detail = d.detail
    BY <2>1
  <2>6. SlotsBut(r, e, Taken(r))
    <3> SUFFICES ASSUME NEW s \in Slots \ Taken(r), r.slot[s] # None
                 PROVE  /\ e.slot[s] # None /\ e.slot[s].item = r.slot[s].item
                        /\ r.slot[s].body \subseteq e.slot[s].body
      BY DEF SlotsBut
    <3>1. e.slot[s] = d.slot[s]
      BY <1>6, <2>3, <2>5
    <3> QED
      BY <1>4, <3>1 DEF SlotsBut
  <2>7. BacklogKept(r, e)
    BY <1>4, <2>5 DEF BacklogKept, Migrate!BacklogOf
  <2>8. Carried(r, e)
    BY <1>6, <2>3, <2>5 DEF Carried
  <2>20. Repairing(r, e, t)
    BY <1>1, <1>2, <1>4, <2>4, <2>5, <2>6, <2>7, <2>8 DEF Repairing
  <2>21. Boarded(e)
    <3> SUFFICES ASSUME e.board # None, NEW s \in Migrate!Occupied(e)
                 PROVE  \/ \E k \in DOMAIN e.board : e.board[k].id = e.slot[s].item.id
                        \/ e.slot[s].item.id = e.working.item.id
      BY DEF Boarded
    <3>1. d.working = r.working
      BY <1>1, <1>4
    <3>2. CASE s = c.at
      BY <2>3, <2>5, <3>1, <3>2
    <3>3. CASE s # c.at
      <4>1. s \in Migrate!Occupied(d) /\ e.slot[s] = d.slot[s]
        BY <2>3, <2>5, <3>3 DEF Migrate!Occupied
      <4> QED
        BY <1>6, <2>5, <3>1, <4>1 DEF Boarded
    <3> QED
      BY <3>2, <3>3
  <2> QED
    BY <1>1, <2>4, <2>20, <2>21 DEF e, t
<1>7. CASE c.file = "backlog" /\ r.backlog # None /\ c.to = Migrate!Repaired(r.backlog)
  <2>1. e = [working |-> d.working, slot |-> d.slot, backlog |-> c.to, board |-> d.board, detail |-> d.detail]
    BY <1>7, AppliedIs
  <2>2. r.backlog \in Seq(Migrate!BacklogLines) /\ r.backlog # <<>>
    BY <1>7, DiskIs
  <2>3. /\ c.to \in Seq(Migrate!BacklogLines) /\ c.to # <<>>
        /\ \A n \in Migrate!Listed(r.backlog) : \E m \in Migrate!Listed(c.to) : c.to[m].id = r.backlog[n].id
    BY <1>7, <2>2, RepairedIs
  <2> HIDE DEF e
  <2>4. e \in Disks
    BY <1>5, <2>1, <2>3 DEF Disks
  <2>5. /\ e.slot = d.slot /\ e.working = d.working /\ e.backlog = c.to /\ e.board = d.board
        /\ e.detail = d.detail
    BY <2>1
  <2>6. SlotsBut(r, e, Taken(r)) /\ (Carried(r, d) => Carried(r, e))
    BY <1>4, <2>5 DEF SlotsBut, Carried
  <2>7. c.to # None
    BY <2>3, NoneIs
  <2>8. Migrate!BacklogOf(r) = r.backlog /\ Migrate!BacklogOf(e) = c.to
    BY <1>7, <2>5, <2>7 DEF Migrate!BacklogOf
  <2>9. BacklogKept(r, e)
    BY <2>3, <2>8 DEF BacklogKept
  <2>10. r.working # None => Carried(r, e)
    BY <1>4, <1>7, <2>6
  <2>20. Repairing(r, e, t)
    BY <1>1, <1>2, <1>4, <2>4, <2>5, <2>6, <2>9, <2>10 DEF Repairing
  <2>21. Boarded(e)
    <3>1. SameOccupants(d, e)
      BY <2>5 DEF SameOccupants
    <3> QED
      BY <2>5, <3>1, BoardedStays
  <2> QED
    BY <1>1, <2>4, <2>20, <2>21 DEF e, t
<1>8. CASE c.file = "working" /\ c.to = None /\ 1 = Len(p)
  <2>1. e = [working |-> None, slot |-> d.slot, backlog |-> d.backlog, board |-> d.board, detail |-> d.detail]
    BY <1>8, AppliedIs
  <2>2. t = <<>>
    BY <1>1, <1>8
  <2> HIDE DEF e
  <2>4. e \in Disks
    BY <1>5, <2>1 DEF Disks
  <2>5. /\ e.slot = d.slot /\ e.working = None /\ e.backlog = d.backlog /\ e.board = d.board
        /\ e.detail = d.detail
    BY <2>1
  <2>6. SlotsBut(r, e, Taken(r)) /\ (Carried(r, d) => Carried(r, e))
    BY <1>4, <2>5 DEF SlotsBut, Carried
  <2>7. BacklogKept(r, e)
    BY <1>4, <2>5 DEF BacklogKept, Migrate!BacklogOf
  <2>8. r.working # None => Carried(r, e)
    BY <1>4, <1>8, <2>6
  <2>20. Repairing(r, e, t)
    BY <1>1, <1>2, <1>4, <2>2, <2>4, <2>5, <2>6, <2>7, <2>8 DEF Repairing
  <2>21. Boarded(e)
    <3>1. SameOccupants(d, e)
      BY <2>5 DEF SameOccupants
    <3> QED
      BY <2>5, <3>1, BoardedStays
  <2> QED
    BY <1>1, <2>4, <2>20, <2>21 DEF e, t
<1>9. \/ /\ c.file = "slot" /\ c.to = r.working /\ r.working # None /\ c.at \in Slots
         /\ (r.slot[c.at] = None \/ c.at \in Taken(r))
      \/ c.file = "backlog" /\ r.backlog # None /\ c.to = Migrate!Repaired(r.backlog)
      \/ c.file = "working" /\ c.to = None /\ 1 = Len(p)
  BY <1>3 DEF RepairStep, c
<1> QED
  BY <1>1, <1>6, <1>7, <1>8, <1>9 DEF t

LEMMA VersionApplied ==
  ASSUME NEW r \in Disks, NEW d \in Disks, NEW p \in Seq(Changes), p # <<>>, Versioning(r, d, p)
  PROVE  Applied(d, Head(p)) \in Disks /\ Versioning(r, Applied(d, Head(p)), Tail(p))
<1> DEFINE c == p[1]
           t == Tail(p)
           e == Applied(d, c)
           id(s) == r.slot[s].item.id
           fold(s) == Migrate!foldWorkingBody(r, s)
           Folded == {s \in Migrate!Occupied(r) : Migrate!Folds(r, s)}
<1>1. /\ Len(p) \in Nat /\ 1 \in DOMAIN p /\ Head(p) = c /\ t \in Seq(Changes)
      /\ \A i \in DOMAIN t : i \in Nat /\ i >= 1 /\ i + 1 \in DOMAIN p /\ t[i] = p[i + 1]
      /\ \A j \in DOMAIN p : j # 1 => j - 1 \in DOMAIN t /\ t[j - 1] = p[j]
      /\ t # <<>> => 1 \in DOMAIN t
  BY TailIs
<1> HIDE DEF t
<1>2. /\ ~ Migrate!Refused(r) /\ r.board = None /\ SameOccupants(r, d) /\ d.working = r.working /\ DetailsKept(r, d)
      /\ \A i \in DOMAIN p : VersionStep(r, p, i)
      /\ \A i, j \in DOMAIN p : i < j /\ p[j].file = "detail" => Writing(p[i])
      /\ (c.file = "board" /\ d.board = None) \/ d.board = Migrate!Board(r)
      /\ \A s \in Folded : (\E i \in DOMAIN p : p[i] = FoldOf(r, s)) \/ d.detail[id(s)] = fold(s)
      /\ Writing(c) => SlotsKept(r, d) /\ BacklogKept(r, d)
  BY DEF Versioning
<1>3. /\ d.working \in Migrate!WorkingFiles \cup {None} /\ d.slot \in [Slots -> Migrate!WorkingFiles \cup {None}]
      /\ d.backlog \in Seq(Migrate!BacklogLines) \cup {None} /\ d.board \in Seq(Migrate!Cards) \cup {None}
      /\ d.detail \in [CardIds -> (SUBSET Notes) \cup {None}]
      /\ d.working # None => d.working.item # None
      /\ d.backlog # None => d.backlog # <<>>
  BY DiskIs
<1>4. ASSUME NEW s \in Folded
      PROVE  /\ id(s) \in CardIds /\ fold(s) \in SUBSET Notes /\ fold(s) # None
             /\ r.detail[id(s)] # None => r.detail[id(s)] \subseteq fold(s)
             /\ FoldOf(r, s).file = "detail" /\ FoldOf(r, s).at = id(s) /\ FoldOf(r, s).to = fold(s)
  <2>1. s \in Migrate!Occupied(r) /\ Migrate!Folds(r, s)
    OBVIOUS
  <2>2. /\ id(s) \in CardIds /\ fold(s) \in SUBSET Notes
        /\ r.detail[id(s)] # None => r.detail[id(s)] \subseteq fold(s)
    BY <1>2, <2>1, FoldIs
  <2> QED
    BY <2>2, NoneIs DEF FoldOf, Migrate!Change
<1>5. ASSUME NEW s \in Folded, NEW z \in Folded, id(s) = id(z)
      PROVE  s = z
  <2>1. Migrate!IsInjective([k \in DOMAIN Migrate!Board(r) |-> Migrate!Board(r)[k].id])
    BY <1>2 DEF Migrate!Refused
  <2>2. \A x, y \in Migrate!Occupied(r) : r.slot[x].item.id = r.slot[y].item.id => x = y
    BY <2>1, BoardIs
  <2> QED
    BY <1>5, <2>2
<1>6. \A s \in Folded : s \in Migrate!Occupied(r) /\ Migrate!Folds(r, s)
  OBVIOUS
<1>7. \A s \in Migrate!Occupied(r) : Migrate!Folds(r, s) => s \in Folded
  OBVIOUS
<1> HIDE DEF Folded, fold
\* What is left to do.
<1>8. ASSUME NEW i \in DOMAIN t
      PROVE  /\ i + 1 # 1 /\ i + 1 \in DOMAIN p /\ t[i] = p[i + 1] /\ VersionStep(r, t, i) /\ t[i].file # "board"
  <2>1. i \in Nat /\ i + 1 # 1 /\ i + 1 \in DOMAIN p /\ t[i] = p[i + 1]
    BY <1>1
  <2>2. VersionStep(r, p, i + 1)
    BY <1>2, <2>1
  <2>3. \/ \E s \in Migrate!Occupied(r) : Migrate!Folds(r, s) /\ t[i] = FoldOf(r, s)
        \/ t[i] = Migrate!Change("backlog", None, None)
        \/ \E s \in Slots : t[i] = Migrate!Change("slot", s, None)
    BY <2>1, <2>2 DEF VersionStep
  <2>4. VersionStep(r, t, i)
    BY <2>3 DEF VersionStep
  <2>5. t[i].file # "board"
    BY <2>3 DEF FoldOf, Migrate!Change
  <2> QED
    BY <2>1, <2>4, <2>5
<1>9. ASSUME NEW i \in DOMAIN t, NEW j \in DOMAIN t, i < j, t[j].file = "detail"
      PROVE  Writing(t[i])
  <2>1. i \in Nat /\ j \in Nat
    BY <1>1
  <2>2. i + 1 < j + 1
    BY <1>9, <2>1
  <2>3. i + 1 \in DOMAIN p /\ j + 1 \in DOMAIN p /\ t[i] = p[i + 1] /\ t[j] = p[j + 1]
    BY <1>8
  <2> QED
    BY <1>2, <1>9, <2>2, <2>3
<1>10. t # <<>> /\ Writing(t[1]) => Writing(c)
  <2> SUFFICES ASSUME t # <<>>, Writing(t[1])
               PROVE  Writing(c)
    OBVIOUS
  <2>1. 1 \in DOMAIN t /\ 1 + 1 \in DOMAIN p /\ t[1] = p[1 + 1] /\ t[1].file # "board"
    BY <1>1, <1>8
  <2>2. p[1 + 1].file = "detail"
    BY <2>1 DEF Writing
  <2>3. 1 < 1 + 1
    OBVIOUS
  <2> QED
    BY <1>1, <1>2, <2>1, <2>2, <2>3
<1>11. ASSUME NEW s \in Folded, \E i \in DOMAIN p : p[i] = FoldOf(r, s), c # FoldOf(r, s)
       PROVE  \E i \in DOMAIN t : t[i] = FoldOf(r, s)
  <2>1. PICK i \in DOMAIN p : p[i] = FoldOf(r, s)
    BY <1>11
  <2>2. i # 1
    BY <1>11, <2>1
  <2>3. i - 1 \in DOMAIN t /\ t[i - 1] = p[i]
    BY <1>1, <2>2
  <2> QED
    BY <2>1, <2>3
<1>12. VersionStep(r, p, 1)
  BY <1>1, <1>2
<1> HIDE DEF c
<1>13. ASSUME SameOccupants(r, e), e.working = d.working, DetailsKept(r, e), e.board = Migrate!Board(r),
              \A s \in Folded : (\E i \in DOMAIN t : t[i] = FoldOf(r, s)) \/ e.detail[id(s)] = fold(s),
              Writing(c) => SlotsKept(r, e) /\ BacklogKept(r, e)
       PROVE  Versioning(r, e, t)
  <2> HIDE DEF e
  <2>1. e.working = r.working
    BY <1>2, <1>13
  <2>2. t # <<>> /\ Writing(t[1]) => SlotsKept(r, e) /\ BacklogKept(r, e)
    BY <1>10, <1>13
  <2>3. \A s \in Migrate!Occupied(r) : Migrate!Folds(r, s) =>
          (\E i \in DOMAIN t : t[i] = FoldOf(r, s)) \/ e.detail[r.slot[s].item.id] = Migrate!foldWorkingBody(r, s)
    BY <1>7, <1>13 DEF fold
  <2> QED
    BY <1>2, <1>8, <1>9, <1>13, <2>1, <2>2, <2>3 DEF Versioning
\* The change that is made: the board,
<1>14. CASE c = Migrate!Change("board", None, Migrate!Board(r))
  <2>1. c.file = "board" /\ c.to = Migrate!Board(r)
    BY <1>14 DEF Migrate!Change
  <2>2. e = [working |-> d.working, slot |-> d.slot, backlog |-> d.backlog, board |-> c.to, detail |-> d.detail]
    BY <2>1, AppliedIs
  <2>3. c.to \in Seq(Migrate!Cards)
    BY <2>1, BoardIs
  <2> HIDE DEF e
  <2>4. e \in Disks
    BY <1>3, <2>2, <2>3 DEF Disks
  <2>5. /\ e.working = d.working /\ e.slot = d.slot /\ e.backlog = d.backlog /\ e.board = c.to
        /\ e.detail = d.detail
    BY <2>2
  <2>6. SameOccupants(r, e) /\ DetailsKept(r, e) /\ (SlotsKept(r, d) => SlotsKept(r, e)) /\ (BacklogKept(r, d) => BacklogKept(r, e))
    BY <1>2, <2>5 DEF SameOccupants, DetailsKept, SlotsKept, BacklogKept, Migrate!BacklogOf
  <2>7. ASSUME NEW s \in Folded
        PROVE  (\E i \in DOMAIN t : t[i] = FoldOf(r, s)) \/ e.detail[id(s)] = fold(s)
    <3>1. c # FoldOf(r, s)
      BY <1>4, <2>1
    <3> QED
      BY <1>2, <1>11, <2>5, <3>1
  <2>8. Versioning(r, e, t)
    BY <1>2, <1>13, <2>1, <2>5, <2>6, <2>7
  <2> QED
    BY <1>1, <2>4, <2>8 DEF e, t
\* a detail file,
<1>15. CASE \E z \in Folded : c = FoldOf(r, z)
  <2>1. PICK z \in Folded : c = FoldOf(r, z)
    BY <1>15
  <2>2. c.file = "detail" /\ c.at = id(z) /\ c.to = fold(z) /\ id(z) \in CardIds
    BY <1>4, <2>1
  <2> DEFINE dt == [d.detail EXCEPT ![c.at] = c.to]
  <2>3. e = [working |-> d.working, slot |-> d.slot, backlog |-> d.backlog, board |-> d.board, detail |-> dt]
    BY <2>2, AppliedIs
  <2>4. /\ dt \in [CardIds -> (SUBSET Notes) \cup {None}] /\ dt[id(z)] = fold(z)
        /\ \A n \in CardIds : n # id(z) => dt[n] = d.detail[n]
    <3>1. fold(z) \in SUBSET Notes
      BY <1>4
    <3> HIDE DEF id
    <3> QED
      BY <1>3, <2>2, <3>1
  <2> HIDE DEF e, dt
  <2>5. e \in Disks
    BY <1>3, <2>3, <2>4 DEF Disks
  <2>6. /\ e.working = d.working /\ e.slot = d.slot /\ e.backlog = d.backlog /\ e.board = d.board
        /\ e.detail = dt
    BY <2>3
  <2>7. e.board = Migrate!Board(r)
    BY <1>2, <2>2, <2>6
  <2>8. DetailsKept(r, e)
    <3> SUFFICES ASSUME NEW n \in CardIds, r.detail[n] # None
                 PROVE  e.detail[n] # None /\ r.detail[n] \subseteq e.detail[n]
      BY DEF DetailsKept
    <3>1. CASE n = id(z)
      BY <1>4, <2>4, <2>6, <3>1
    <3>2. CASE n # id(z)
      BY <1>2, <2>4, <2>6, <3>2 DEF DetailsKept
    <3> QED
      BY <3>1, <3>2
  <2>9. SameOccupants(r, e) /\ (SlotsKept(r, d) => SlotsKept(r, e)) /\ (BacklogKept(r, d) => BacklogKept(r, e))
    BY <1>2, <2>6 DEF SameOccupants, SlotsKept, BacklogKept, Migrate!BacklogOf
  <2>10. ASSUME NEW s \in Folded
         PROVE  (\E i \in DOMAIN t : t[i] = FoldOf(r, s)) \/ e.detail[id(s)] = fold(s)
    <3>1. CASE s = z
      BY <2>4, <2>6, <3>1
    <3>2. CASE s # z
      <4>1. id(s) # id(z) /\ id(s) \in CardIds /\ FoldOf(r, s).at = id(s)
        BY <1>4, <1>5, <3>2
      <4>2. c # FoldOf(r, s)
        BY <2>2, <4>1
      <4>3. e.detail[id(s)] = d.detail[id(s)]
        BY <2>4, <2>6, <4>1
      <4> QED
        BY <1>2, <1>11, <4>2, <4>3
    <3> QED
      BY <3>1, <3>2
  <2>11. Versioning(r, e, t)
    BY <1>2, <1>13, <2>6, <2>7, <2>8, <2>9, <2>10
  <2> QED
    BY <1>1, <2>5, <2>11 DEF e, t
\* or an old file that goes.
<1>16. CASE \/ c = Migrate!Change("backlog", None, None)
            \/ \E s \in Slots : c = Migrate!Change("slot", s, None)
  <2>1. c.to = None /\ (c.file = "backlog" \/ (c.file = "slot" /\ c.at \in Slots))
    BY <1>16 DEF Migrate!Change
  <2>2. ~ Writing(c)
    BY <2>1 DEF Writing
  <2>3. /\ e \in Disks /\ e.working = d.working /\ e.board = d.board /\ e.detail = d.detail
        /\ SameOccupants(r, e)
    <3>1. CASE c.file = "backlog"
      <4>1. e = [working |-> d.working, slot |-> d.slot, backlog |-> c.to, board |-> d.board, detail |-> d.detail]
        BY <3>1, AppliedIs
      <4> HIDE DEF e
      <4> QED
        BY <1>2, <1>3, <2>1, <4>1 DEF Disks, SameOccupants
    <3>2. CASE c.file = "slot" /\ c.at \in Slots
      <4> DEFINE sl == [d.slot EXCEPT ![c.at] = c.to]
      <4>1. e = [working |-> d.working, slot |-> sl, backlog |-> d.backlog, board |-> d.board, detail |-> d.detail]
        BY <3>2, AppliedIs
      <4>2. /\ sl \in [Slots -> Migrate!WorkingFiles \cup {None}]
            /\ \A s \in Slots : sl[s] # None => sl[s] = d.slot[s]
        BY <1>3, <2>1, <3>2
      <4> HIDE DEF e, sl
      <4>3. e \in Disks /\ e.slot = sl
        BY <1>3, <4>1, <4>2 DEF Disks
      <4>4. SameOccupants(r, e)
        BY <1>2, <4>2, <4>3 DEF SameOccupants
      <4> QED
        BY <4>1, <4>3, <4>4
    <3> QED
      BY <2>1, <3>1, <3>2
  <2> HIDE DEF e
  <2>4. e.board = Migrate!Board(r)
    BY <1>2, <2>1, <2>3
  <2>5. DetailsKept(r, e)
    BY <1>2, <2>3 DEF DetailsKept
  <2>6. ASSUME NEW s \in Folded
        PROVE  (\E i \in DOMAIN t : t[i] = FoldOf(r, s)) \/ e.detail[id(s)] = fold(s)
    <3>1. c # FoldOf(r, s)
      BY <1>4, <2>1
    <3> QED
      BY <1>2, <1>11, <2>3, <3>1
  <2>7. Versioning(r, e, t)
    BY <1>13, <2>2, <2>3, <2>4, <2>5, <2>6
  <2> QED
    BY <1>1, <2>3, <2>7 DEF e, t
<1>17. \/ c = Migrate!Change("board", None, Migrate!Board(r))
       \/ \E z \in Folded : c = FoldOf(r, z)
       \/ c = Migrate!Change("backlog", None, None)
       \/ \E s \in Slots : c = Migrate!Change("slot", s, None)
  BY <1>7, <1>12 DEF VersionStep, c
<1> QED
  BY <1>14, <1>15, <1>16, <1>17

\* A file is written: what is left to do is as before, and nothing is lost.
LEMMA ApplyKeeps ==
  ASSUME MigrateInvariant, Migrate!Apply
  PROVE  MigrateInvariant'
<1>1. /\ disk \in Disks /\ plan \in Seq(Changes) /\ plan # <<>> /\ step \in {"repair", "version"}
      /\ read \in Disks /\ Boarded(disk)
      /\ step = "repair" => Repairing(read, disk, plan)
      /\ step = "version" => Versioning(read, disk, plan)
  BY DEF MigrateInvariant, Migrate!Apply
<1>2. /\ plan' = Tail(plan) /\ step' = (IF plan' = <<>> THEN "idle" ELSE step) /\ read' = read
      /\ disk' = Applied(disk, Head(plan))
  BY DEF Migrate!Apply, Applied
<1>3. plan' \in Seq(Changes)
  BY <1>1, <1>2, TailIs
<1>4. ASSUME step = "repair"
      PROVE  disk' \in Disks /\ Repairing(read, disk', plan') /\ Lossless(read, disk') /\ Boarded(disk')
  <2>1. disk' \in Disks /\ Repairing(read, disk', plan') /\ Boarded(disk')
    BY <1>1, <1>2, <1>4, RepairApplied
  <2> QED
    BY <1>1, <2>1, RepairingHolds
<1>5. ASSUME step = "version"
      PROVE  disk' \in Disks /\ Versioning(read, disk', plan') /\ Lossless(read, disk') /\ Boarded(disk')
  <2>1. disk' \in Disks /\ Versioning(read, disk', plan')
    BY <1>1, <1>2, <1>5, VersionApplied
  <2> QED
    BY <1>1, <1>3, <2>1, VersioningHolds
<1>6. Lossless(read, disk')
  BY <1>1, <1>4, <1>5
<1>7. Migrate!NothingDropped'
  BY <1>2, <1>6 DEF Migrate!NothingDropped, Lossless
<1> QED
  BY <1>1, <1>2, <1>3, <1>4, <1>5, <1>7 DEF MigrateInvariant

\* At first nothing has been read.
LEMMA MigrateStarts == Migrate!Init => MigrateInvariant
<1> SUFFICES ASSUME Migrate!Init PROVE MigrateInvariant
  OBVIOUS
<1>1. disk \in InitDisks /\ step = "idle" /\ read = None /\ plan = <<>>
  BY DEF Migrate!Init
<1>2. /\ disk \in [working : Migrate!WorkingFiles \cup {None}, slot : [Slots -> Migrate!WorkingFiles \cup {None}],
                   backlog : Seq(Migrate!BacklogLines) \cup {None}, board : {None},
                   detail : [CardIds -> (SUBSET Notes) \cup {None}]]
      /\ disk.working # None => disk.working.item # None
      /\ disk.backlog # None => disk.backlog # <<>>
  BY <1>1, MigrateAssumption DEF Migrate!MigrateAssumption
<1>3. disk \in Disks /\ Boarded(disk)
  BY <1>2 DEF Disks, Boarded
<1> QED
  BY <1>1, <1>3 DEF MigrateInvariant, Migrate!NothingDropped

LEMMA MigrateSteps == MigrateInvariant /\ [Migrate!Next]_(Migrate!vars) => MigrateInvariant'
<1> SUFFICES ASSUME MigrateInvariant, [Migrate!Next]_(Migrate!vars) PROVE MigrateInvariant'
  OBVIOUS
<1>1. CASE UNCHANGED Migrate!vars
  <2>1. disk' = disk /\ step' = step /\ read' = read /\ plan' = plan
    BY <1>1 DEF Migrate!vars
  <2> QED
    BY <2>1 DEF MigrateInvariant, Migrate!NothingDropped
<1>2. CASE Migrate!Next
  BY <1>2, PersonKeeps, RunRepairKeeps, RunVersionKeeps, ApplyKeeps, AbandonKeeps DEF Migrate!Next
<1> QED
  BY <1>1, <1>2

\* Migrate: at every point of a run, what it read is where the changes it has
\* still to make leave it.
THEOREM MigrateIsSafe == Migrate!Spec => []MigrateInvariant
BY MigrateStarts, MigrateSteps, PTL DEF Migrate!Spec

LEMMA ToolsAreMigrate == ToolsSpec => Migrate!Spec
<1>1. ToolsInit => Migrate!Init
  BY DEF ToolsInit
<1>2. [ToolsNext]_tools => [Migrate!Next]_(Migrate!vars)
  <2> SUFFICES ASSUME [ToolsNext]_tools PROVE [Migrate!Next]_(Migrate!vars)
    OBVIOUS
  <2>1. migration = Migrate!vars /\ migration' = Migrate!vars'
    BY DEF migration, Migrate!vars
  <2>2. CASE ToolsNext
    BY <2>1, <2>2 DEF ToolsNext
  <2>3. CASE UNCHANGED tools
    BY <2>1, <2>3 DEF tools
  <2> QED
    BY <2>2, <2>3
<1> QED
  BY <1>1, <1>2, PTL DEF ToolsSpec, Migrate!Spec

\* Migrate: whatever the directory, wherever its runs are interrupted, and
\* whatever a person writes by hand meanwhile, every item that was read is in
\* some file, and on the board once there is one; so is every note, but those
\* in the one working file that a repair beside a board writes over.
THEOREM MigrationsKeepAll == ToolsSpec => []NothingDropped
<1>1. MigrateInvariant => NothingDropped
  BY DEF MigrateInvariant, NothingDropped
<1> QED
  BY <1>1, ToolsAreMigrate, MigrateIsSafe, PTL

=============================================================================
