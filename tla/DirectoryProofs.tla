---------------------------- MODULE DirectoryProofs ----------------------------
(***************************************************************************)
(* What the operations of Directory do to a directory, for every           *)
(* declaration of stages, every number of ids and every item: lemmas, and  *)
(* what they rest on.                                                      *)
(*                                                                         *)
(* The induction theorems of the library take an operator, which no        *)
(* prover at hand instantiates.  Induction is stated here of a set of      *)
(* numbers instead, from the well-foundedness of the order on them, which  *)
(* is enough for a batch of items, whatever its length.                    *)
(***************************************************************************)
EXTENDS Directory, FiniteSetTheorems, SequenceTheorems, WellFoundedInduction, TLAPS

-----------------------------------------------------------------------------
(* Induction.                                                              *)

\* A set of natural numbers that is not empty has a least element.
LEMMA LeastNumber ==
  ASSUME NEW T \in SUBSET Nat, T # {}
  PROVE  \E n \in T : \A m \in T : n <= m
<1> DEFINE R == {pair \in Nat \X Nat : pair[1] < pair[2]}
<1>1. IsWellFoundedOn(R, Nat)
  BY NatLessThanWellFounded DEF OpToRel
<1>2. \A x, y : <<x, y>> \in R <=> x \in Nat /\ y \in Nat /\ x < y
  OBVIOUS
<1> HIDE DEF R
<1>3. PICK n \in T : \A m \in T : ~ (<<m, n>> \in R)
  BY <1>1, WFMin
<1>4. \A m \in T : ~ (m < n)
  BY <1>2, <1>3
<1> QED
  BY <1>4

\* A set of numbers with the first of a range in it, and with each the next,
\* has the whole range in it.
LEMMA Induction ==
  ASSUME NEW N \in Nat, NEW T,
         0 \in T,
         \A n \in 0..(N - 1) : n \in T => n + 1 \in T
  PROVE  \A n \in 0..N : n \in T
<1> SUFFICES ASSUME NEW k \in 0..N, k \notin T
             PROVE  FALSE
  OBVIOUS
<1> DEFINE Rest == {n \in 0..N : n \notin T}
<1>1. PICK n \in Rest : \A m \in Rest : n <= m
  <2>1. Rest \in SUBSET Nat /\ k \in Rest
    OBVIOUS
  <2> HIDE DEF Rest
  <2> QED
    BY <2>1, LeastNumber
<1>2. n # 0 /\ n \in 0..N
  BY <1>1
<1>3. n - 1 \in 0..(N - 1)
  BY <1>2
<1>4. n - 1 \in T
  BY <1>1, <1>3
<1>5. (n - 1) + 1 \in T
  BY <1>3, <1>4
<1> QED
  BY <1>1, <1>2, <1>5

-----------------------------------------------------------------------------
(* Sequences.                                                              *)

\* What the sequence without its i-th element is, place by place.
LEMMA RemoveAtPlaces ==
  ASSUME NEW S, NEW s \in Seq(S), NEW i \in 1..Len(s)
  PROVE  /\ RemoveAt(s, i) \in Seq(S)
         /\ Len(RemoveAt(s, i)) = Len(s) - 1
         /\ \A j \in 1..(Len(s) - 1) : RemoveAt(s, i)[j] = IF j < i THEN s[j] ELSE s[j + 1]
<1>0. Len(s) \in Nat
  OBVIOUS
<1> DEFINE a == SubSeq(s, 1, i - 1)
           b == SubSeq(s, i + 1, Len(s))
<1>1. a \in Seq(S) /\ Len(a) = i - 1 /\ \A j \in 1..(i - 1) : a[j] = s[j]
  OBVIOUS
<1>2. b \in Seq(S) /\ Len(b) = Len(s) - i /\ \A j \in 1..(Len(s) - i) : b[j] = s[i + j]
  OBVIOUS
<1>3. RemoveAt(s, i) = a \o b
  BY DEF RemoveAt
<1> HIDE DEF a, b
<1>c. /\ a \o b \in Seq(S) /\ Len(a \o b) = Len(a) + Len(b)
      /\ \A j \in 1..(Len(a) + Len(b)) : (a \o b)[j] = IF j <= Len(a) THEN a[j] ELSE b[j - Len(a)]
  BY <1>1, <1>2, ConcatProperties
<1>4. a \o b \in Seq(S) /\ Len(a \o b) = Len(s) - 1
  BY <1>1, <1>2, <1>c
<1>5. ASSUME NEW j \in 1..(Len(s) - 1)
      PROVE  (a \o b)[j] = IF j < i THEN s[j] ELSE s[j + 1]
  <2>1. (a \o b)[j] = IF j <= Len(a) THEN a[j] ELSE b[j - Len(a)]
    BY <1>1, <1>2, <1>c
  <2>2. CASE j < i
    BY <1>1, <2>1, <2>2
  <2>3. CASE j >= i
    <3>1. j - (i - 1) \in 1..(Len(s) - i)
      BY <2>3
    <3>2. b[j - (i - 1)] = s[i + (j - (i - 1))]
      BY <1>2, <3>1
    <3> QED
      BY <1>1, <2>1, <2>3, <3>2
  <2>4. j < i \/ j >= i
    BY <1>0
  <2> QED
    BY <2>2, <2>3, <2>4
<1> QED
  BY <1>3, <1>4, <1>5

\* And with one more element at the i-th place.
LEMMA InsertAtPlaces ==
  ASSUME NEW S, NEW s \in Seq(S), NEW i \in 1..(Len(s) + 1), NEW e \in S
  PROVE  /\ InsertAt(s, i, e) \in Seq(S)
         /\ Len(InsertAt(s, i, e)) = Len(s) + 1
         /\ \A j \in 1..(Len(s) + 1) : InsertAt(s, i, e)[j] = IF j < i THEN s[j]
                                                             ELSE IF j = i THEN e ELSE s[j - 1]
<1>0. Len(s) \in Nat
  OBVIOUS
<1> DEFINE a == SubSeq(s, 1, i - 1)
           b == SubSeq(s, i, Len(s))
           c == <<e>>
<1>1. a \in Seq(S) /\ Len(a) = i - 1 /\ \A j \in 1..(i - 1) : a[j] = s[j]
  OBVIOUS
<1>2. b \in Seq(S) /\ Len(b) = Len(s) - i + 1 /\ \A j \in 1..(Len(s) - i + 1) : b[j] = s[i + j - 1]
  OBVIOUS
<1>3. c \in Seq(S) /\ Len(c) = 1 /\ c[1] = e
  OBVIOUS
<1>4. InsertAt(s, i, e) = (a \o c) \o b
  BY DEF InsertAt
<1> HIDE DEF a, b, c
<1>c. /\ a \o c \in Seq(S) /\ Len(a \o c) = Len(a) + Len(c)
      /\ \A j \in 1..(Len(a) + Len(c)) : (a \o c)[j] = IF j <= Len(a) THEN a[j] ELSE c[j - Len(a)]
  BY <1>1, <1>3, ConcatProperties
<1>5. a \o c \in Seq(S) /\ Len(a \o c) = i
  BY <1>0, <1>1, <1>3, <1>c
<1>6. \A j \in 1..i : (a \o c)[j] = IF j <= Len(a) THEN a[j] ELSE c[j - Len(a)]
  BY <1>0, <1>1, <1>3, <1>c
<1> DEFINE ac == a \o c
<1>d. /\ (a \o c) \o b \in Seq(S) /\ Len((a \o c) \o b) = Len(a \o c) + Len(b)
      /\ \A j \in 1..(Len(a \o c) + Len(b)) :
           ((a \o c) \o b)[j] = IF j <= Len(a \o c) THEN (a \o c)[j] ELSE b[j - Len(a \o c)]
  <2>1. ac \in Seq(S)
    BY <1>5
  <2> HIDE DEF ac
  <2>2. /\ ac \o b \in Seq(S) /\ Len(ac \o b) = Len(ac) + Len(b)
        /\ \A j \in 1..(Len(ac) + Len(b)) : (ac \o b)[j] = IF j <= Len(ac) THEN ac[j] ELSE b[j - Len(ac)]
    BY <1>2, <2>1, ConcatProperties
  <2> QED
    BY <2>2 DEF ac
<1>7. \A j \in 1..i : (a \o c)[j] = IF j < i THEN s[j] ELSE e
  <2> SUFFICES ASSUME NEW j \in 1..i
               PROVE  (a \o c)[j] = IF j < i THEN s[j] ELSE e
    OBVIOUS
  <2>1. (a \o c)[j] = IF j <= i - 1 THEN a[j] ELSE c[j - (i - 1)]
    BY <1>1, <1>6
  <2>2. CASE j < i
    BY <1>0, <1>1, <2>1, <2>2
  <2>3. CASE j = i
    BY <1>0, <1>3, <2>1, <2>3
  <2>4. j < i \/ j = i
    BY <1>0
  <2> QED
    BY <2>2, <2>3, <2>4
<1>8. (a \o c) \o b \in Seq(S) /\ Len((a \o c) \o b) = Len(s) + 1
  BY <1>0, <1>2, <1>5, <1>d
<1>9. ASSUME NEW j \in 1..(Len(s) + 1)
      PROVE  ((a \o c) \o b)[j] = IF j < i THEN s[j] ELSE IF j = i THEN e ELSE s[j - 1]
  <2>1. ((a \o c) \o b)[j] = IF j <= Len(a \o c) THEN (a \o c)[j] ELSE b[j - Len(a \o c)]
    BY <1>0, <1>2, <1>5, <1>d
  <2>2. CASE j <= i
    BY <1>5, <1>7, <2>1, <2>2
  <2>3. CASE j > i
    <3>1. j - i \in 1..(Len(s) - i + 1)
      BY <2>3
    <3>2. b[j - i] = s[i + (j - i) - 1]
      BY <1>2, <3>1
    <3> QED
      BY <1>5, <2>1, <2>3, <3>2
  <2>4. j <= i \/ j > i
    BY <1>0
  <2> QED
    BY <2>2, <2>3, <2>4
<1> QED
  BY <1>4, <1>8, <1>9

\* Taking an element out of a sequence that has it once leaves the others, once.
LEMMA RemoveOnce ==
  ASSUME NEW S, NEW s \in Seq(S), IsInjective(s), NEW e, Contains(s, e),
         NEW t, t = RemoveAt(s, PlaceOf(s, e))
  PROVE  /\ t \in Seq(S)
         /\ Len(t) = Len(s) - 1
         /\ IsInjective(t)
         /\ \A x : Contains(t, x) <=> Contains(s, x) /\ x # e
<1> DEFINE i == PlaceOf(s, e)
<1>1. Len(s) \in Nat /\ DOMAIN s = 1..Len(s)
  OBVIOUS
<1>2. i \in 1..Len(s) /\ s[i] = e
  <2>1. \E j \in DOMAIN s : s[j] = e
    BY <1>1 DEF Contains
  <2> QED
    BY <1>1, <2>1 DEF PlaceOf
<1> HIDE DEF i
<1>3. t = RemoveAt(s, i)
  BY DEF i
<1>4. /\ t \in Seq(S)
      /\ Len(t) = Len(s) - 1
      /\ \A j \in 1..(Len(s) - 1) : t[j] = IF j < i THEN s[j] ELSE s[j + 1]
  BY <1>2, <1>3, RemoveAtPlaces
<1>5. DOMAIN t = 1..(Len(s) - 1)
  BY <1>1, <1>4
<1>6. IsInjective(t)
  <2> SUFFICES ASSUME NEW j \in 1..(Len(s) - 1), NEW k \in 1..(Len(s) - 1), t[j] = t[k]
               PROVE  j = k
    BY <1>5 DEF IsInjective
  <2> DEFINE at(n) == IF n < i THEN n ELSE n + 1
  <2>1. at(j) \in DOMAIN s /\ at(k) \in DOMAIN s /\ s[at(j)] = s[at(k)]
    BY <1>1, <1>2, <1>4, SMTT(30)
  <2>2. at(j) = at(k)
    BY <2>1 DEF IsInjective
  <2> QED
    BY <1>1, <1>2, <2>2
<1>7. ASSUME NEW x, Contains(t, x)
      PROVE  Contains(s, x) /\ x # e
  <2>1. PICK j \in 1..(Len(s) - 1) : t[j] = x
    BY <1>1, <1>4, <1>7 DEF Contains
  <2> DEFINE k == IF j < i THEN j ELSE j + 1
  <2>2. k \in 1..Len(s) /\ k # i /\ s[k] = x
    BY <1>1, <1>2, <1>4, <2>1
  <2> HIDE DEF k
  <2>3. x # e
    BY <1>1, <1>2, <2>2 DEF IsInjective
  <2> QED
    BY <2>2, <2>3 DEF Contains
<1>8. ASSUME NEW x, Contains(s, x), x # e
      PROVE  Contains(t, x)
  <2>1. PICK j \in 1..Len(s) : s[j] = x
    BY <1>8 DEF Contains
  <2>2. j # i
    BY <1>2, <1>8, <2>1
  <2> DEFINE k == IF j < i THEN j ELSE j - 1
  <2>3. k \in 1..(Len(s) - 1) /\ t[k] = x
    BY <1>1, <1>2, <1>4, <2>1, <2>2
  <2> HIDE DEF k
  <2> QED
    BY <1>1, <1>4, <2>3 DEF Contains
<1> QED
  BY <1>4, <1>6, <1>7, <1>8

\* Putting in an element a sequence has not leaves the others, and that, once.
LEMMA InsertOnce ==
  ASSUME NEW S, NEW s \in Seq(S), IsInjective(s), NEW e \in S, ~ Contains(s, e),
         NEW i \in 1..(Len(s) + 1), NEW t, t = InsertAt(s, i, e)
  PROVE  /\ t \in Seq(S)
         /\ Len(t) = Len(s) + 1
         /\ IsInjective(t)
         /\ \A x : Contains(t, x) <=> Contains(s, x) \/ x = e
<1>1. Len(s) \in Nat /\ DOMAIN s = 1..Len(s)
  OBVIOUS
<1>2. /\ t \in Seq(S)
      /\ Len(t) = Len(s) + 1
      /\ \A j \in 1..(Len(s) + 1) : t[j] = IF j < i THEN s[j] ELSE IF j = i THEN e ELSE s[j - 1]
  BY InsertAtPlaces, SMTT(30)
<1>3. DOMAIN t = 1..(Len(s) + 1)
  BY <1>1, <1>2
<1>4. \A j \in 1..Len(s) : s[j] # e
  BY DEF Contains
<1> DEFINE at(n) == IF n < i THEN n ELSE n - 1
<1>5. \A j \in 1..(Len(s) + 1) : j # i => at(j) \in 1..Len(s) /\ t[j] = s[at(j)]
  BY <1>1, <1>2
<1>6. t[i] = e
  BY <1>1, <1>2
<1>7. IsInjective(t)
  <2> SUFFICES ASSUME NEW j \in 1..(Len(s) + 1), NEW k \in 1..(Len(s) + 1), t[j] = t[k]
               PROVE  j = k
    BY <1>3 DEF IsInjective
  <2>1. CASE j = i \/ k = i
    BY <1>4, <1>5, <1>6, <2>1
  <2>2. CASE j # i /\ k # i
    <3>1. at(j) \in DOMAIN s /\ at(k) \in DOMAIN s /\ s[at(j)] = s[at(k)]
      BY <1>1, <1>5, <2>2
    <3>2. at(j) = at(k)
      BY <3>1 DEF IsInjective
    <3> QED
      BY <1>1, <2>2, <3>2
  <2> QED
    BY <2>1, <2>2
<1>8. ASSUME NEW x, Contains(t, x)
      PROVE  Contains(s, x) \/ x = e
  <2>1. PICK j \in 1..(Len(s) + 1) : t[j] = x
    BY <1>1, <1>2, <1>8 DEF Contains
  <2>2. CASE j = i
    BY <1>6, <2>1, <2>2
  <2>3. CASE j # i
    <3>1. at(j) \in 1..Len(s) /\ s[at(j)] = x
      BY <1>5, <2>1, <2>3
    <3> QED
      BY <3>1 DEF Contains
  <2> QED
    BY <2>2, <2>3
<1>9. ASSUME NEW x, Contains(s, x)
      PROVE  Contains(t, x)
  <2>1. PICK j \in 1..Len(s) : s[j] = x
    BY <1>9 DEF Contains
  <2> DEFINE k == IF j < i THEN j ELSE j + 1
  <2>2. k \in 1..(Len(s) + 1) /\ t[k] = x
    BY <1>1, <1>2, <2>1
  <2> HIDE DEF k
  <2> QED
    BY <1>1, <1>2, <2>2 DEF Contains
<1>10. Contains(t, e)
  BY <1>1, <1>2, <1>6 DEF Contains
<1> QED
  BY <1>2, <1>7, <1>8, <1>9, <1>10

-----------------------------------------------------------------------------
(* A board: its items, and the run of each stage.                          *)

\* An item of the board is in the run of one stage, the one it is said to be on.
LEMMA StageIsOne ==
  ASSUME NEW b \in BoardFile, Grouped(b), NEW id \in Ids, b.item[id] # None
  PROVE  /\ StageOf(b, id) \in StageSet
         /\ \A t \in StageSet : Contains(b.run[t], id) <=> t = StageOf(b, id)
<1>1. PICK s \in StageSet : \A t \in StageSet : Contains(b.run[t], id) <=> t = s
  BY DEF Grouped
<1>2. Contains(b.run[s], id)
  BY <1>1
<1>3. StageOf(b, id) \in StageSet /\ Contains(b.run[StageOf(b, id)], id)
  BY <1>2 DEF StageOf
<1>4. StageOf(b, id) = s
  BY <1>1, <1>3
<1> QED
  BY <1>1, <1>3, <1>4

\* A board is made of its four fields.
LEMMA BoardFields ==
  ASSUME NEW item \in [Ids -> Item \cup {None}], NEW run \in [StageSet -> Seq(Ids)],
         NEW next \in Ids, NEW wip \in [StageSet -> Nat]
  PROVE  [item |-> item, run |-> run, next |-> next, wip |-> wip] \in BoardFile
BY DEF BoardFile

\* RemoveItem takes one item out, and leaves every other where it was.
LEMMA RemoveItemSound ==
  ASSUME NEW b \in BoardFile, Grouped(b), NEW id \in Ids, b.item[id] # None,
         NEW c, c = RemoveItem(b, id)
  PROVE  /\ c \in BoardFile
         /\ Grouped(c)
         /\ \A x \in Ids : c.item[x] = IF x = id THEN None ELSE b.item[x]
         /\ c.next = b.next
         /\ c.wip = b.wip
         /\ \A s \in StageSet : \/ s # StageOf(b, id) /\ c.run[s] = b.run[s]
                                \/ s = StageOf(b, id) /\ Len(c.run[s]) = Len(b.run[s]) - 1
         /\ \A s \in StageSet, x \in Ids : Contains(c.run[s], x) <=> Contains(b.run[s], x) /\ x # id
<1> DEFINE st  == StageOf(b, id)
           old == b.run[st]
           new == RemoveAt(old, PlaceOf(old, id))
           run == [b.run EXCEPT ![st] = new]
           item == [b.item EXCEPT ![id] = None]
<1>1. st \in StageSet /\ \A t \in StageSet : Contains(b.run[t], id) <=> t = st
  BY StageIsOne
<1>2. /\ b.item \in [Ids -> Item \cup {None}] /\ b.run \in [StageSet -> Seq(Ids)]
      /\ b.next \in Ids /\ b.wip \in [StageSet -> Nat]
      /\ b = [item |-> b.item, run |-> b.run, next |-> b.next, wip |-> b.wip]
  BY DEF BoardFile
<1>3. old \in Seq(Ids) /\ IsInjective(old) /\ Contains(old, id)
  BY <1>1, <1>2 DEF Grouped
<1>4. c = [item |-> item, run |-> run, next |-> b.next, wip |-> b.wip]
  BY <1>2 DEF RemoveItem
<1> HIDE DEF st
<1>5. /\ new \in Seq(Ids)
      /\ Len(new) = Len(old) - 1
      /\ IsInjective(new)
      /\ \A x : Contains(new, x) <=> Contains(old, x) /\ x # id
  BY <1>3, RemoveOnce
<1> HIDE DEF new
<1>6. run \in [StageSet -> Seq(Ids)] /\ item \in [Ids -> Item \cup {None}]
  BY <1>1, <1>2, <1>5
<1>7. \A s \in StageSet : run[s] = IF s = st THEN new ELSE b.run[s]
  BY <1>1, <1>2
<1>8. \A x \in Ids : item[x] = IF x = id THEN None ELSE b.item[x]
  BY <1>2
<1>9. \A s \in StageSet, x \in Ids : Contains(run[s], x) <=> Contains(b.run[s], x) /\ x # id
  BY <1>1, <1>5, <1>7
<1> HIDE DEF run, item, old
<1>10. c \in BoardFile /\ c.item = item /\ c.run = run /\ c.next = b.next /\ c.wip = b.wip
  BY <1>2, <1>4, <1>6 DEF BoardFile
<1>11. Grouped(c)
  <2>1. \A s \in StageSet : IsInjective(run[s])
    BY <1>5, <1>7 DEF Grouped
  <2>2. \A s \in StageSet, x \in Ids : Contains(run[s], x) => item[x] # None
    BY <1>8, <1>9 DEF Grouped
  <2>3. ASSUME NEW x \in Ids, item[x] # None
        PROVE  \E s \in StageSet : \A t \in StageSet : Contains(run[t], x) <=> t = s
    <3>1. x # id /\ b.item[x] # None
      BY <1>8, <2>3
    <3>2. PICK s \in StageSet : \A t \in StageSet : Contains(b.run[t], x) <=> t = s
      BY <3>1 DEF Grouped
    <3> QED
      BY <1>9, <3>1, <3>2
  <2> QED
    BY <1>10, <2>1, <2>2, <2>3 DEF Grouped
<1>12. \A s \in StageSet : \/ s # st /\ c.run[s] = b.run[s]
                           \/ s = st /\ Len(c.run[s]) = Len(b.run[s]) - 1
  BY <1>5, <1>7, <1>10 DEF old
<1>13. \A x \in Ids : c.item[x] = IF x = id THEN None ELSE b.item[x]
  BY <1>8, <1>10
<1> QED
  BY <1>9, <1>10, <1>11, <1>12, <1>13 DEF st

\* InsertItem puts one item in, and leaves every other where it was.
LEMMA InsertItemSound ==
  ASSUME NEW b \in BoardFile, Grouped(b), NEW s \in StageSet, NEW id \in Ids, b.item[id] = None,
         NEW index \in 0..Len(b.run[s]), NEW it \in Item,
         NEW c, c = InsertItem(b, s, index, id, it)
  PROVE  /\ c \in BoardFile
         /\ Grouped(c)
         /\ \A x \in Ids : c.item[x] = IF x = id THEN it ELSE b.item[x]
         /\ c.next = b.next
         /\ c.wip = b.wip
         /\ \A t \in StageSet : \/ t # s /\ c.run[t] = b.run[t]
                                \/ t = s /\ Len(c.run[t]) = Len(b.run[t]) + 1
<1> DEFINE old == b.run[s]
           new == InsertAt(old, index + 1, id)
           run == [b.run EXCEPT ![s] = new]
           item == [b.item EXCEPT ![id] = it]
<1>1. /\ b.item \in [Ids -> Item \cup {None}] /\ b.run \in [StageSet -> Seq(Ids)]
      /\ b.next \in Ids /\ b.wip \in [StageSet -> Nat]
      /\ b = [item |-> b.item, run |-> b.run, next |-> b.next, wip |-> b.wip]
  BY DEF BoardFile
<1>2. \A t \in StageSet : ~ Contains(b.run[t], id)
  BY DEF Grouped
<1>3. old \in Seq(Ids) /\ IsInjective(old) /\ ~ Contains(old, id) /\ index + 1 \in 1..(Len(old) + 1)
  BY <1>1, <1>2 DEF Grouped
<1>4. c = [item |-> item, run |-> run, next |-> b.next, wip |-> b.wip]
  BY <1>1 DEF InsertItem
<1>5. /\ new \in Seq(Ids)
      /\ Len(new) = Len(old) + 1
      /\ IsInjective(new)
      /\ \A x : Contains(new, x) <=> Contains(old, x) \/ x = id
  BY <1>3, InsertOnce
<1> HIDE DEF new
<1>6. run \in [StageSet -> Seq(Ids)] /\ item \in [Ids -> Item \cup {None}]
  BY <1>1, <1>5
<1>7. \A t \in StageSet : run[t] = IF t = s THEN new ELSE b.run[t]
  BY <1>1
<1>8. \A x \in Ids : item[x] = IF x = id THEN it ELSE b.item[x]
  BY <1>1
<1>9. \A t \in StageSet, x \in Ids : Contains(run[t], x) <=> IF x = id THEN t = s ELSE Contains(b.run[t], x)
  BY <1>2, <1>5, <1>7
<1> HIDE DEF run, item, old
<1>10. c \in BoardFile /\ c.item = item /\ c.run = run /\ c.next = b.next /\ c.wip = b.wip
  BY <1>1, <1>4, <1>6 DEF BoardFile
<1>11. it # None
  BY NoneAssumption
<1>12. Grouped(c)
  <2>1. \A t \in StageSet : IsInjective(run[t])
    BY <1>5, <1>7 DEF Grouped
  <2>2. \A t \in StageSet, x \in Ids : Contains(run[t], x) => item[x] # None
    BY <1>8, <1>9, <1>11 DEF Grouped
  <2>3. ASSUME NEW x \in Ids, item[x] # None
        PROVE  \E u \in StageSet : \A t \in StageSet : Contains(run[t], x) <=> t = u
    <3>1. CASE x = id
      BY <1>9, <3>1
    <3>2. CASE x # id
      <4>1. PICK u \in StageSet : \A t \in StageSet : Contains(b.run[t], x) <=> t = u
        BY <1>8, <2>3, <3>2 DEF Grouped
      <4> QED
        BY <1>9, <3>2, <4>1
    <3> QED
      BY <3>1, <3>2
  <2> QED
    BY <1>10, <2>1, <2>2, <2>3 DEF Grouped
<1>13. \A t \in StageSet : \/ t # s /\ c.run[t] = b.run[t]
                           \/ t = s /\ Len(c.run[t]) = Len(b.run[t]) + 1
  BY <1>5, <1>7, <1>10 DEF old
<1>14. \A x \in Ids : c.item[x] = IF x = id THEN it ELSE b.item[x]
  BY <1>8, <1>10
<1> QED
  BY <1>10, <1>12, <1>13, <1>14

-----------------------------------------------------------------------------
(* The order of a board's items.                                           *)

\* In a sequence that has each element once, an element has one place.
LEMMA PlaceIs ==
  ASSUME NEW S, NEW s \in Seq(S), IsInjective(s), NEW k \in 1..Len(s), NEW e, s[k] = e
  PROVE  PlaceOf(s, e) = k
<1>1. DOMAIN s = 1..Len(s)
  OBVIOUS
<1>2. PlaceOf(s, e) \in 1..Len(s) /\ s[PlaceOf(s, e)] = e
  BY <1>1 DEF PlaceOf
<1> QED
  BY <1>1, <1>2 DEF IsInjective

\* And so it has the element there.
LEMMA PlaceHas ==
  ASSUME NEW S, NEW s \in Seq(S), NEW e, Contains(s, e)
  PROVE  PlaceOf(s, e) \in 1..Len(s) /\ s[PlaceOf(s, e)] = e
<1>1. DOMAIN s = 1..Len(s) /\ \E j \in DOMAIN s : s[j] = e
  BY DEF Contains
<1> QED
  BY <1>1 DEF PlaceOf

\* Taking one element out leaves the others in their order.
LEMMA RemoveOrder ==
  ASSUME NEW S, NEW s \in Seq(S), IsInjective(s), NEW e, Contains(s, e),
         NEW t, t = RemoveAt(s, PlaceOf(s, e)),
         NEW x, Contains(s, x), x # e, NEW y, Contains(s, y), y # e
  PROVE  PlaceOf(t, x) < PlaceOf(t, y) <=> PlaceOf(s, x) < PlaceOf(s, y)
<1> DEFINE i == PlaceOf(s, e)
<1>1. i \in 1..Len(s) /\ s[i] = e
  BY PlaceHas
<1>2. t \in Seq(S) /\ IsInjective(t)
  BY RemoveOnce
<1> HIDE DEF i
<1>3. /\ Len(t) = Len(s) - 1
      /\ \A j \in 1..(Len(s) - 1) : t[j] = IF j < i THEN s[j] ELSE s[j + 1]
  <2>1. t = RemoveAt(s, i)
    BY DEF i
  <2> QED
    BY <1>1, <2>1, RemoveAtPlaces
<1>4. ASSUME NEW z, Contains(s, z), z # e
      PROVE  /\ PlaceOf(s, z) \in 1..Len(s) /\ PlaceOf(s, z) # i
             /\ PlaceOf(t, z) = IF PlaceOf(s, z) < i THEN PlaceOf(s, z) ELSE PlaceOf(s, z) - 1
  <2> DEFINE k == PlaceOf(s, z)
             n == IF k < i THEN k ELSE k - 1
  <2>1. k \in 1..Len(s) /\ s[k] = z
    BY <1>4, PlaceHas
  <2> HIDE DEF k
  <2>2. k # i
    BY <1>1, <1>4, <2>1
  <2>3. n \in 1..(Len(s) - 1) /\ t[n] = z
    BY <1>1, <1>3, <2>1, <2>2
  <2> HIDE DEF n
  <2>4. n \in 1..Len(t)
    BY <1>3, <2>3
  <2>5. PlaceOf(t, z) = n
    BY <1>2, <2>3, <2>4, PlaceIs
  <2> QED
    BY <2>1, <2>2, <2>5 DEF k, n
<1>5. PICK p \in 1..Len(s), q \in 1..Len(s) :
        /\ p = PlaceOf(s, x) /\ p # i /\ PlaceOf(t, x) = IF p < i THEN p ELSE p - 1
        /\ q = PlaceOf(s, y) /\ q # i /\ PlaceOf(t, y) = IF q < i THEN q ELSE q - 1
  BY <1>4
<1> QED
  BY <1>1, <1>5

\* So does putting one in.
LEMMA InsertOrder ==
  ASSUME NEW S, NEW s \in Seq(S), IsInjective(s), NEW e \in S, ~ Contains(s, e),
         NEW i \in 1..(Len(s) + 1), NEW t, t = InsertAt(s, i, e),
         NEW x, Contains(s, x), NEW y, Contains(s, y)
  PROVE  PlaceOf(t, x) < PlaceOf(t, y) <=> PlaceOf(s, x) < PlaceOf(s, y)
<1>1. IsInjective(t)
  BY InsertOnce
<1>2. /\ t \in Seq(S)
      /\ Len(t) = Len(s) + 1
      /\ \A j \in 1..(Len(s) + 1) : t[j] = IF j < i THEN s[j] ELSE IF j = i THEN e ELSE s[j - 1]
  <2>1. /\ InsertAt(s, i, e) \in Seq(S)
        /\ Len(InsertAt(s, i, e)) = Len(s) + 1
        /\ \A j \in 1..(Len(s) + 1) : InsertAt(s, i, e)[j] = IF j < i THEN s[j]
                                                            ELSE IF j = i THEN e ELSE s[j - 1]
    BY InsertAtPlaces, SMTT(30)
  <2> QED
    BY <2>1
<1>3. ASSUME NEW z, Contains(s, z)
      PROVE  /\ PlaceOf(s, z) \in 1..Len(s)
             /\ PlaceOf(t, z) = IF PlaceOf(s, z) < i THEN PlaceOf(s, z) ELSE PlaceOf(s, z) + 1
  <2> DEFINE k == PlaceOf(s, z)
             n == IF k < i THEN k ELSE k + 1
  <2>1. k \in 1..Len(s) /\ s[k] = z
    BY <1>3, PlaceHas
  <2> HIDE DEF k
  <2>2. n \in 1..(Len(s) + 1) /\ t[n] = z
    BY <1>2, <2>1
  <2> HIDE DEF n
  <2>3. n \in 1..Len(t)
    BY <1>2, <2>2
  <2>4. PlaceOf(t, z) = n
    BY <1>1, <1>2, <2>2, <2>3, PlaceIs
  <2> QED
    BY <2>1, <2>4 DEF k, n
<1>4. PICK p \in 1..Len(s), q \in 1..Len(s) :
        /\ p = PlaceOf(s, x) /\ PlaceOf(t, x) = IF p < i THEN p ELSE p + 1
        /\ q = PlaceOf(s, y) /\ PlaceOf(t, y) = IF q < i THEN q ELSE q + 1
  BY <1>3
<1> QED
  BY <1>4

\* The items of both boards that are not among the movers are on the stages
\* they were, in the order they were.
KeepsOrder(b, c, movers) ==
  \A i, j \in Ids \ movers :
    b.item[i] # None /\ b.item[j] # None /\ c.item[i] # None /\ c.item[j] # None =>
      /\ StageOf(c, i) = StageOf(b, i)
      /\ Precedes(c, i, j) <=> Precedes(b, i, j)

\* Runs that are as they were keep it.
LEMMA SameRunsKeepOrder ==
  ASSUME NEW b, NEW c, c.run = b.run, NEW movers
  PROVE  KeepsOrder(b, c, movers)
<1>1. \A i : StageOf(c, i) = StageOf(b, i)
  BY DEF StageOf
<1> QED
  BY <1>1 DEF KeepsOrder, Precedes

\* More movers ask for less.
LEMMA KeepsOrderButFor ==
  ASSUME NEW b, NEW c, NEW some, NEW more, some \subseteq more, KeepsOrder(b, c, some)
  PROVE  KeepsOrder(b, c, more)
<1>1. \A i \in Ids \ more : i \in Ids \ some
  OBVIOUS
<1> QED
  BY <1>1 DEF KeepsOrder

\* Two boards that keep it in turn keep it, if what is on the last was on the
\* one between.
LEMMA KeepsOrderTwice ==
  ASSUME NEW a, NEW b, NEW c, NEW movers, KeepsOrder(a, b, movers), KeepsOrder(b, c, movers),
         \A i \in Ids \ movers : a.item[i] # None /\ c.item[i] # None => b.item[i] # None
  PROVE  KeepsOrder(a, c, movers)
<1> SUFFICES ASSUME NEW i \in Ids \ movers, NEW j \in Ids \ movers,
                    a.item[i] # None, a.item[j] # None, c.item[i] # None, c.item[j] # None
             PROVE  /\ StageOf(c, i) = StageOf(a, i)
                    /\ Precedes(c, i, j) <=> Precedes(a, i, j)
  BY DEF KeepsOrder
<1>1. b.item[i] # None /\ b.item[j] # None
  OBVIOUS
<1>2. StageOf(b, i) = StageOf(a, i) /\ (Precedes(b, i, j) <=> Precedes(a, i, j))
  BY <1>1 DEF KeepsOrder
<1>3. StageOf(c, i) = StageOf(b, i) /\ (Precedes(c, i, j) <=> Precedes(b, i, j))
  BY <1>1 DEF KeepsOrder
<1> QED
  BY <1>2, <1>3

\* A board keeps the order of another if it does stage by stage.
LEMMA OrderByStage ==
  ASSUME NEW b \in BoardFile, Grouped(b), NEW c \in BoardFile, Grouped(c), NEW movers,
         \A s \in StageSet, x \in Ids \ movers :
           b.item[x] # None /\ c.item[x] # None => (Contains(c.run[s], x) <=> Contains(b.run[s], x)),
         \A s \in StageSet, x, y \in Ids \ movers :
           /\ Contains(b.run[s], x) /\ Contains(b.run[s], y)
           /\ Contains(c.run[s], x) /\ Contains(c.run[s], y)
           => (PlaceOf(c.run[s], x) < PlaceOf(c.run[s], y) <=> PlaceOf(b.run[s], x) < PlaceOf(b.run[s], y))
  PROVE  KeepsOrder(b, c, movers)
<1> SUFFICES ASSUME NEW i \in Ids \ movers, NEW j \in Ids \ movers,
                    b.item[i] # None, b.item[j] # None, c.item[i] # None, c.item[j] # None
             PROVE  /\ StageOf(c, i) = StageOf(b, i)
                    /\ Precedes(c, i, j) <=> Precedes(b, i, j)
  BY DEF KeepsOrder
<1>1. ASSUME NEW x \in Ids \ movers, b.item[x] # None, c.item[x] # None
      PROVE  /\ StageOf(c, x) = StageOf(b, x) /\ StageOf(b, x) \in StageSet
             /\ Contains(b.run[StageOf(b, x)], x) /\ Contains(c.run[StageOf(b, x)], x)
  <2>1. /\ StageOf(b, x) \in StageSet
        /\ \A t \in StageSet : Contains(b.run[t], x) <=> t = StageOf(b, x)
    BY <1>1, StageIsOne
  <2>2. /\ StageOf(c, x) \in StageSet
        /\ \A t \in StageSet : Contains(c.run[t], x) <=> t = StageOf(c, x)
    BY <1>1, StageIsOne
  <2> QED
    BY <1>1, <2>1, <2>2
<1>2. PICK s \in StageSet, t \in StageSet :
        /\ s = StageOf(b, i) /\ s = StageOf(c, i) /\ t = StageOf(b, j) /\ t = StageOf(c, j)
        /\ Contains(b.run[s], i) /\ Contains(c.run[s], i)
        /\ Contains(b.run[t], j) /\ Contains(c.run[t], j)
  BY <1>1
<1>3. s = t => (PlaceOf(c.run[s], i) < PlaceOf(c.run[s], j) <=> PlaceOf(b.run[s], i) < PlaceOf(b.run[s], j))
  BY <1>2
<1> QED
  BY <1>2, <1>3 DEF Precedes

\* So taking one item out keeps the order of the others.
LEMMA RemoveKeepsOrder ==
  ASSUME NEW b \in BoardFile, Grouped(b), NEW id \in Ids, b.item[id] # None,
         NEW c, c = RemoveItem(b, id)
  PROVE  KeepsOrder(b, c, {id})
<1> DEFINE st == StageOf(b, id)
<1>1. st \in StageSet /\ \A t \in StageSet : Contains(b.run[t], id) <=> t = st
  BY StageIsOne
<1>2. /\ c \in BoardFile /\ Grouped(c)
      /\ \A s \in StageSet, x \in Ids : Contains(c.run[s], x) <=> Contains(b.run[s], x) /\ x # id
  BY RemoveItemSound
<1>3. \A s \in StageSet : b.run[s] \in Seq(Ids) /\ IsInjective(b.run[s])
  BY DEF BoardFile, Grouped
<1>4. \A s \in StageSet : c.run[s] = IF s = st THEN RemoveAt(b.run[s], PlaceOf(b.run[s], id)) ELSE b.run[s]
  <2> DEFINE old == b.run[st]
             new == RemoveAt(old, PlaceOf(old, id))
  <2>1. /\ b.item \in [Ids -> Item \cup {None}] /\ b.run \in [StageSet -> Seq(Ids)]
        /\ b = [item |-> b.item, run |-> b.run, next |-> b.next, wip |-> b.wip]
    BY DEF BoardFile
  <2>2. c = [item |-> [b.item EXCEPT ![id] = None], run |-> [b.run EXCEPT ![st] = new],
             next |-> b.next, wip |-> b.wip]
    BY <2>1 DEF RemoveItem
  <2> QED
    BY <1>1, <2>1, <2>2
<1> HIDE DEF st
<1>5. ASSUME NEW s \in StageSet, NEW x \in Ids \ {id}, NEW y \in Ids \ {id},
             Contains(b.run[s], x), Contains(b.run[s], y)
      PROVE  PlaceOf(c.run[s], x) < PlaceOf(c.run[s], y) <=> PlaceOf(b.run[s], x) < PlaceOf(b.run[s], y)
  <2>1. CASE s = st
    <3>1. Contains(b.run[s], id)
      BY <1>1, <2>1
    <3>2. c.run[s] = RemoveAt(b.run[s], PlaceOf(b.run[s], id))
      BY <1>4, <2>1
    <3> QED
      BY <1>3, <1>5, <3>1, <3>2, RemoveOrder
  <2>2. CASE s # st
    BY <1>4, <2>2
  <2> QED
    BY <2>1, <2>2
<1> QED
  BY <1>2, <1>5, OrderByStage

\* And so does putting one in.
LEMMA InsertKeepsOrder ==
  ASSUME NEW b \in BoardFile, Grouped(b), NEW s \in StageSet, NEW id \in Ids, b.item[id] = None,
         NEW index \in 0..Len(b.run[s]), NEW it \in Item,
         NEW c, c = InsertItem(b, s, index, id, it)
  PROVE  KeepsOrder(b, c, {id})
<1>1. c \in BoardFile /\ Grouped(c)
  BY InsertItemSound
<1>2. \A t \in StageSet : b.run[t] \in Seq(Ids) /\ IsInjective(b.run[t]) /\ ~ Contains(b.run[t], id)
  BY DEF BoardFile, Grouped
<1>3. \A t \in StageSet : c.run[t] = IF t = s THEN InsertAt(b.run[t], index + 1, id) ELSE b.run[t]
  <2> DEFINE new == InsertAt(b.run[s], index + 1, id)
  <2>1. /\ b.item \in [Ids -> Item \cup {None}] /\ b.run \in [StageSet -> Seq(Ids)]
        /\ b = [item |-> b.item, run |-> b.run, next |-> b.next, wip |-> b.wip]
    BY DEF BoardFile
  <2>2. c = [item |-> [b.item EXCEPT ![id] = it], run |-> [b.run EXCEPT ![s] = new],
             next |-> b.next, wip |-> b.wip]
    BY <2>1 DEF InsertItem
  <2> QED
    BY <2>1, <2>2
<1>4. index + 1 \in 1..(Len(b.run[s]) + 1)
  BY <1>2
<1>5. ASSUME NEW t \in StageSet, NEW x \in Ids \ {id}
      PROVE  Contains(c.run[t], x) <=> Contains(b.run[t], x)
  <2>1. CASE t = s
    BY <1>2, <1>3, <1>4, <2>1, InsertOnce
  <2>2. CASE t # s
    BY <1>3, <2>2
  <2> QED
    BY <2>1, <2>2
<1>6. ASSUME NEW t \in StageSet, NEW x \in Ids \ {id}, NEW y \in Ids \ {id},
             Contains(b.run[t], x), Contains(b.run[t], y)
      PROVE  PlaceOf(c.run[t], x) < PlaceOf(c.run[t], y) <=> PlaceOf(b.run[t], x) < PlaceOf(b.run[t], y)
  <2>1. CASE t = s
    BY <1>2, <1>3, <1>4, <1>6, <2>1, InsertOrder
  <2>2. CASE t # s
    BY <1>3, <2>2
  <2> QED
    BY <2>1, <2>2
<1> QED
  BY <1>1, <1>5, <1>6, OrderByStage

-----------------------------------------------------------------------------
(* A directory: its board, done.md and the detail files.                   *)

\* The parts of a directory.
LEMMA DirFields ==
  ASSUME NEW d \in Dir
  PROVE  /\ d.board \in BoardFile /\ d.done \in [Ids -> Item \cup {None}]
         /\ d.detail \in [Ids -> DetailFile \cup {None}]
         /\ d = [board |-> d.board, done |-> d.done, detail |-> d.detail]
         /\ d.board.item \in [Ids -> Item \cup {None}]
         /\ d.board.run \in [StageSet -> Seq(Ids)]
         /\ d.board.next \in Ids
         /\ d.board.wip \in [StageSet -> Nat]
         /\ d.board = [item |-> d.board.item, run |-> d.board.run,
                       next |-> d.board.next, wip |-> d.board.wip]
BY DEF Dir, BoardFile, DoneFile

\* A directory with one part of it replaced.
PutBoard(d, b)         == [d EXCEPT !.board = b]
PutLine(d, id, it)     == [d EXCEPT !.board.item[id] = it]
PutDone(d, id, it)     == [d EXCEPT !.done[id] = it]
PutDetail(d, id, file) == [d EXCEPT !.detail[id] = file]
PutBody(d, id, body)   == [d EXCEPT !.detail[id].body = body]
PutTitle(d, id, title) == [d EXCEPT !.detail[id].title = title]

\* Another board is all that PutBoard changes.
LEMMA WithBoard ==
  ASSUME NEW d \in Dir, NEW b \in BoardFile, NEW e, e = PutBoard(d, b)
  PROVE  e \in Dir /\ e.board = b /\ e.done = d.done /\ e.detail = d.detail
<1>1. e = [board |-> b, done |-> d.done, detail |-> d.detail]
  BY DEF Dir, PutBoard
<1> QED
  BY <1>1, DirFields DEF Dir, DoneFile

\* Another closed item is all that PutDone changes.
LEMMA WithDone ==
  ASSUME NEW d \in Dir, NEW id \in Ids, NEW it \in Item \cup {None},
         NEW e, e = PutDone(d, id, it)
  PROVE  e \in Dir /\ e.board = d.board /\ e.done = [d.done EXCEPT ![id] = it] /\ e.detail = d.detail
<1>1. e = [board |-> d.board, done |-> [d.done EXCEPT ![id] = it], detail |-> d.detail]
  BY DEF Dir, DoneFile, PutDone
<1> QED
  BY <1>1, DirFields DEF Dir, DoneFile

\* Another detail file is all that PutDetail changes.
LEMMA WithDetail ==
  ASSUME NEW d \in Dir, NEW id \in Ids, NEW file \in DetailFile \cup {None},
         NEW e, e = PutDetail(d, id, file)
  PROVE  e \in Dir /\ e.board = d.board /\ e.done = d.done /\ e.detail = [d.detail EXCEPT ![id] = file]
<1>1. e = [board |-> d.board, done |-> d.done, detail |-> [d.detail EXCEPT ![id] = file]]
  BY DEF Dir, DoneFile, PutDetail
<1> QED
  BY <1>1, DirFields DEF Dir, DoneFile

\* A detail file that is there is one.
LEMMA DetailIs ==
  ASSUME NEW d \in Dir, NEW id \in Ids, d.detail[id] # None
  PROVE  d.detail[id] \in DetailFile
<1>1. d.detail \in [Ids -> DetailFile \cup {None}]
  BY DirFields
<1>2. d.detail[id] \in DetailFile \cup {None}
  BY <1>1
<1> QED
  BY <1>2

\* A change of one field of a detail file is a change of the file.
LEMMA WithBody ==
  ASSUME NEW d \in Dir, NEW id \in Ids, d.detail[id] # None, NEW body \in SUBSET Notes,
         NEW e, e = PutBody(d, id, body)
  PROVE  /\ e \in Dir /\ e.board = d.board /\ e.done = d.done
         /\ e.detail = [d.detail EXCEPT ![id] = [title |-> d.detail[id].title, body |-> body]]
<1> DEFINE file == [title |-> d.detail[id].title, body |-> body]
<1>1. d.detail[id] \in DetailFile
  BY DetailIs
<1>2. d.detail[id] = [title |-> d.detail[id].title, body |-> d.detail[id].body]
      /\ d.detail[id].title \in Titles
  BY <1>1 DEF DetailFile
<1>3. file \in DetailFile /\ [d.detail[id] EXCEPT !.body = body] = file
  BY <1>2 DEF DetailFile
<1>4. e = [d EXCEPT !.detail[id] = [d.detail[id] EXCEPT !.body = body]]
  BY DEF PutBody
<1> HIDE DEF file
<1>5. e = PutDetail(d, id, file)
  BY <1>3, <1>4 DEF PutDetail
<1> QED
  BY <1>3, <1>5, WithDetail DEF file

\* PutTitle keeps the body.
LEMMA WithTitle ==
  ASSUME NEW d \in Dir, NEW id \in Ids, d.detail[id] # None, NEW title \in Titles,
         NEW e, e = PutTitle(d, id, title)
  PROVE  /\ e \in Dir /\ e.board = d.board /\ e.done = d.done
         /\ e.detail = [d.detail EXCEPT ![id] = [title |-> title, body |-> d.detail[id].body]]
<1> DEFINE file == [title |-> title, body |-> d.detail[id].body]
<1>1. d.detail[id] \in DetailFile
  BY DetailIs
<1>2. d.detail[id] = [title |-> d.detail[id].title, body |-> d.detail[id].body]
      /\ d.detail[id].body \in SUBSET Notes
  BY <1>1 DEF DetailFile
<1>3. file \in DetailFile /\ [d.detail[id] EXCEPT !.title = title] = file
  BY <1>2 DEF DetailFile
<1>4. e = [d EXCEPT !.detail[id] = [d.detail[id] EXCEPT !.title = title]]
  BY DEF PutTitle
<1> HIDE DEF file
<1>5. e = PutDetail(d, id, file)
  BY <1>3, <1>4 DEF PutDetail
<1> QED
  BY <1>3, <1>5, WithDetail DEF file

\* An item line in place of another is where that one was.
LEMMA WithLine ==
  ASSUME NEW d \in Dir, Grouped(d.board), NEW id \in Ids, d.board.item[id] # None, NEW it \in Item,
         NEW e, e = PutLine(d, id, it)
  PROVE  /\ e \in Dir /\ Grouped(e.board)
         /\ e.board.item = [d.board.item EXCEPT ![id] = it]
         /\ e.board.run = d.board.run /\ e.board.next = d.board.next /\ e.board.wip = d.board.wip
         /\ e.done = d.done /\ e.detail = d.detail
<1> DEFINE item == [d.board.item EXCEPT ![id] = it]
           b    == [item |-> item, run |-> d.board.run, next |-> d.board.next, wip |-> d.board.wip]
<1>1. item \in [Ids -> Item \cup {None}]
      /\ \A x \in Ids : item[x] = IF x = id THEN it ELSE d.board.item[x]
  BY DirFields
<1>2. e = [d EXCEPT !.board = [d.board EXCEPT !.item[id] = it]]
  BY DEF PutLine
<1>3. [d.board EXCEPT !.item[id] = it] = b
  <2> SUFFICES ASSUME NEW c \in BoardFile
               PROVE  [c EXCEPT !.item[id] = it]
                      = [item |-> [c.item EXCEPT ![id] = it], run |-> c.run, next |-> c.next, wip |-> c.wip]
    BY DirFields
  <2>1. /\ c.item \in [Ids -> Item \cup {None}]
        /\ c = [item |-> c.item, run |-> c.run, next |-> c.next, wip |-> c.wip]
    BY DEF BoardFile
  <2> QED
    BY <2>1
<1> HIDE DEF item
<1>4. b \in BoardFile
  BY <1>1, DirFields DEF BoardFile
<1>5. b.item = item /\ b.run = d.board.run /\ b.next = d.board.next /\ b.wip = d.board.wip
  OBVIOUS
<1> HIDE DEF b
<1>6. e \in Dir /\ e.board = b /\ e.done = d.done /\ e.detail = d.detail
  <2>1. e = PutBoard(d, b)
    BY <1>2, <1>3 DEF PutBoard
  <2> QED
    BY <1>4, <2>1, WithBoard
<1>7. \A x \in Ids : item[x] # None <=> d.board.item[x] # None
  BY <1>1, NoneAssumption
<1>8. Grouped(b)
  BY <1>5, <1>7 DEF Grouped
<1> QED
  BY <1>5, <1>6, <1>8 DEF item

-----------------------------------------------------------------------------
(* What an operation leaves as it was.                                     *)

\* All but one item and its detail file, in a directory that is well formed.
Same(d, e, id) ==
  /\ e \in Dir /\ Grouped(e.board)
  /\ e.board.next = d.board.next
  /\ \A x \in Ids \ {id} : /\ e.board.item[x] = d.board.item[x]
                           /\ e.done[x] = d.done[x]
                           /\ e.detail[x] = d.detail[x]

\* And where that item is.
InPlace(d, e, id) ==
  /\ Same(d, e, id)
  /\ e.board.run = d.board.run /\ e.board.wip = d.board.wip
  /\ d.board.item[id] = None <=> e.board.item[id] = None
  /\ d.done[id] = None <=> e.done[id] = None

\* An item keeps the days its schedule counts from, but for the stamp that
\* ends a pause.
Stamped(it, new, today) ==
  /\ new.created = it.created
  /\ new.tickled \in {it.tickled, today}
  /\ it.paused /\ ~ new.paused /\ new.tickler # None => new.tickled = today

\* So does the board's item of an id, if there is one before and after.
Timed(d, e, id, today) ==
  d.board.item[id] # None /\ e.board.item[id] # None =>
    Stamped(d.board.item[id], e.board.item[id], today)

\* The one of the two files of items that is not the item's home.
OtherFile(d, e, id) == IF Home(d, id) = "board" THEN e.done = d.done ELSE e.board = d.board

\* A directory that is as it was has nothing out of place.
LEMMA InPlaceReflexive ==
  ASSUME NEW d \in Dir, Grouped(d.board), NEW id \in Ids
  PROVE  InPlace(d, d, id)
BY DEF InPlace, Same

\* Two changes of one item in its place are one.
LEMMA InPlaceTransitive ==
  ASSUME NEW d, NEW e, NEW f, NEW id \in Ids, InPlace(d, e, id), InPlace(e, f, id)
  PROVE  InPlace(d, f, id)
BY DEF InPlace, Same

\* A change in place moves no item to another file.
LEMMA InPlaceHome ==
  ASSUME NEW d \in Dir, NEW id \in Ids, NEW e, InPlace(d, e, id)
  PROVE  \A x \in Ids : Home(e, x) = Home(d, x)
BY DEF InPlace, Same, Home

\* A home is the board or done.md, and has the item.
LEMMA HomeHas ==
  ASSUME NEW d \in Dir, NEW id \in Ids, Home(d, id) # None
  PROVE  /\ Home(d, id) \in {"board", "done"}
         /\ Home(d, id) = "board" <=> d.board.item[id] # None
         /\ Home(d, id) = "done" => d.done[id] # None
         /\ ItemAt(d, Home(d, id), id) \in Item
<1>1. d.board.item[id] \in Item \cup {None} /\ d.done[id] \in Item \cup {None}
  BY DirFields
<1> QED
  BY <1>1 DEF Home, ItemAt

\* An item whose home is the board is on it.
LEMMA OnBoardHas ==
  ASSUME NEW d \in Dir, NEW id \in Ids, Home(d, id) = "board"
  PROVE  d.board.item[id] # None /\ d.board.item[id] \in Item
<1>1. Home(d, id) # None
  BY NoneAssumption
<1>2. d.board.item[id] # None
  BY <1>1, HomeHas
<1> QED
  BY <1>1, <1>2, HomeHas DEF ItemAt

\* Writing an item's line again is a change in its place.
LEMMA ReplaceItemSound ==
  ASSUME NEW d \in Dir, Grouped(d.board), NEW id \in Ids, Home(d, id) # None, NEW it \in Item,
         NEW e, e = ReplaceItem(d, Home(d, id), id, it)
  PROVE  /\ InPlace(d, e, id) /\ OtherFile(d, e, id)
         /\ ItemAt(e, Home(d, id), id) = it
         /\ d.board.item[id] # None => e.board.item[id] = it
         /\ e.detail = d.detail
<1>1. it # None
  BY NoneAssumption
<1>2. CASE d.board.item[id] # None
  <2>1. Home(d, id) = "board"
    BY <1>2 DEF Home
  <2>2. e = PutLine(d, id, it)
    BY <2>1 DEF ReplaceItem, PutLine
  <2>3. /\ e \in Dir /\ Grouped(e.board)
        /\ e.board.item = [d.board.item EXCEPT ![id] = it]
        /\ e.board.run = d.board.run /\ e.board.next = d.board.next /\ e.board.wip = d.board.wip
        /\ e.done = d.done /\ e.detail = d.detail
    BY <1>2, <2>2, WithLine
  <2>4. \A x \in Ids : e.board.item[x] = IF x = id THEN it ELSE d.board.item[x]
    BY <2>3, DirFields
  <2> QED
    BY <1>1, <1>2, <2>1, <2>3, <2>4 DEF InPlace, Same, ItemAt, OtherFile
<1>3. CASE d.board.item[id] = None
  <2>1. Home(d, id) = "done" /\ d.done[id] # None
    BY <1>3, HomeHas
  <2>2. e = PutDone(d, id, it)
    BY <2>1 DEF ReplaceItem, PutDone
  <2>3. e \in Dir /\ e.board = d.board /\ e.done = [d.done EXCEPT ![id] = it] /\ e.detail = d.detail
    BY <2>2, WithDone
  <2>4. \A x \in Ids : e.done[x] = IF x = id THEN it ELSE d.done[x]
    BY <2>3, DirFields
  <2> QED
    BY <1>1, <1>3, <2>1, <2>3, <2>4 DEF InPlace, Same, ItemAt, OtherFile
<1> QED
  BY <1>2, <1>3

\* So is writing its detail file, or removing it.
LEMMA SetDetailSound ==
  ASSUME NEW d \in Dir, Grouped(d.board), NEW id \in Ids, NEW file \in DetailFile \cup {None},
         NEW e, e = PutDetail(d, id, file)
  PROVE  /\ InPlace(d, e, id)
         /\ e.board = d.board /\ e.done = d.done /\ e.detail[id] = file
<1>1. e \in Dir /\ e.board = d.board /\ e.done = d.done /\ e.detail = [d.detail EXCEPT ![id] = file]
  BY WithDetail
<1>2. \A x \in Ids : e.detail[x] = IF x = id THEN file ELSE d.detail[x]
  BY <1>1, DirFields
<1> QED
  BY <1>1, <1>2 DEF InPlace, Same

\* So is another body, with the file's title kept.
LEMMA SetBodySound ==
  ASSUME NEW d \in Dir, Grouped(d.board), NEW id \in Ids, d.detail[id] # None,
         NEW body \in SUBSET Notes, NEW e, e = PutBody(d, id, body)
  PROVE  /\ InPlace(d, e, id)
         /\ e.board = d.board /\ e.done = d.done
         /\ e.detail[id] # None /\ e.detail[id].body = body
         /\ e.detail[id].title = d.detail[id].title
<1> DEFINE file == [title |-> d.detail[id].title, body |-> body]
<1>1. e \in Dir /\ e.board = d.board /\ e.done = d.done /\ e.detail = [d.detail EXCEPT ![id] = file]
  BY WithBody
<1>2. file.body = body /\ file.title = d.detail[id].title
  OBVIOUS
<1> HIDE DEF file
<1>3. \A x \in Ids : e.detail[x] = IF x = id THEN file ELSE d.detail[x]
  BY <1>1, DirFields, ZenonT(60)
<1>4. file # None
  <2>1. d.detail[id] \in DetailFile
    BY DetailIs
  <2>2. file \in DetailFile
    BY <2>1 DEF DetailFile, file
  <2> QED
    BY <2>2, NoneAssumption
<1> QED
  BY <1>1, <1>2, <1>3, <1>4 DEF InPlace, Same

\* So is another title, with the file's body kept.
LEMMA SetTitleSound ==
  ASSUME NEW d \in Dir, Grouped(d.board), NEW id \in Ids, d.detail[id] # None,
         NEW title \in Titles, NEW e, e = PutTitle(d, id, title)
  PROVE  /\ InPlace(d, e, id)
         /\ e.board = d.board /\ e.done = d.done
         /\ e.detail[id] # None /\ e.detail[id].body = d.detail[id].body
         /\ e.detail[id].title = title
<1> DEFINE file == [title |-> title, body |-> d.detail[id].body]
<1>1. e \in Dir /\ e.board = d.board /\ e.done = d.done /\ e.detail = [d.detail EXCEPT ![id] = file]
  BY WithTitle
<1>2. file.body = d.detail[id].body /\ file.title = title
  OBVIOUS
<1> HIDE DEF file
<1>3. \A x \in Ids : e.detail[x] = IF x = id THEN file ELSE d.detail[x]
  BY <1>1, DirFields
<1>4. file # None
  <2>1. d.detail[id] \in DetailFile
    BY DetailIs
  <2>2. file \in DetailFile
    BY <2>1 DEF DetailFile, file
  <2> QED
    BY <2>2, NoneAssumption
<1> QED
  BY <1>1, <1>2, <1>3, <1>4 DEF InPlace, Same

-----------------------------------------------------------------------------
(* Item lines.                                                             *)

\* The fields of an item.
LEMMA ItemFields ==
  ASSUME NEW it \in Item
  PROVE  /\ it = [title |-> it.title, reason |-> it.reason, started |-> it.started,
                  created |-> it.created, tickler |-> it.tickler, dest |-> it.dest,
                  paused |-> it.paused, tickled |-> it.tickled, detail |-> it.detail]
         /\ it.title \in Titles /\ it.reason \in BOOLEAN /\ it.started \in BOOLEAN
         /\ it.created \in Nat /\ it.tickler \in Schedules \cup {None}
         /\ it.dest \in StageSet \cup {None} /\ it.paused \in BOOLEAN
         /\ it.tickled \in Nat /\ it.detail \in BOOLEAN
BY DEF Item

\* The line of an item that gets, or loses, its detail file.
LEMMA DetailField ==
  ASSUME NEW it \in Item, NEW has \in BOOLEAN, NEW new, new = [it EXCEPT !.detail = has]
  PROVE  /\ new \in Item /\ new.title = it.title /\ new.created = it.created
         /\ new.tickled = it.tickled /\ new.paused = it.paused /\ new.tickler = it.tickler
         /\ new.detail = has
BY DEF Item

\* What one field of --edit makes of a line.
LEMMA FieldSet ==
  ASSUME NEW it \in Item, NEW u \in FieldUpdate, NEW new, new = [it EXCEPT ![u.field] = u.value]
  PROVE  /\ new \in Item
         /\ u.field # "created" => new.created = it.created
         /\ u.field # "tickled" => new.tickled = it.tickled
<1>1. CASE u \in [field : {"title"}, value : Titles]
  BY <1>1 DEF Item
<1>2. CASE u \in [field : {"reason", "started", "detail", "paused"}, value : BOOLEAN]
  <2>1. u.field \in {"reason", "started", "detail", "paused"} /\ u.value \in BOOLEAN
    BY <1>2
  <2> QED
    BY <2>1 DEF Item
<1>3. CASE u \in [field : {"created", "tickled"}, value : Nat]
  BY <1>3 DEF Item
<1>4. CASE u \in [field : {"tickler"}, value : Schedules \cup {None}]
  BY <1>4 DEF Item
<1>5. CASE u \in [field : {"dest"}, value : StageSet \cup {None}]
  BY <1>5 DEF Item
<1> QED
  BY <1>1, <1>2, <1>3, <1>4, <1>5 DEF FieldUpdate

\* Pausing an item changes no other field.
LEMMA PauseField ==
  ASSUME NEW it \in Item, NEW paused \in BOOLEAN, NEW new, new = [it EXCEPT !.paused = paused]
  PROVE  /\ new \in Item /\ new.created = it.created /\ new.tickled = it.tickled
         /\ new.paused = paused /\ new.tickler = it.tickler
BY DEF Item

\* Stamping an item changes no other field.
LEMMA TickledField ==
  ASSUME NEW it \in Item, NEW day \in Nat, NEW new, new = [it EXCEPT !.tickled = day]
  PROVE  /\ new \in Item /\ new.created = it.created /\ new.tickled = day
         /\ new.paused = it.paused /\ new.tickler = it.tickler /\ new.title = it.title
BY DEF Item

-----------------------------------------------------------------------------
(* The operations that edit an item where it is.                           *)

\* A result of one of them: the violation it may accept is an orphan.
Edited(d, r, id, today) ==
  /\ InPlace(d, r.dir, id)
  /\ Timed(d, r.dir, id, today)
  /\ \A v \in r.accepts : v = <<"I9 orphan", id>>

\* The board's item of an id counts its days from where it did.
SameTimes(d, e, id) ==
  d.board.item[id] # None =>
    LET it  == d.board.item[id]
        new == e.board.item[id]
    IN /\ new.created = it.created /\ new.tickled = it.tickled
       /\ new.paused = it.paused /\ new.tickler = it.tickler

\* What e has made of d, by an edit of item id.
EditsTo(d, e, id, today) == InPlace(d, e, id) /\ Timed(d, e, id, today)

\* A note is added to those that are there.
LEMMA PreserveNotesSound ==
  ASSUME NEW d \in Dir, Grouped(d.board), NEW id \in Ids, Home(d, id) # None,
         NEW note \in Notes, NEW today \in Nat,
         NEW e \in preserveNotes(d, Home(d, id), id, note)
  PROVE  /\ EditsTo(d, e, id, today)
         /\ d.board.item[id] # None => e.board.item[id] # None
         /\ e.detail[id] # None
         /\ d.detail[id] # None => d.detail[id].body \subseteq e.detail[id].body
         /\ OtherFile(d, e, id)
         /\ \/ /\ e.board = d.board /\ e.done = d.done
               /\ d.detail[id] # None /\ e.detail[id].title = d.detail[id].title
            \/ d.detail[id] = None /\ ~ ItemAt(d, Home(d, id), id).detail
<1> DEFINE h  == Home(d, id)
           it == ItemAt(d, h, id)
<1>1. it \in Item
  BY HomeHas
<1>2. CASE it.detail /\ d.detail[id] # None
  <2> DEFINE body == d.detail[id].body \cup {note}
  <2>1. d.detail[id].body \in SUBSET Notes
    BY <1>2, DetailIs DEF DetailFile
  <2>2. e = PutBody(d, id, body)
    BY <1>2 DEF preserveNotes, PutBody
  <2> HIDE DEF body
  <2>3. body \in SUBSET Notes /\ d.detail[id].body \subseteq body
    BY <2>1 DEF body
  <2>4. /\ InPlace(d, e, id) /\ e.board = d.board /\ e.done = d.done
        /\ e.detail[id] # None /\ e.detail[id].body = body
        /\ e.detail[id].title = d.detail[id].title
    BY <1>2, <2>2, <2>3, SetBodySound
  <2> QED
    BY <1>2, <2>3, <2>4 DEF EditsTo, Timed, Stamped, OtherFile
<1>3. CASE ~ it.detail /\ d.detail[id] = None
  <2> DEFINE new  == [it EXCEPT !.detail = TRUE]
             file == [title |-> it.title, body |-> {note}]
             f    == ReplaceItem(d, h, id, new)
  <2>1. e = PutDetail(f, id, file)
    BY <1>3 DEF preserveNotes, PutDetail
  <2>2. /\ new \in Item /\ new.title = it.title /\ new.created = it.created
        /\ new.tickled = it.tickled /\ new.paused = it.paused /\ new.tickler = it.tickler
    BY <1>1, DetailField
  <2>3. file \in DetailFile
    BY <1>1, ItemFields DEF DetailFile
  <2> HIDE DEF new, file
  <2>4. /\ InPlace(d, f, id) /\ (d.board.item[id] # None => f.board.item[id] = new) /\ f.detail = d.detail
        /\ OtherFile(d, f, id)
    BY <2>2, ReplaceItemSound
  <2> HIDE DEF f
  <2>5. f \in Dir /\ Grouped(f.board)
    BY <2>4 DEF InPlace, Same
  <2>6. InPlace(f, e, id) /\ e.board = f.board /\ e.done = f.done /\ e.detail[id] = file
    BY <2>1, <2>3, <2>5, SetDetailSound
  <2>7. InPlace(d, e, id)
    BY <2>4, <2>6, InPlaceTransitive
  <2>8. d.board.item[id] # None => it = d.board.item[id]
    BY DEF Home, ItemAt
  <2>9. file # None
    BY <2>3, NoneAssumption
  <2>10. OtherFile(d, e, id)
    BY <2>4, <2>6 DEF OtherFile
  <2> QED
    BY <1>3, <2>2, <2>4, <2>6, <2>7, <2>8, <2>9, <2>10 DEF EditsTo, Timed, Stamped, InPlace
<1>4. CASE ~ (it.detail /\ d.detail[id] # None) /\ ~ (~ it.detail /\ d.detail[id] = None)
  BY <1>4 DEF preserveNotes
<1> QED
  BY <1>2, <1>3, <1>4

\* An update of one field leaves the days alone, unless it is of one.
LEMMA ApplyUpdateSound ==
  ASSUME NEW d \in Dir, NEW id \in Ids, Home(d, id) # None, NEW u \in FieldUpdate,
         NEW new \in applyUpdate(d, Home(d, id), id, u)
  PROVE  LET it == ItemAt(d, Home(d, id), id)
         IN /\ new \in Item
            /\ u.field # "created" => new.created = it.created
            /\ u.field # "tickled" => new.tickled = it.tickled
<1> DEFINE it  == ItemAt(d, Home(d, id), id)
           set == [it EXCEPT ![u.field] = u.value]
<1>1. it \in Item
  BY HomeHas
<1>2. new = set \/ new = [set EXCEPT !.paused = FALSE]
  BY DEF applyUpdate
<1> HIDE DEF it
<1>3. /\ set \in Item
      /\ u.field # "created" => set.created = it.created
      /\ u.field # "tickled" => set.tickled = it.tickled
  BY <1>1, FieldSet
<1> HIDE DEF set
<1>4. new \in Item /\ new.created = set.created /\ new.tickled = set.tickled
  BY <1>2, <1>3, PauseField
<1> QED
  BY <1>3, <1>4 DEF it

\* An update is a change in place that keeps the notes.
LEMMA StageUpdateSound ==
  ASSUME NEW d \in Dir, Grouped(d.board), NEW id \in Ids, NEW u \in FieldUpdate,
         NEW today \in Nat, NEW e \in stageUpdate(d, id, u, today)
  PROVE  /\ Home(d, id) # None
         /\ InPlace(d, e, id)
         /\ u.field \notin {"created", "tickled"} => Timed(d, e, id, today)
         /\ d.detail[id] # None =>
              e.detail[id] # None /\ e.detail[id].body = d.detail[id].body
         /\ OtherFile(d, e, id)
         /\ \/ e.detail[id] = d.detail[id]
            \/ /\ ItemAt(e, Home(d, id), id) \in Item /\ ItemAt(e, Home(d, id), id).detail
               /\ d.detail[id] # None /\ e.detail[id] # None
               /\ e.detail[id].title = ItemAt(e, Home(d, id), id).title
<1> DEFINE h  == Home(d, id)
           it == ItemAt(d, h, id)
           stamp(new) == IF it.paused /\ ~ new.paused /\ new.tickler # None
                         THEN [new EXCEPT !.tickled = today] ELSE new
           sync(f, new) == IF new.title # it.title /\ new.detail /\ f.detail[id] # None
                           THEN [f EXCEPT !.detail[id].title = new.title] ELSE f
<1>1. h # None
  BY DEF stageUpdate
<1>2. PICK new \in applyUpdate(d, h, id, u) : e = sync(ReplaceItem(d, h, id, stamp(new)), stamp(new))
  BY <1>1 DEF stageUpdate
<1> DEFINE line == stamp(new)
           f    == ReplaceItem(d, h, id, line)
<1>3. it \in Item
  BY <1>1, HomeHas
<1>4. /\ new \in Item
      /\ u.field # "created" => new.created = it.created
      /\ u.field # "tickled" => new.tickled = it.tickled
  BY <1>1, ApplyUpdateSound
<1>5. line \in Item /\ (u.field \notin {"created", "tickled"} => Stamped(it, line, today))
  <2>1. CASE it.paused /\ ~ new.paused /\ new.tickler # None
    <3>1. line = [new EXCEPT !.tickled = today]
      BY <2>1
    <3> HIDE DEF line
    <3>2. /\ line \in Item /\ line.created = new.created /\ line.tickled = today
      BY <1>4, <3>1, TickledField
    <3> HIDE DEF it
    <3> QED
      BY <1>4, <3>2 DEF Stamped
  <2>2. CASE ~ (it.paused /\ ~ new.paused /\ new.tickler # None)
    <3>1. line = new
      BY <2>2
    <3> HIDE DEF line
    <3> QED
      BY <1>4, <2>2, <3>1 DEF Stamped
  <2> QED
    BY <2>1, <2>2
<1>6. e = sync(f, line)
  BY <1>2
<1> HIDE DEF line
<1>7. /\ InPlace(d, f, id) /\ (d.board.item[id] # None => f.board.item[id] = line) /\ f.detail = d.detail
      /\ OtherFile(d, f, id) /\ ItemAt(f, h, id) = line
  BY <1>1, <1>5, ReplaceItemSound
<1> HIDE DEF f
<1>8. f \in Dir /\ Grouped(f.board)
  BY <1>7 DEF InPlace, Same
<1>9. /\ InPlace(d, e, id) /\ e.board = f.board /\ e.done = f.done
      /\ d.detail[id] # None => e.detail[id] # None /\ e.detail[id].body = d.detail[id].body
      /\ \/ e.detail[id] = d.detail[id]
         \/ line.detail /\ d.detail[id] # None /\ e.detail[id] # None /\ e.detail[id].title = line.title
  <2>1. CASE line.title # it.title /\ line.detail /\ f.detail[id] # None
    <3>1. e = PutTitle(f, id, line.title)
      BY <1>6, <2>1 DEF PutTitle
    <3>2. line.title \in Titles
      BY <1>5, ItemFields
    <3>3. /\ InPlace(f, e, id) /\ e.board = f.board /\ e.done = f.done
          /\ e.detail[id] # None /\ e.detail[id].body = f.detail[id].body
          /\ e.detail[id].title = line.title
      BY <1>8, <2>1, <3>1, <3>2, SetTitleSound
    <3> QED
      BY <1>7, <2>1, <3>3, InPlaceTransitive
  <2>2. CASE ~ (line.title # it.title /\ line.detail /\ f.detail[id] # None)
    BY <1>6, <1>7, <2>2
  <2> QED
    BY <2>1, <2>2
<1>10. d.board.item[id] # None => it = d.board.item[id]
  BY DEF Home, ItemAt
<1> HIDE DEF it
<1>11. u.field \notin {"created", "tickled"} => Timed(d, e, id, today)
  BY <1>5, <1>7, <1>9, <1>10 DEF Timed
<1>12. OtherFile(d, e, id) /\ ItemAt(e, h, id) = line
  BY <1>7, <1>9 DEF OtherFile, ItemAt
<1> QED
  BY <1>1, <1>5, <1>9, <1>11, <1>12

\* A detail file is only made where there is none.
LEMMA AttachedSound ==
  ASSUME NEW d \in Dir, Grouped(d.board), NEW id \in Ids, Home(d, id) # None,
         NEW body \in SUBSET Notes, NEW today \in Nat, NEW e \in attached(d, id, body)
  PROVE  /\ EditsTo(d, e, id, today) /\ SameTimes(d, e, id) /\ d.detail[id] = None
         /\ OtherFile(d, e, id) /\ ItemAt(e, Home(d, id), id) \in Item /\ ItemAt(e, Home(d, id), id).detail
<1> DEFINE h    == Home(d, id)
           it   == ItemAt(d, h, id)
           new  == [it EXCEPT !.detail = TRUE]
           file == [title |-> it.title, body |-> body]
           f    == ReplaceItem(d, h, id, new)
<1>1. d.detail[id] = None /\ e = PutDetail(f, id, file)
  BY DEF attached, PutDetail
<1>2. it \in Item
  BY HomeHas
<1>3. /\ new \in Item /\ new.title = it.title /\ new.created = it.created
      /\ new.tickled = it.tickled /\ new.paused = it.paused /\ new.tickler = it.tickler
  BY <1>2, DetailField
<1>d. new.detail
  BY <1>2 DEF Item
<1>4. file \in DetailFile
  BY <1>2, ItemFields DEF DetailFile
<1> HIDE DEF new, file
<1>5. /\ InPlace(d, f, id) /\ (d.board.item[id] # None => f.board.item[id] = new)
      /\ OtherFile(d, f, id) /\ ItemAt(f, h, id) = new
  BY <1>3, ReplaceItemSound
<1> HIDE DEF f
<1>6. f \in Dir /\ Grouped(f.board)
  BY <1>5 DEF InPlace, Same
<1>7. InPlace(f, e, id) /\ e.board = f.board /\ e.done = f.done
  BY <1>1, <1>4, <1>6, SetDetailSound
<1>8. InPlace(d, e, id)
  BY <1>5, <1>7, InPlaceTransitive
<1>9. d.board.item[id] # None => it = d.board.item[id]
  BY DEF Home, ItemAt
<1>10. SameTimes(d, e, id)
  BY <1>3, <1>5, <1>7, <1>9 DEF SameTimes
<1>11. Timed(d, e, id, today)
  BY <1>10 DEF SameTimes, Timed, Stamped
<1>12. OtherFile(d, e, id) /\ ItemAt(e, h, id) = new
  BY <1>5, <1>7 DEF OtherFile, ItemAt
<1> QED
  BY <1>1, <1>3, <1>d, <1>8, <1>10, <1>11, <1>12 DEF EditsTo

\* --set: a change in place that keeps the notes.
LEMMA UpdateSound ==
  ASSUME NEW d \in Dir, Grouped(d.board), NEW id \in Ids, NEW u \in FieldUpdate,
         NEW today \in Nat, NEW r \in Update(d, id, u, today)
  PROVE  /\ Home(d, id) # None /\ r.accepts = {}
         /\ InPlace(d, r.dir, id)
         /\ u.field \notin {"created", "tickled"} => Timed(d, r.dir, id, today)
         /\ d.detail[id] # None =>
              r.dir.detail[id] # None /\ r.dir.detail[id].body = d.detail[id].body
         /\ OtherFile(d, r.dir, id)
         /\ \/ r.dir.detail[id] = d.detail[id]
            \/ /\ ItemAt(r.dir, Home(d, id), id) \in Item /\ ItemAt(r.dir, Home(d, id), id).detail
               /\ d.detail[id] # None /\ r.dir.detail[id] # None
               /\ r.dir.detail[id].title = ItemAt(r.dir, Home(d, id), id).title
<1>1. PICK e \in stageUpdate(d, id, u, today) :
        r = Result(e, <<File(Home(d, id)), DetailName(id)>>, <<>>, {})
  BY DEF Update
<1>2. r.dir = e /\ r.accepts = {}
  BY <1>1 DEF Result
<1> QED
  BY <1>2, StageUpdateSound

\* --edit: a change in place.
LEMMA EditSound ==
  ASSUME NEW d \in Dir, Grouped(d.board), NEW id \in Ids, NEW u \in FieldUpdate,
         NEW body \in SUBSET Notes, NEW today \in Nat, NEW r \in Edit(d, id, u, body, today)
  PROVE  /\ Home(d, id) # None /\ r.accepts = {}
         /\ InPlace(d, r.dir, id)
         /\ u.field \notin {"created", "tickled"} => Timed(d, r.dir, id, today)
<1> DEFINE h == Home(d, id)
           bodied(e) ==
             CASE ItemAt(e, h, id).detail /\ e.detail[id] # None -> {[e EXCEPT !.detail[id].body = body]}
               [] ~ ItemAt(e, h, id).detail /\ body # {} -> attached(e, id, body)
               [] ~ ItemAt(e, h, id).detail /\ body = {} -> {e}
               [] OTHER -> {}
<1>1. PICK e \in stageUpdate(d, id, u, today) : \E f \in bodied(e) :
        r = Result(f, <<File(h), DetailName(id)>>, <<>>, {})
  BY DEF Edit
<1>f. PICK f \in bodied(e) : r = Result(f, <<File(h), DetailName(id)>>, <<>>, {})
  BY <1>1
<1>2. r.dir = f /\ r.accepts = {}
  BY <1>f DEF Result
<1>3. /\ Home(d, id) # None
      /\ InPlace(d, e, id)
      /\ u.field \notin {"created", "tickled"} => Timed(d, e, id, today)
  BY StageUpdateSound
<1>4. e \in Dir /\ Grouped(e.board) /\ Home(e, id) = h
  BY <1>3, InPlaceHome DEF InPlace, Same
<1>5. InPlace(e, f, id) /\ SameTimes(e, f, id)
  <2>1. CASE ItemAt(e, h, id).detail /\ e.detail[id] # None
    <3>1. f = PutBody(e, id, body)
      BY <2>1 DEF PutBody
    <3> QED
      BY <1>4, <2>1, <3>1, SetBodySound DEF SameTimes
  <2>2. CASE ~ ItemAt(e, h, id).detail /\ body # {}
    <3>1. f \in attached(e, id, body)
      BY <2>2
    <3> QED
      BY <1>3, <1>4, <3>1, AttachedSound DEF EditsTo
  <2>3. CASE ~ ItemAt(e, h, id).detail /\ body = {}
    <3>1. f = e
      BY <2>3
    <3> QED
      BY <1>4, <3>1, InPlaceReflexive DEF SameTimes
  <2>4. CASE ItemAt(e, h, id).detail /\ e.detail[id] = None
    BY <2>4
  <2> QED
    BY <2>1, <2>2, <2>3, <2>4
<1> HIDE DEF bodied
<1>6. InPlace(d, f, id)
  BY <1>3, <1>5, InPlaceTransitive
<1>7. d.board.item[id] # None <=> e.board.item[id] # None
  BY <1>3 DEF InPlace
<1>8. Timed(d, e, id, today) => Timed(d, f, id, today)
  BY <1>5, <1>7 DEF Timed, SameTimes, Stamped
<1> QED
  BY <1>2, <1>3, <1>6, <1>8

\* --note: a change in place that keeps the notes.
LEMMA NoteSound ==
  ASSUME NEW d \in Dir, Grouped(d.board), NEW id \in Ids, NEW note \in Notes, NEW today \in Nat,
         NEW r \in Note(d, id, note)
  PROVE  /\ Home(d, id) # None /\ r.accepts = {}
         /\ EditsTo(d, r.dir, id, today)
         /\ d.detail[id] # None =>
              r.dir.detail[id] # None /\ d.detail[id].body \subseteq r.dir.detail[id].body
         /\ OtherFile(d, r.dir, id) /\ r.dir.detail[id] # None
         /\ \/ /\ r.dir.board = d.board /\ r.dir.done = d.done
               /\ d.detail[id] # None /\ r.dir.detail[id].title = d.detail[id].title
            \/ d.detail[id] = None /\ ~ ItemAt(d, Home(d, id), id).detail
<1>1. Home(d, id) # None
  BY DEF Note
<1>2. PICK e \in preserveNotes(d, Home(d, id), id, note) :
        r = Result(e, <<DetailName(id), File(Home(d, id))>>, <<>>, {})
  BY <1>1 DEF Note
<1>3. r.dir = e /\ r.accepts = {}
  BY <1>2 DEF Result
<1> QED
  BY <1>1, <1>3, PreserveNotesSound

\* --attach: it never takes over a file that is there.
LEMMA AttachDetailSound ==
  ASSUME NEW d \in Dir, Grouped(d.board), NEW id \in Ids, NEW body \in SUBSET Notes,
         NEW today \in Nat, NEW r \in AttachDetail(d, id, body)
  PROVE  /\ Home(d, id) # None /\ r.accepts = {}
         /\ EditsTo(d, r.dir, id, today)
         /\ d.detail[id] = None
         /\ OtherFile(d, r.dir, id)
         /\ ItemAt(r.dir, Home(d, id), id) \in Item /\ ItemAt(r.dir, Home(d, id), id).detail
<1>1. Home(d, id) # None
  BY DEF AttachDetail
<1>2. PICK e \in attached(d, id, body) :
        r = Result(e, <<File(Home(d, id)), DetailName(id)>>, <<>>, {})
  BY <1>1 DEF AttachDetail
<1>3. r.dir = e /\ r.accepts = {}
  BY <1>2 DEF Result
<1> QED
  BY <1>1, <1>3, AttachedSound

\* The editor's body: a change in place.
LEMMA SetDetailBodySound ==
  ASSUME NEW d \in Dir, Grouped(d.board), NEW id \in Ids, NEW body \in SUBSET Notes,
         NEW today \in Nat, NEW r \in SetDetailBody(d, id, body)
  PROVE  Home(d, id) # None /\ r.accepts = {} /\ EditsTo(d, r.dir, id, today)
<1>1. Home(d, id) # None /\ d.detail[id] # None
  BY DEF SetDetailBody, detailFor
<1>2. r = Result([d EXCEPT !.detail[id].body = body], <<DetailName(id)>>, <<>>, {})
  BY DEF SetDetailBody
<1>3. r.dir = PutBody(d, id, body) /\ r.accepts = {}
  BY <1>2 DEF Result, PutBody
<1>4. InPlace(d, r.dir, id) /\ r.dir.board = d.board
  BY <1>1, <1>3, SetBodySound
<1> QED
  BY <1>1, <1>3, <1>4 DEF EditsTo, Timed, Stamped

\* A section: a change in place that keeps the notes.
LEMMA AppendDetailSectionSound ==
  ASSUME NEW d \in Dir, Grouped(d.board), NEW id \in Ids, NEW note \in Notes,
         NEW today \in Nat, NEW r \in AppendDetailSection(d, id, note)
  PROVE  /\ Home(d, id) # None /\ r.accepts = {}
         /\ EditsTo(d, r.dir, id, today)
         /\ r.dir.detail[id] # None /\ d.detail[id].body \subseteq r.dir.detail[id].body
<1> DEFINE body == d.detail[id].body \cup {note}
<1>1. Home(d, id) # None /\ d.detail[id] # None
  BY DEF AppendDetailSection, detailFor
<1>2. r = Result([d EXCEPT !.detail[id].body = body], <<DetailName(id)>>, <<>>, {})
  BY DEF AppendDetailSection
<1>3. r.dir = PutBody(d, id, body) /\ r.accepts = {}
  BY <1>2 DEF Result, PutBody
<1>4. body \in SUBSET Notes /\ d.detail[id].body \subseteq body
  BY <1>1, DetailIs DEF DetailFile
<1> HIDE DEF body
<1>5. /\ InPlace(d, r.dir, id) /\ r.dir.board = d.board
      /\ r.dir.detail[id] # None /\ r.dir.detail[id].body = body
  BY <1>1, <1>3, <1>4, SetBodySound
<1> QED
  BY <1>1, <1>3, <1>4, <1>5 DEF EditsTo, Timed, Stamped

\* --detach: the only violation that it accepts is the orphan it makes.
LEMMA DetachDetailSound ==
  ASSUME NEW d \in Dir, Grouped(d.board), NEW id \in Ids, NEW delete \in BOOLEAN,
         NEW today \in Nat, NEW r \in DetachDetail(d, id, delete)
  PROVE  /\ Home(d, id) # None /\ r.accepts \subseteq {<<"I9 orphan", id>>}
         /\ EditsTo(d, r.dir, id, today)
         /\ OtherFile(d, r.dir, id) /\ r.dir.detail[id] \in {d.detail[id], None}
<1> DEFINE h   == Home(d, id)
           new == [ItemAt(d, h, id) EXCEPT !.detail = FALSE]
           e   == ReplaceItem(d, h, id, new)
<1>1. h # None
  BY DEF DetachDetail
<1>2. \/ r = Result([e EXCEPT !.detail[id] = None], <<File(h)>>, <<DetailName(id)>>, {})
      \/ r = Result(e, <<File(h)>>, <<>>, {<<"I9 orphan", id>>})
  BY <1>1 DEF DetachDetail
<1>4. ItemAt(d, h, id) \in Item
  BY <1>1, HomeHas
<1>5. /\ new \in Item /\ new.created = ItemAt(d, h, id).created
      /\ new.tickled = ItemAt(d, h, id).tickled /\ new.paused = ItemAt(d, h, id).paused
      /\ new.tickler = ItemAt(d, h, id).tickler
  BY <1>4, DetailField
<1> HIDE DEF new
<1>6. /\ InPlace(d, e, id) /\ (d.board.item[id] # None => e.board.item[id] = new)
      /\ OtherFile(d, e, id) /\ e.detail = d.detail
  BY <1>1, <1>5, ReplaceItemSound
<1> HIDE DEF e
<1>3. /\ r.dir = PutDetail(e, id, None) \/ r.dir = e
      /\ r.accepts \subseteq {<<"I9 orphan", id>>}
  <2>1. CASE r = Result([e EXCEPT !.detail[id] = None], <<File(h)>>, <<DetailName(id)>>, {})
    BY <2>1 DEF Result, PutDetail
  <2>2. CASE r = Result(e, <<File(h)>>, <<>>, {<<"I9 orphan", id>>})
    BY <2>2 DEF Result
  <2> QED
    BY <1>2, <2>1, <2>2
<1>7. e \in Dir /\ Grouped(e.board)
  BY <1>6 DEF InPlace, Same
<1>8. /\ InPlace(d, r.dir, id) /\ r.dir.board = e.board /\ r.dir.done = e.done
      /\ r.dir.detail[id] \in {d.detail[id], None}
  <2>1. CASE r.dir = e
    BY <1>6, <2>1
  <2>2. CASE r.dir = PutDetail(e, id, None)
    <3>1. InPlace(e, r.dir, id) /\ r.dir.board = e.board /\ r.dir.done = e.done /\ r.dir.detail[id] = None
      BY <1>7, <2>2, SetDetailSound
    <3> QED
      BY <1>6, <3>1, InPlaceTransitive
  <2> QED
    BY <1>3, <2>1, <2>2
<1>9. d.board.item[id] # None => ItemAt(d, h, id) = d.board.item[id]
  BY DEF Home, ItemAt
<1> QED
  BY <1>1, <1>3, <1>5, <1>6, <1>8, <1>9 DEF EditsTo, Timed, Stamped, OtherFile

-----------------------------------------------------------------------------
(* The operations that move an item.                                       *)

\* A result of one of them: the item is on the board as it was, on some stage,
\* and nothing else has changed: the others keep their stages and their order.
Moved(d, r, id) ==
  /\ Same(d, r.dir, id)
  /\ r.dir.board.item[id] # None
  /\ r.dir.board.wip = d.board.wip /\ r.dir.done = d.done /\ r.dir.detail = d.detail
  /\ KeepsOrder(d.board, r.dir.board, {id})
  /\ r.accepts = {}

\* The length of a stage, and its cap, are numbers.
LEMMA RunLength ==
  ASSUME NEW b \in BoardFile, NEW s \in StageSet
  PROVE  Len(b.run[s]) \in Nat /\ b.wip[s] \in Nat
<1>1. b.run[s] \in Seq(Ids) /\ b.wip[s] \in Nat
  BY DEF BoardFile
<1> QED
  BY <1>1

\* No stage is over its cap that was not already, and none that was has grown.
KeepsCaps(d, e) ==
  /\ e.board.wip = d.board.wip
  /\ \A s \in StageSet : \/ Len(e.board.run[s]) <= Len(d.board.run[s])
                         \/ e.board.wip[s] = 0
                         \/ Len(e.board.run[s]) <= e.board.wip[s]

\* An item taken out and put on a stage is moved, and fits there if the stage
\* was not full.
LEMMA OntoSound ==
  ASSUME NEW d \in Dir, Grouped(d.board), NEW id \in Ids, d.board.item[id] # None,
         NEW s \in StageSet, NEW index \in 0..Len(RemoveItem(d.board, id).run[s]), NEW it \in Item,
         NEW r, r = Onto(d, s, index, id, it)
  PROVE  /\ Moved(d, r, id) /\ r.dir.board.item[id] = it
         /\ s = StageOf(d.board, id) \/ ~ Full(d.board, s) => KeepsCaps(d, r.dir)
<1> DEFINE b == RemoveItem(d.board, id)
           c == InsertItem(b, s, index, id, it)
<1>1. d.board \in BoardFile /\ d.board.item \in [Ids -> Item \cup {None}]
  BY DirFields
<1>2. /\ b \in BoardFile /\ Grouped(b)
      /\ \A x \in Ids : b.item[x] = IF x = id THEN None ELSE d.board.item[x]
      /\ b.next = d.board.next /\ b.wip = d.board.wip
      /\ \A t \in StageSet : \/ t # StageOf(d.board, id) /\ b.run[t] = d.board.run[t]
                             \/ t = StageOf(d.board, id) /\ Len(b.run[t]) = Len(d.board.run[t]) - 1
  BY <1>1, RemoveItemSound
<1>3. r.dir = PutBoard(d, c) /\ r.accepts = {}
  BY DEF Onto, Result, PutBoard
<1>4. index \in 0..Len(b.run[s])
  OBVIOUS
<1> HIDE DEF b
<1>5. b.item[id] = None
  BY <1>2
<1>6. /\ c \in BoardFile /\ Grouped(c)
      /\ \A x \in Ids : c.item[x] = IF x = id THEN it ELSE b.item[x]
      /\ c.next = b.next /\ c.wip = b.wip
      /\ \A t \in StageSet : \/ t # s /\ c.run[t] = b.run[t]
                             \/ t = s /\ Len(c.run[t]) = Len(b.run[t]) + 1
  BY <1>2, <1>4, <1>5, InsertItemSound
<1> HIDE DEF c
<1>7. \A x \in Ids : c.item[x] = IF x = id THEN it ELSE d.board.item[x]
  BY <1>2, <1>6
<1>8. r.dir \in Dir /\ r.dir.board = c /\ r.dir.done = d.done /\ r.dir.detail = d.detail
  BY <1>3, <1>6, WithBoard
<1>9. it # None
  BY NoneAssumption
<1>10. ASSUME s = StageOf(d.board, id) \/ ~ Full(d.board, s)
       PROVE  KeepsCaps(d, r.dir)
  <2> SUFFICES ASSUME NEW t \in StageSet
               PROVE  \/ Len(c.run[t]) <= Len(d.board.run[t])
                      \/ c.wip[t] = 0
                      \/ Len(c.run[t]) <= c.wip[t]
    BY <1>2, <1>6, <1>8 DEF KeepsCaps
  <2>1. Len(d.board.run[t]) \in Nat /\ d.board.wip[t] \in Nat
    BY <1>1, RunLength
  <2>2. c.wip[t] = d.board.wip[t]
    BY <1>2, <1>6
  <2>3. CASE t # s
    <3>1. Len(c.run[t]) = Len(b.run[t])
      BY <1>6, <2>3
    <3> QED
      BY <1>2, <2>1, <3>1
  <2>4. CASE t = s
    <3>1. Len(c.run[t]) = Len(b.run[t]) + 1
      BY <1>6, <2>4
    <3>2. CASE s = StageOf(d.board, id)
      BY <1>2, <2>1, <2>4, <3>1, <3>2
    <3>3. CASE s # StageOf(d.board, id)
      <4>1. Len(b.run[t]) = Len(d.board.run[t])
        BY <1>2, <2>4, <3>3
      <4>2. ~ (d.board.wip[t] > 0 /\ Len(d.board.run[t]) >= d.board.wip[t])
        BY <1>10, <2>4, <3>3 DEF Full
      <4> QED
        BY <2>1, <2>2, <3>1, <4>1, <4>2, SMTT(30)
    <3> QED
      BY <3>2, <3>3
  <2> QED
    BY <2>3, <2>4
<1>o. KeepsOrder(d.board, r.dir.board, {id})
  <2>1. KeepsOrder(d.board, b, {id})
    BY <1>1, RemoveKeepsOrder DEF b
  <2>2. KeepsOrder(b, c, {id})
    BY <1>2, <1>4, <1>5, InsertKeepsOrder DEF c
  <2>3. \A x \in Ids \ {id} : d.board.item[x] # None /\ c.item[x] # None => b.item[x] # None
    BY <1>2
  <2>4. KeepsOrder(d.board, c, {id})
    BY <2>1, <2>2, <2>3, KeepsOrderTwice
  <2> QED
    BY <1>8, <2>4
<1>11. Moved(d, r, id) /\ r.dir.board.item[id] = it
  BY <1>2, <1>3, <1>6, <1>7, <1>8, <1>9, <1>o DEF Moved, Same
<1> QED
  BY <1>10, <1>11

\* A stage the item is not on is, without it, as long as it was.
LEMMA WithoutIt ==
  ASSUME NEW b \in BoardFile, Grouped(b), NEW id \in Ids, b.item[id] # None, NEW s \in StageSet,
         NEW c, c = RemoveItem(b, id)
  PROVE  /\ Len(c.run[s]) \in Nat
         /\ s # StageOf(b, id) => c.run[s] = b.run[s]
<1>1. /\ c \in BoardFile
      /\ \A t \in StageSet : \/ t # StageOf(b, id) /\ c.run[t] = b.run[t]
                             \/ t = StageOf(b, id) /\ Len(c.run[t]) = Len(b.run[t]) - 1
  BY RemoveItemSound
<1>2. c.run[s] \in Seq(Ids)
  BY <1>1 DEF BoardFile
<1> QED
  BY <1>1, <1>2

\* The stages that an item is not on do not notice that it leaves.
LEMMA ElsewhereSame ==
  ASSUME NEW d \in Dir, Grouped(d.board), NEW id \in Ids, d.board.item[id] # None,
         NEW s \in StageSet
  PROVE  /\ Len(RemoveItem(d.board, id).run[s]) \in Nat
         /\ s # StageOf(d.board, id) => RemoveItem(d.board, id).run[s] = d.board.run[s]
<1>1. d.board \in BoardFile
  BY DirFields
<1> QED
  BY <1>1, WithoutIt

\* --start: a move that looks at the cap.
LEMMA StartSound ==
  ASSUME NEW d \in Dir, Grouped(d.board), NEW id \in Ids, NEW today \in Nat,
         NEW r \in startV2(d, id)
  PROVE  d.board.item[id] # None /\ Moved(d, r, id) /\ Timed(d, r.dir, id, today) /\ KeepsCaps(d, r.dir)
<1> DEFINE it  == d.board.item[id]
           new == [it EXCEPT !.started = TRUE]
<1>1. /\ Home(d, id) = "board" /\ StageOf(d.board, id) # "working" /\ ~ Full(d.board, "working")
      /\ r = Onto(d, "working", Len(d.board.run["working"]), id, new)
  BY DEF startV2
<1>2. it # None /\ it \in Item
  BY <1>1, OnBoardHas
<1>3. /\ new \in Item /\ new.created = it.created /\ new.tickled = it.tickled
      /\ new.paused = it.paused /\ new.tickler = it.tickler
  BY <1>2 DEF Item
<1> HIDE DEF new
<1>4. "working" \in StageSet
  BY DirectoryAssumption
<1>5. Len(d.board.run["working"]) \in 0..Len(RemoveItem(d.board, id).run["working"])
  BY <1>1, <1>2, <1>4, ElsewhereSame
<1>6. Moved(d, r, id) /\ r.dir.board.item[id] = new /\ KeepsCaps(d, r.dir)
  BY <1>1, <1>2, <1>3, <1>4, <1>5, OntoSound
<1> QED
  BY <1>2, <1>3, <1>6 DEF Timed, Stamped

\* --pause: a move that does not.
LEMMA PauseSound ==
  ASSUME NEW d \in Dir, Grouped(d.board), NEW id \in Ids, NEW stage \in StageSet \cup {None},
         NEW end \in BOOLEAN, NEW today \in Nat, NEW r \in pauseV2(d, id, stage, end)
  PROVE  d.board.item[id] # None /\ Moved(d, r, id) /\ Timed(d, r.dir, id, today)
<1> DEFINE dest  == IF stage = None THEN "ready" ELSE stage
           left  == RemoveItem(d.board, id).run[dest]
           index == IF end THEN Len(left) ELSE 0
<1>1. Home(d, id) = "board" /\ r = Onto(d, dest, index, id, d.board.item[id])
  BY DEF pauseV2
<1>2. d.board.item[id] # None /\ d.board.item[id] \in Item
  BY <1>1, OnBoardHas
<1>3. dest \in StageSet
  BY DirectoryAssumption
<1> HIDE DEF dest
<1>4. index \in 0..Len(RemoveItem(d.board, id).run[dest])
  BY <1>2, <1>3, ElsewhereSame
<1> HIDE DEF index
<1>5. Moved(d, r, id) /\ r.dir.board.item[id] = d.board.item[id]
  BY <1>1, <1>2, <1>3, <1>4, OntoSound
<1> QED
  BY <1>2, <1>5 DEF Timed, Stamped

\* What --move makes of a line: a schedule stays on a stage that can have one.
LEMMA MovedLine ==
  ASSUME NEW it \in Item, NEW kept \in BOOLEAN, NEW working \in BOOLEAN, NEW reason \in BOOLEAN,
         NEW new, new = [title |-> it.title, reason |-> it.reason \/ reason, started |-> it.started \/ working,
                         created |-> it.created, tickler |-> IF kept THEN it.tickler ELSE None,
                         dest |-> IF kept THEN it.dest ELSE None, paused |-> kept /\ it.paused,
                         tickled |-> it.tickled, detail |-> it.detail]
  PROVE  /\ new \in Item /\ new.created = it.created /\ new.tickled = it.tickled
         /\ ~ (it.paused /\ ~ new.paused /\ new.tickler # None)
<1>2. /\ it.title \in Titles /\ it.reason \in BOOLEAN /\ it.started \in BOOLEAN
      /\ it.created \in Nat /\ it.tickler \in Schedules \cup {None}
      /\ it.dest \in StageSet \cup {None} /\ it.paused \in BOOLEAN
      /\ it.tickled \in Nat /\ it.detail \in BOOLEAN
  BY ItemFields
<1>3. /\ (it.reason \/ reason) \in BOOLEAN /\ (it.started \/ working) \in BOOLEAN
      /\ (kept /\ it.paused) \in BOOLEAN
  OBVIOUS
<1>4. new \in Item
  BY <1>2, <1>3 DEF Item
<1>5. /\ new.created = it.created /\ new.tickled = it.tickled
      /\ new.tickler = IF kept THEN it.tickler ELSE None
  OBVIOUS
<1>6. new.paused = (kept /\ it.paused)
  OBVIOUS
<1> QED
  BY <1>4, <1>5, <1>6

\* --move: one that does.
LEMMA MoveSound ==
  ASSUME NEW d \in Dir, Grouped(d.board), NEW id \in Ids, NEW stage \in StageSet \cup {None},
         NEW index \in Nat, NEW reason \in BOOLEAN, NEW today \in Nat,
         NEW r \in moveV2(d, id, stage, index, reason)
  PROVE  d.board.item[id] # None /\ Moved(d, r, id) /\ Timed(d, r.dir, id, today) /\ KeepsCaps(d, r.dir)
<1> DEFINE from == StageOf(d.board, id)
           to   == IF stage = None THEN from ELSE stage
           it   == d.board.item[id]
           kept == to \in DOMAIN TicklerStages
           working == to = "working"
           new  == [it EXCEPT !.started = @ \/ working,
                              !.reason  = @ \/ reason,
                              !.tickler = IF kept THEN @ ELSE None,
                              !.dest    = IF kept THEN @ ELSE None,
                              !.paused  = kept /\ @]
<1>1. /\ Home(d, id) = "board" /\ index \in resolveIndexV2(RemoveItem(d.board, id).run[to])
      /\ r = Onto(d, to, index, id, new)
      /\ to = StageOf(d.board, id) \/ ~ Full(d.board, to)
  BY DEF moveV2
<1>2. it # None /\ it \in Item
  BY <1>1, OnBoardHas
<1>3. to \in StageSet
  <2>1. d.board \in BoardFile
    BY DirFields
  <2>2. from \in StageSet
    BY <1>2, <2>1, StageIsOne
  <2> HIDE DEF from
  <2> QED
    BY <2>2
<1> HIDE DEF to
<1>4. kept \in BOOLEAN /\ working \in BOOLEAN
  OBVIOUS
<1> HIDE DEF kept, working
<1>n. new = [title |-> it.title, reason |-> it.reason \/ reason, started |-> it.started \/ working,
             created |-> it.created, tickler |-> IF kept THEN it.tickler ELSE None,
             dest |-> IF kept THEN it.dest ELSE None, paused |-> kept /\ it.paused,
             tickled |-> it.tickled, detail |-> it.detail]
  <2> SUFFICES ASSUME NEW i \in Item, NEW k \in BOOLEAN, NEW w \in BOOLEAN
               PROVE  [i EXCEPT !.started = @ \/ w,
                                !.reason  = @ \/ reason,
                                !.tickler = IF k THEN @ ELSE None,
                                !.dest    = IF k THEN @ ELSE None,
                                !.paused  = k /\ @]
                      = [title |-> i.title, reason |-> i.reason \/ reason, started |-> i.started \/ w,
                         created |-> i.created, tickler |-> IF k THEN i.tickler ELSE None,
                         dest |-> IF k THEN i.dest ELSE None, paused |-> k /\ i.paused,
                         tickled |-> i.tickled, detail |-> i.detail]
    BY <1>2, <1>4, ZenonT(60)
  <2>1. PICK n : n = [i EXCEPT !.started = @ \/ w,
                               !.reason  = @ \/ reason,
                               !.tickler = IF k THEN @ ELSE None,
                               !.dest    = IF k THEN @ ELSE None,
                               !.paused  = k /\ @]
    OBVIOUS
  <2>2. n = [title |-> i.title, reason |-> i.reason \/ reason, started |-> i.started \/ w,
             created |-> i.created, tickler |-> IF k THEN i.tickler ELSE None,
             dest |-> IF k THEN i.dest ELSE None, paused |-> k /\ i.paused,
             tickled |-> i.tickled, detail |-> i.detail]
    BY <2>1 DEF Item
  <2> QED
    BY <2>1, <2>2
<1> HIDE DEF new
<1>5. /\ new \in Item /\ new.created = it.created /\ new.tickled = it.tickled
      /\ ~ (it.paused /\ ~ new.paused /\ new.tickler # None)
  BY <1>2, <1>4, <1>n, MovedLine
<1>6. index \in 0..Len(RemoveItem(d.board, id).run[to])
  BY <1>1 DEF resolveIndexV2
<1>7. Moved(d, r, id) /\ r.dir.board.item[id] = new /\ KeepsCaps(d, r.dir)
  BY <1>1, <1>2, <1>3, <1>5, <1>6, OntoSound
<1> QED
  BY <1>2, <1>5, <1>7 DEF Timed, Stamped

\* A finished item is in done.md, and nowhere else.
Finished(d, r, id) ==
  /\ Same(d, r.dir, id) /\ r.accepts = {} /\ KeepsCaps(d, r.dir)
  /\ KeepsOrder(d.board, r.dir.board, {id})
  /\ d.board.item[id] # None /\ r.dir.board.item[id] = None /\ r.dir.done[id] # None
  /\ d.detail[id] # None =>
       r.dir.detail[id] # None /\ d.detail[id].body \subseteq r.dir.detail[id].body

\* --finish: the item is closed, its notes are kept and the others' order is.
LEMMA FinishSound ==
  ASSUME NEW d \in Dir, Grouped(d.board), NEW id \in Ids, NEW note \in Notes \cup {None},
         NEW r \in finishV2(d, id, note)
  PROVE  /\ Finished(d, r, id)
         /\ \E e \in IF note = None THEN {d} ELSE preserveNotes(d, "board", id, note) : r.dir.detail = e.detail
<1> DEFINE closed(e) == [e EXCEPT !.done[id] = [e.board.item[id] EXCEPT !.tickler = None,
                                                                        !.dest    = None],
                                  !.board = RemoveItem(@, id)]
<1>1. PICK e \in IF note = None THEN {d} ELSE preserveNotes(d, "board", id, note) :
        r = Result(closed(e), <<DetailName(id), File("done"), File("board")>>, <<>>, {})
  BY DEF finishV2
<1>2. Home(d, id) = "board" /\ Home(d, id) # None
  BY NoneAssumption DEF finishV2
<1>3. d.board.item[id] # None
  BY <1>2, OnBoardHas
<1>4. /\ InPlace(d, e, id)
      /\ d.detail[id] # None => e.detail[id] # None /\ d.detail[id].body \subseteq e.detail[id].body
  <2>1. CASE note = None
    <3>1. e = d
      BY <1>1, <2>1
    <3> QED
      BY <3>1, InPlaceReflexive
  <2>2. CASE note # None
    <3>1. e \in preserveNotes(d, Home(d, id), id, note) /\ note \in Notes
      BY <1>1, <1>2, <2>2
    <3> QED
      BY <1>2, <3>1, PreserveNotesSound, 0 \in Nat DEF EditsTo
  <2> QED
    BY <2>1, <2>2
<1>5. e \in Dir /\ Grouped(e.board) /\ e.board.item[id] # None
  BY <1>3, <1>4 DEF InPlace, Same
<1>6. e.board \in BoardFile /\ e.board.item[id] \in Item
  <2>1. Home(e, id) = "board"
    BY <1>5 DEF Home
  <2> QED
    BY <1>5, <2>1, OnBoardHas, DirFields
<1> DEFINE new == [e.board.item[id] EXCEPT !.tickler = None, !.dest = None]
           b   == RemoveItem(e.board, id)
<1>7. new \in Item
  <2> SUFFICES ASSUME NEW i \in Item
               PROVE  [i EXCEPT !.tickler = None, !.dest = None] \in Item
    BY <1>6
  <2> QED
    BY DEF Item
<1>8. r.dir = closed(e) /\ r.accepts = {}
  BY <1>1 DEF Result
<1> HIDE DEF closed, new
<1>10. /\ b \in BoardFile /\ Grouped(b) /\ b.next = e.board.next
       /\ \A x \in Ids : b.item[x] = IF x = id THEN None ELSE e.board.item[x]
       /\ b.wip = e.board.wip
       /\ \A s \in StageSet : b.run[s] = e.board.run[s] \/ Len(b.run[s]) = Len(e.board.run[s]) - 1
  BY <1>5, <1>6, RemoveItemSound
<1>o. KeepsOrder(e.board, b, {id})
  BY <1>5, <1>6, RemoveKeepsOrder
<1> HIDE DEF b
<1> DEFINE f == PutDone(e, id, new)
<1>11. f \in Dir /\ f.board = e.board /\ f.done = [e.done EXCEPT ![id] = new] /\ f.detail = e.detail
  BY <1>5, <1>7, WithDone
<1> HIDE DEF f
<1>9. closed(e) = PutBoard(f, b)
  <2>1. closed(e) = [[e EXCEPT !.done[id] = new] EXCEPT !.board = RemoveItem(@, id)]
    BY DEF closed, new
  <2>2. closed(e) = [f EXCEPT !.board = RemoveItem(@, id)]
    BY <2>1 DEF f, PutDone
  <2> QED
    BY <1>11, <2>2 DEF PutBoard, b
<1>12. \A x \in Ids : f.done[x] = IF x = id THEN new ELSE e.done[x]
  BY <1>5, <1>11, DirFields
<1>13. r.dir \in Dir /\ r.dir.board = b /\ r.dir.done = f.done /\ r.dir.detail = f.detail
  BY <1>8, <1>9, <1>10, <1>11, WithBoard
<1>14. new # None
  BY <1>7, NoneAssumption
<1>15. Same(d, r.dir, id)
  BY <1>4, <1>10, <1>11, <1>12, <1>13 DEF Same, InPlace
<1>16. KeepsCaps(d, r.dir)
  <2>1. r.dir.board = b /\ b.wip = d.board.wip /\ e.board.run = d.board.run
    BY <1>4, <1>10, <1>13 DEF InPlace
  <2>2. \A s \in StageSet : Len(e.board.run[s]) \in Nat
    BY <1>6, RunLength
  <2>3. \A s \in StageSet : Len(b.run[s]) <= Len(d.board.run[s])
    BY <1>10, <2>1, <2>2
  <2> QED
    BY <2>1, <2>3 DEF KeepsCaps
<1>17. KeepsOrder(d.board, r.dir.board, {id})
  <2>1. e.board.run = d.board.run /\ \A x \in Ids : d.board.item[x] # None => e.board.item[x] # None
    BY <1>4, <1>5 DEF InPlace, Same
  <2>2. KeepsOrder(d.board, e.board, {id})
    BY <2>1, SameRunsKeepOrder
  <2>3. KeepsOrder(d.board, b, {id})
    BY <1>o, <2>1, <2>2, KeepsOrderTwice
  <2> QED
    BY <1>13, <2>3
<1> QED
  BY <1>3, <1>4, <1>8, <1>10, <1>11, <1>12, <1>13, <1>14, <1>15, <1>16, <1>17 DEF Finished

\* --remove takes the item from its home, and its detail file if it is told to.
LEMMA RemoveSound ==
  ASSUME NEW d \in Dir, Grouped(d.board), NEW id \in Ids, NEW withDetail \in BOOLEAN,
         NEW r \in removeInternal(d, id, withDetail)
  PROVE  /\ Same(d, r.dir, id) /\ r.accepts \subseteq {<<"I9 orphan", id>>}
         /\ Home(d, id) # None /\ KeepsCaps(d, r.dir) /\ KeepsOrder(d.board, r.dir.board, {id})
         /\ r.dir.board.item[id] = None
         /\ r.dir.done[id] = IF d.board.item[id] # None THEN d.done[id] ELSE None
         /\ OtherFile(d, r.dir, id) /\ r.dir.detail[id] \in {d.detail[id], None}
<1> DEFINE h == Home(d, id)
           without == IF h = "board" THEN [d EXCEPT !.board = RemoveItem(@, id)]
                      ELSE [d EXCEPT !.done[id] = None]
<1>1. h # None
  BY DEF removeInternal
<1>2. \/ r = Result(without, <<File(h)>>, <<>>, {})
      \/ r = Result([without EXCEPT !.detail[id] = None], <<File(h)>>, <<DetailName(id)>>, {})
      \/ r = Result(without, <<File(h)>>, <<>>, {<<"I9 orphan", id>>})
  BY <1>1 DEF removeInternal
<1>3. /\ without \in Dir /\ Grouped(without.board) /\ without.board.next = d.board.next
      /\ without.detail = d.detail /\ without.board.wip = d.board.wip
      /\ KeepsOrder(d.board, without.board, {id})
      /\ \A s \in StageSet : Len(without.board.run[s]) <= Len(d.board.run[s])
      /\ \A x \in Ids : without.board.item[x] = IF x = id THEN None ELSE d.board.item[x]
      /\ \A x \in Ids : without.done[x] = IF x = id /\ d.board.item[id] = None THEN None ELSE d.done[x]
      /\ OtherFile(d, without, id)
  <2>1. CASE h = "board"
    <3> DEFINE b == RemoveItem(d.board, id)
    <3>1. d.board.item[id] # None
      BY <2>1, OnBoardHas
    <3>2. d.board \in BoardFile
      BY DirFields
    <3>3. without = PutBoard(d, b)
      BY <2>1 DEF PutBoard
    <3> HIDE DEF without
    <3>4. /\ b \in BoardFile /\ Grouped(b) /\ b.next = d.board.next
          /\ \A x \in Ids : b.item[x] = IF x = id THEN None ELSE d.board.item[x]
          /\ b.wip = d.board.wip
          /\ \A s \in StageSet : b.run[s] = d.board.run[s] \/ Len(b.run[s]) = Len(d.board.run[s]) - 1
      BY <3>1, <3>2, RemoveItemSound
    <3>o. KeepsOrder(d.board, b, {id})
      BY <3>1, <3>2, RemoveKeepsOrder
    <3> HIDE DEF b
    <3>5. without \in Dir /\ without.board = b /\ without.done = d.done /\ without.detail = d.detail
      BY <3>3, <3>4, WithBoard
    <3>6. \A s \in StageSet : Len(d.board.run[s]) \in Nat
      BY <3>2, RunLength
    <3>7. \A s \in StageSet : Len(b.run[s]) <= Len(d.board.run[s])
      BY <3>4, <3>6
    <3> QED
      BY <2>1, <3>1, <3>4, <3>5, <3>7, <3>o DEF OtherFile
  <2>2. CASE h # "board"
    <3>1. d.board.item[id] = None
      BY <2>2 DEF Home
    <3>2. without = PutDone(d, id, None)
      BY <2>2 DEF PutDone
    <3> HIDE DEF without
    <3>3. /\ without \in Dir /\ without.board = d.board /\ without.done = [d.done EXCEPT ![id] = None]
          /\ without.detail = d.detail
      BY <3>2, WithDone
    <3>4. \A x \in Ids : without.done[x] = IF x = id THEN None ELSE d.done[x]
      BY <3>3, DirFields
    <3>5. d.board \in BoardFile
      BY DirFields
    <3>6. \A s \in StageSet : Len(d.board.run[s]) <= Len(d.board.run[s])
      BY <3>5, RunLength
    <3>7. KeepsOrder(d.board, without.board, {id})
      BY <3>3, SameRunsKeepOrder
    <3> QED
      BY <2>2, <3>1, <3>3, <3>4, <3>6, <3>7 DEF OtherFile
  <2> QED
    BY <2>1, <2>2
<1> HIDE DEF without
<1>4. /\ r.dir = PutDetail(without, id, None) \/ r.dir = without
      /\ r.accepts \subseteq {<<"I9 orphan", id>>}
  <2>1. CASE r = Result([without EXCEPT !.detail[id] = None], <<File(h)>>, <<DetailName(id)>>, {})
    BY <2>1 DEF Result, PutDetail
  <2>2. CASE r = Result(without, <<File(h)>>, <<>>, {<<"I9 orphan", id>>})
    BY <2>2 DEF Result
  <2>3. CASE r = Result(without, <<File(h)>>, <<>>, {})
    BY <2>3 DEF Result
  <2> QED
    BY <1>2, <2>1, <2>2, <2>3
<1>5. /\ InPlace(without, r.dir, id) /\ r.dir.board = without.board /\ r.dir.done = without.done
      /\ r.dir.detail[id] \in {without.detail[id], None}
  <2>1. CASE r.dir = without
    BY <1>3, <2>1, InPlaceReflexive
  <2>2. CASE r.dir = PutDetail(without, id, None)
    BY <1>3, <2>2, SetDetailSound
  <2> QED
    BY <1>4, <2>1, <2>2
<1>6. Same(d, r.dir, id)
  BY <1>3, <1>5 DEF InPlace, Same
<1>7. KeepsCaps(d, r.dir)
  BY <1>3, <1>5 DEF KeepsCaps
<1> QED
  BY <1>1, <1>3, <1>4, <1>5, <1>6, <1>7 DEF OtherFile

-----------------------------------------------------------------------------
(* The operations that add items, or move the counter with them.           *)

\* No item has the counter's id, nor one the counter has not come to.
Fresh(b) == \A x \in Ids : x >= b.next => b.item[x] = None

\* What c has added to b, at today: items from b's counter up to c's, no other
\* item has changed or moved, and a stage has only grown as far as its cap.
Grown(b, c, today) ==
  /\ c \in BoardFile /\ Grouped(c) /\ Fresh(c)
  /\ b.next <= c.next /\ c.wip = b.wip
  /\ \A x \in Ids : x < b.next \/ x >= c.next => c.item[x] = b.item[x]
  /\ \A x \in Ids : x >= b.next /\ x < c.next =>
       c.item[x] # None /\ c.item[x].created = today /\ c.item[x].tickled = 0
  /\ KeepsOrder(b, c, {})
  /\ \A s \in StageSet : /\ Len(b.run[s]) <= Len(c.run[s])
                         /\ Len(c.run[s]) <= c.wip[s] \/ c.wip[s] = 0 \/ Len(c.run[s]) = Len(b.run[s])

\* No growth is growth.
LEMMA GrownReflexive ==
  ASSUME NEW b \in BoardFile, Grouped(b), Fresh(b), NEW today \in Nat
  PROVE  Grown(b, b, today)
<1>1. b.next \in Nat
  BY DirectoryAssumption DEF BoardFile, Ids
<1>2. KeepsOrder(b, b, {})
  BY SameRunsKeepOrder
<1> QED
  BY <1>1, <1>2, RunLength DEF Grown, Ids

\* Growth twice is growth.
LEMMA GrownTransitive ==
  ASSUME NEW a \in BoardFile, NEW b, NEW c, NEW today \in Nat, Grown(a, b, today), Grown(b, c, today)
  PROVE  Grown(a, c, today)
<1>1. b \in BoardFile /\ c \in BoardFile
  BY DEF Grown
<1>2. a.next \in Nat /\ b.next \in Nat /\ c.next \in Nat /\ a.next <= b.next /\ b.next <= c.next
  BY <1>1, DirectoryAssumption DEF BoardFile, Ids, Grown
<1>3. Ids \subseteq Nat
  BY DirectoryAssumption DEF Ids
<1>4. \A x \in Ids : x < a.next \/ x >= c.next => c.item[x] = a.item[x]
  <2> SUFFICES ASSUME NEW x \in Ids, x < a.next \/ x >= c.next
               PROVE  c.item[x] = a.item[x]
    OBVIOUS
  <2>1. x < b.next \/ x >= c.next
    BY <1>2, <1>3
  <2>2. x < a.next \/ x >= b.next
    BY <1>2, <1>3
  <2> QED
    BY <2>1, <2>2 DEF Grown
<1>5. \A x \in Ids : x >= a.next /\ x < c.next =>
        c.item[x] # None /\ c.item[x].created = today /\ c.item[x].tickled = 0
  <2> SUFFICES ASSUME NEW x \in Ids, x >= a.next, x < c.next
               PROVE  c.item[x] # None /\ c.item[x].created = today /\ c.item[x].tickled = 0
    OBVIOUS
  <2>1. x < b.next \/ x >= b.next
    BY <1>2, <1>3
  <2>2. CASE x < b.next
    BY <2>2 DEF Grown
  <2>3. CASE x >= b.next
    BY <2>3 DEF Grown
  <2> QED
    BY <2>1, <2>2, <2>3
<1>6. ASSUME NEW s \in StageSet
      PROVE  /\ Len(a.run[s]) <= Len(c.run[s])
             /\ Len(c.run[s]) <= c.wip[s] \/ c.wip[s] = 0 \/ Len(c.run[s]) = Len(a.run[s])
  <2>1. Len(a.run[s]) \in Nat /\ Len(b.run[s]) \in Nat /\ Len(c.run[s]) \in Nat
    BY <1>1, RunLength
  <2> QED
    BY <2>1 DEF Grown
<1>7. a.next <= c.next /\ c.wip = a.wip
  BY <1>2 DEF Grown
<1>8. KeepsOrder(a, c, {})
  <2>1. KeepsOrder(a, b, {}) /\ KeepsOrder(b, c, {})
    BY DEF Grown
  <2>2. ASSUME NEW x \in Ids, a.item[x] # None
        PROVE  b.item[x] # None
    <3>1. CASE x < a.next \/ x >= b.next
      BY <2>2, <3>1 DEF Grown
    <3>2. CASE x >= a.next /\ x < b.next
      BY <3>2 DEF Grown
    <3>3. (x < a.next \/ x >= b.next) \/ (x >= a.next /\ x < b.next)
      BY <1>2, <1>3
    <3> QED
      BY <3>1, <3>2, <3>3
  <2> QED
    BY <2>1, <2>2, KeepsOrderTwice
<1> QED
  BY <1>4, <1>5, <1>6, <1>7, <1>8 DEF Grown

\* A board with its counter moved, as far as its file can say it.
PutNext(b, n) == [b EXCEPT !.next = n]

\* Another counter is all that PutNext changes.
LEMMA WithNext ==
  ASSUME NEW b \in BoardFile, Grouped(b), NEW n \in Ids, NEW c, c = PutNext(b, n)
  PROVE  /\ c \in BoardFile /\ Grouped(c)
         /\ c.item = b.item /\ c.run = b.run /\ c.next = n /\ c.wip = b.wip
<1>1. c = [item |-> b.item, run |-> b.run, next |-> n, wip |-> b.wip]
  BY DEF PutNext, BoardFile
<1>2. /\ b.item \in [Ids -> Item \cup {None}] /\ b.run \in [StageSet -> Seq(Ids)]
      /\ b.wip \in [StageSet -> Nat]
  BY DEF BoardFile
<1>3. c \in BoardFile /\ c.item = b.item /\ c.run = b.run /\ c.next = n /\ c.wip = b.wip
  BY <1>1, <1>2 DEF BoardFile
<1> QED
  BY <1>3 DEF Grouped

\* The board with one more item, at the counter's id, on a stage that has room.
LEMMA OneMore ==
  ASSUME NEW b \in BoardFile, Grouped(b), Fresh(b), Allocates(b), NEW s \in StageSet, ~ Full(b, s),
         NEW index \in 0..Len(b.run[s]), NEW today \in Nat,
         NEW it \in Item, it.created = today, it.tickled = 0,
         NEW c, c = PutNext(InsertItem(b, s, index, b.next, it), b.next + 1)
  PROVE  /\ Grown(b, c, today)
         /\ c.next = b.next + 1
         /\ c.item[b.next] = it
         /\ \A t \in StageSet : Len(c.run[t]) = IF t = s THEN Len(b.run[t]) + 1 ELSE Len(b.run[t])
<1>0. b.next \in Ids /\ b.next + 1 \in Ids
  BY DirectoryAssumption DEF BoardFile, Ids, Allocates
<1>1. PICK n \in Nat : n = b.next
  BY <1>0, DirectoryAssumption DEF Ids
<1>n. n \in Ids /\ n + 1 \in Ids /\ \A x \in Ids : x \in Nat
  BY <1>0, <1>1, DirectoryAssumption DEF Ids
<1>f. \A x \in Ids : x >= n => b.item[x] = None
  BY <1>1 DEF Fresh
<1>2. b.item[n] = None
  BY <1>n, <1>f
<1> DEFINE e == InsertItem(b, s, index, n, it)
<1>3. /\ e \in BoardFile /\ Grouped(e)
      /\ \A x \in Ids : e.item[x] = IF x = n THEN it ELSE b.item[x]
      /\ e.next = b.next /\ e.wip = b.wip
      /\ \A t \in StageSet : \/ t # s /\ e.run[t] = b.run[t]
                             \/ t = s /\ Len(e.run[t]) = Len(b.run[t]) + 1
  <2> HIDE DEF e
  <2>1. e = InsertItem(b, s, index, n, it)
    BY DEF e
  <2> QED
    BY <1>n, <1>2, <2>1, InsertItemSound
<1>o. KeepsOrder(b, e, {n})
  <2> HIDE DEF e
  <2>1. e = InsertItem(b, s, index, n, it)
    BY DEF e
  <2> QED
    BY <1>n, <1>2, <2>1, InsertKeepsOrder
<1>c. c = PutNext(e, n + 1)
  BY <1>1
<1> HIDE DEF e
<1>4. /\ c \in BoardFile /\ Grouped(c)
      /\ c.item = e.item /\ c.run = e.run /\ c.next = n + 1 /\ c.wip = e.wip
  BY <1>n, <1>3, <1>c, WithNext
<1>5. it # None
  BY NoneAssumption
<1>6. Fresh(c)
  <2> SUFFICES ASSUME NEW x \in Ids, x >= n + 1
               PROVE  c.item[x] = None
    BY <1>4 DEF Fresh
  <2>1. x # n /\ x >= n
    BY <1>n
  <2> QED
    BY <1>3, <1>4, <1>f, <2>1
<1>7. \A t \in StageSet : Len(c.run[t]) = IF t = s THEN Len(b.run[t]) + 1 ELSE Len(b.run[t])
  BY <1>3, <1>4
<1>8. ASSUME NEW t \in StageSet
      PROVE  /\ Len(b.run[t]) <= Len(c.run[t])
             /\ Len(c.run[t]) <= c.wip[t] \/ c.wip[t] = 0 \/ Len(c.run[t]) = Len(b.run[t])
  <2>1. Len(b.run[t]) \in Nat /\ b.wip[t] \in Nat
    BY RunLength
  <2>2. c.wip[t] = b.wip[t]
    BY <1>3, <1>4
  <2>3. t = s => ~ (b.wip[t] > 0 /\ Len(b.run[t]) >= b.wip[t])
    BY DEF Full
  <2> QED
    BY <1>7, <2>1, <2>2, <2>3
<1>9. \A x \in Ids : /\ x >= n /\ x < n + 1 => x = n
                     /\ x < n \/ x >= n + 1 => x # n
  BY <1>n
<1>10. /\ \A x \in Ids : x < n \/ x >= n + 1 => c.item[x] = b.item[x]
       /\ \A x \in Ids : x >= n /\ x < n + 1 =>
            c.item[x] # None /\ c.item[x].created = today /\ c.item[x].tickled = 0
  BY <1>n, <1>3, <1>4, <1>5, <1>9
<1>11. b.next <= c.next /\ c.wip = b.wip /\ c.next = b.next + 1
  BY <1>1, <1>3, <1>4
<1>12. c.item[b.next] = it
  BY <1>n, <1>1, <1>3, <1>4
<1>p. KeepsOrder(b, c, {})
  <2>1. KeepsOrder(e, c, {n})
    BY <1>4, SameRunsKeepOrder
  <2>2. KeepsOrder(b, c, {n})
    BY <1>3, <1>o, <2>1, KeepsOrderTwice
  <2> QED
    BY <1>2, <2>2 DEF KeepsOrder
<1>13. Grown(b, c, today)
  BY <1>1, <1>4, <1>6, <1>8, <1>10, <1>11, <1>p DEF Grown
<1> QED
  BY <1>7, <1>11, <1>12, <1>13

\* A request is for a stage of the board.
LEMMA AddStageIsOne ==
  ASSUME NEW req \in AddRequest
  PROVE  AddStage(req) \in StageSet
<1>1. CASE req.stage # None
  BY <1>1 DEF AddStage, AddRequest
<1>2. CASE req.stage = None /\ req.reason /\ NeedsReason # <<>>
  <2>1. Head(NeedsReason) \in StageSet
    BY <1>2, DirectoryAssumption
  <2> QED
    BY <1>2, <2>1 DEF AddStage
<1>3. CASE req.stage = None /\ ~ (req.reason /\ NeedsReason # <<>>)
  BY <1>3, DirectoryAssumption DEF AddStage
<1> QED
  BY <1>1, <1>2, <1>3

\* A new item is of today, and has not fired.
LEMMA NewItemIs ==
  ASSUME NEW req \in AddRequest, NEW today \in Nat, NEW it, it = NewItem(req, today)
  PROVE  it \in Item /\ it.created = today /\ it.tickled = 0 /\ it.title = req.title
<1>1. (AddStage(req) = "working") \in BOOLEAN
  OBVIOUS
<1> QED
  BY <1>1 DEF NewItem, AddRequest, Item

\* One placed item takes the counter's id, and room on one stage.
LEMMA PlacedSound ==
  ASSUME NEW b \in BoardFile, Grouped(b), Fresh(b), NEW req \in AddRequest,
         NEW index \in 0..Len(b.run[AddStage(req)]), NEW today \in Nat,
         NEW c \in Placed(b, req, index, today)
  PROVE  /\ Grown(b, c, today)
         /\ c.next = b.next + 1
         /\ c.item[b.next] \in Item /\ c.item[b.next].created = today /\ c.item[b.next].tickled = 0
         /\ AddStage(req) \in StageSet
         /\ \A t \in StageSet : Len(c.run[t]) = IF t = AddStage(req) THEN Len(b.run[t]) + 1 ELSE Len(b.run[t])
<1> DEFINE it == NewItem(req, today)
           e  == InsertItem(b, AddStage(req), index, b.next, it)
<1>1. ~ Full(b, AddStage(req)) /\ Allocates(b) /\ c = [e EXCEPT !.next = @ + 1]
  BY DEF Placed
<1>2. AddStage(req) \in StageSet
  BY AddStageIsOne
<1>3. it \in Item /\ it.created = today /\ it.tickled = 0
  BY NewItemIs
<1> HIDE DEF it
<1>4. b.item[b.next] = None
  BY DirectoryAssumption DEF Fresh, BoardFile, Ids
<1>5. b.next \in Ids
  BY DEF BoardFile
<1>6. e.next = b.next
  <2> HIDE DEF e
  <2>1. e = InsertItem(b, AddStage(req), index, b.next, it)
    BY DEF e
  <2> QED
    BY <1>2, <1>3, <1>4, <1>5, <2>1, InsertItemSound
<1>7. c = PutNext(e, b.next + 1)
  BY <1>1, <1>6 DEF PutNext
<1>8. PICK s \in StageSet : s = AddStage(req)
  BY <1>2
<1>9. c = PutNext(InsertItem(b, s, index, b.next, it), b.next + 1)
  BY <1>7, <1>8
<1>10. index \in 0..Len(b.run[s]) /\ ~ Full(b, s) /\ Allocates(b)
  BY <1>1, <1>8
<1> HIDE DEF e
<1>11. /\ Grown(b, c, today)
       /\ c.next = b.next + 1
       /\ c.item[b.next] = it
       /\ \A t \in StageSet : Len(c.run[t]) = IF t = s THEN Len(b.run[t]) + 1 ELSE Len(b.run[t])
  BY <1>3, <1>9, <1>10, OneMore
<1> QED
  BY <1>2, <1>3, <1>8, <1>11

\* A board with the line of one of its items replaced.
PutItem(b, id, it) == [b EXCEPT !.item[id] = it]

\* Another line is all that PutItem changes.
LEMMA WithItem ==
  ASSUME NEW b \in BoardFile, Grouped(b), NEW id \in Ids, b.item[id] # None, NEW it \in Item,
         NEW c, c = PutItem(b, id, it)
  PROVE  /\ c \in BoardFile /\ Grouped(c)
         /\ \A x \in Ids : c.item[x] = IF x = id THEN it ELSE b.item[x]
         /\ c.run = b.run /\ c.next = b.next /\ c.wip = b.wip
<1> DEFINE item == [b.item EXCEPT ![id] = it]
<1>1. /\ b.item \in [Ids -> Item \cup {None}] /\ b.run \in [StageSet -> Seq(Ids)]
      /\ b.next \in Ids /\ b.wip \in [StageSet -> Nat]
      /\ b = [item |-> b.item, run |-> b.run, next |-> b.next, wip |-> b.wip]
  BY DEF BoardFile
<1>2. c = [item |-> item, run |-> b.run, next |-> b.next, wip |-> b.wip]
  BY <1>1 DEF PutItem
<1>3. \A x \in Ids : item[x] = IF x = id THEN it ELSE b.item[x]
  BY <1>1
<1>4. item \in [Ids -> Item \cup {None}]
  BY <1>1
<1> HIDE DEF item
<1>5. c \in BoardFile /\ c.item = item /\ c.run = b.run /\ c.next = b.next /\ c.wip = b.wip
  BY <1>1, <1>2, <1>4 DEF BoardFile
<1>6. it # None
  BY NoneAssumption
<1>7. \A x \in Ids : c.item[x] = IF x = id THEN it ELSE b.item[x]
  BY <1>3, <1>5
<1>8. \A x \in Ids : c.item[x] # None <=> b.item[x] # None
  BY <1>6, <1>7
<1>9. Grouped(c)
  BY <1>5, <1>8 DEF Grouped
<1> QED
  BY <1>5, <1>7, <1>9

\* What an operation that adds has done to the directory.
Added(d, r, today) ==
  /\ r.dir \in Dir
  /\ Grown(d.board, r.dir.board, today)
  /\ r.dir.done = d.done
  /\ \A x \in Ids : x < d.board.next => r.dir.detail[x] = d.detail[x]
  /\ r.accepts = {}

\* --add: an item under a new id.
LEMMA AddSound ==
  ASSUME NEW d \in Dir, Grouped(d.board), Fresh(d.board), NEW req \in AddRequest,
         NEW today \in Nat, NEW r \in addV2(d, req, today)
  PROVE  /\ Added(d, r, today)
         /\ r.dir.board.item[d.board.next] # None
         /\ \A x \in Ids \ {d.board.next} : r.dir.detail[x] = d.detail[x]
         /\ IF req.body = {} THEN r.dir.detail = d.detail ELSE r.dir.detail[d.board.next] # None
<1> DEFINE id     == d.board.next
           index  == IF req.top THEN 0 ELSE Len(d.board.run[AddStage(req)])
           file   == [title |-> req.title, body |-> req.body]
           line(b) == [b EXCEPT !.item[id].detail = TRUE]
           bodied(b) == [d EXCEPT !.board = line(b), !.detail[id] = file]
<1>1. PICK b \in Placed(d.board, req, index, today) :
        r = IF req.body = {} THEN Result([d EXCEPT !.board = b], <<File("board")>>, <<>>, {})
            ELSE Result(bodied(b), <<DetailName(id), File("board")>>, <<>>, {})
  BY DEF addV2
<1>2. d.board \in BoardFile /\ id \in Ids /\ id \in Nat /\ \A x \in Ids : x \in Nat
  <2>1. d.board \in BoardFile /\ id \in Ids
    BY DirFields
  <2>2. \A x \in Ids : x \in Nat
    BY DirectoryAssumption DEF Ids
  <2> QED
    BY <2>1, <2>2
<1>3. AddStage(req) \in StageSet
  BY AddStageIsOne
<1>4. index \in 0..Len(d.board.run[AddStage(req)])
  <2>1. Len(d.board.run[AddStage(req)]) \in Nat
    BY <1>2, <1>3, RunLength
  <2> QED
    BY <2>1
<1> HIDE DEF index
<1>5. /\ Grown(d.board, b, today)
      /\ b.next = id + 1
      /\ b.item[id] \in Item /\ b.item[id].created = today /\ b.item[id].tickled = 0
  BY <1>2, <1>4, PlacedSound
<1>6. b \in BoardFile /\ Grouped(b) /\ Fresh(b)
  BY <1>5 DEF Grown
<1>7. CASE req.body = {}
  <2>1. r.dir = PutBoard(d, b) /\ r.accepts = {}
    BY <1>1, <1>7 DEF Result, PutBoard
  <2>2. r.dir \in Dir /\ r.dir.board = b /\ r.dir.done = d.done /\ r.dir.detail = d.detail
    BY <1>6, <2>1, WithBoard
  <2> QED
    BY <1>5, <1>7, <2>1, <2>2, NoneAssumption DEF Added
<1>8. CASE req.body # {}
  <2> DEFINE it == [b.item[id] EXCEPT !.detail = TRUE]
             c  == PutItem(b, id, it)
             e  == PutBoard(d, c)
  <2>1. it \in Item /\ it.created = today /\ it.tickled = 0
    <3> SUFFICES ASSUME NEW i \in Item, NEW n, n = [i EXCEPT !.detail = TRUE]
                 PROVE  n \in Item /\ n.created = i.created /\ n.tickled = i.tickled
      BY <1>5
    <3> QED
      BY DetailField
  <2>2. r.dir = bodied(b) /\ r.accepts = {}
    BY <1>1, <1>8 DEF Result
  <2>3. line(b) = [b EXCEPT !.item[id] = [b.item[id] EXCEPT !.detail = TRUE]]
    OBVIOUS
  <2>4. line(b) = c
    BY <2>3 DEF PutItem
  <2>5. r.dir = [[d EXCEPT !.board = c] EXCEPT !.detail[id] = file]
    <3> HIDE DEF c, file
    <3>1. r.dir = [d EXCEPT !.board = c, !.detail[id] = file]
      BY <2>2, <2>4 DEF file
    <3> QED
      BY <3>1
  <2>6. r.dir = PutDetail(e, id, file)
    BY <2>5 DEF PutDetail, PutBoard
  <2>7. file \in DetailFile
    BY DEF DetailFile, AddRequest
  <2> HIDE DEF it, file
  <2>8. b.item[id] # None
    BY <1>5, NoneAssumption
  <2>9. /\ c \in BoardFile /\ Grouped(c)
        /\ \A x \in Ids : c.item[x] = IF x = id THEN it ELSE b.item[x]
        /\ c.run = b.run /\ c.next = b.next /\ c.wip = b.wip
    <3> HIDE DEF c
    <3>1. c = PutItem(b, id, it)
      BY DEF c
    <3> QED
      BY <1>2, <1>6, <2>1, <2>8, <3>1, WithItem
  <2> HIDE DEF c
  <2>10. e \in Dir /\ e.board = c /\ e.done = d.done /\ e.detail = d.detail
    <3> HIDE DEF e
    <3>1. e = PutBoard(d, c)
      BY DEF e
    <3> QED
      BY <2>9, <3>1, WithBoard
  <2> HIDE DEF e
  <2>11. /\ InPlace(e, r.dir, id)
         /\ r.dir.board = c /\ r.dir.done = d.done /\ r.dir.detail[id] = file
    BY <1>2, <2>6, <2>7, <2>9, <2>10, SetDetailSound
  <2>12. /\ r.dir \in Dir /\ \A x \in Ids : x < id => r.dir.detail[x] = d.detail[x]
         /\ \A x \in Ids \ {id} : r.dir.detail[x] = d.detail[x]
    BY <1>2, <2>10, <2>11 DEF InPlace, Same
  <2>13. it # None
    BY <2>1, NoneAssumption
  <2>c. c.item[id] = it /\ file # None
    BY <1>2, <2>7, <2>9, NoneAssumption
  <2>14. Grown(d.board, c, today)
    <3>1. Fresh(c)
      BY <1>2, <1>5, <1>6, <2>9 DEF Fresh
    <3>2. \A x \in Ids : x < id \/ x >= id + 1 => x # id
      BY <1>2
    <3>3. \A x \in Ids : x < id \/ x >= c.next => c.item[x] = d.board.item[x]
      BY <1>5, <2>9, <3>2 DEF Grown
    <3>4. \A x \in Ids : x >= id /\ x < c.next =>
            c.item[x] # None /\ c.item[x].created = today /\ c.item[x].tickled = 0
      BY <1>5, <2>1, <2>9, <2>13 DEF Grown
    <3>5. KeepsOrder(d.board, c, {})
      <4>1. KeepsOrder(d.board, b, {})
        BY <1>5 DEF Grown
      <4>2. KeepsOrder(b, c, {})
        BY <2>9, SameRunsKeepOrder
      <4>3. \A x \in Ids : c.item[x] # None => b.item[x] # None
        BY <2>8, <2>9
      <4> QED
        BY <4>1, <4>2, <4>3, KeepsOrderTwice
    <3> QED
      BY <1>5, <2>9, <3>1, <3>3, <3>4, <3>5 DEF Grown
  <2> QED
    BY <1>8, <2>2, <2>11, <2>12, <2>13, <2>14, <2>c DEF Added
<1> QED
  BY <1>7, <1>8

\* The board after each item of a batch is made of the one before it.
LEMMA BatchIs ==
  ASSUME NEW b, NEW reqs \in Seq(AddRequest), NEW today
  PROVE  /\ Batch(b, reqs, today)[0] = {b}
         /\ \A n \in 1..Len(reqs) : \A g \in Batch(b, reqs, today)[n] :
              \E c \in Batch(b, reqs, today)[n - 1] : g \in Placed(c, reqs[n], BatchIndex(c, reqs, n), today)
<1> DEFINE step(n, S) == UNION {Placed(c, reqs[n], BatchIndex(c, reqs, n), today) : c \in S}
           N == Len(reqs)
           Upto(k) == \E g : g = [n \in 0..k |-> IF n = 0 THEN {b} ELSE step(n, g[n - 1])]
           T == {k \in 0..N : Upto(k)}
           f == Batch(b, reqs, today)
<1>1. f = CHOOSE g : g = [n \in 0..N |-> IF n = 0 THEN {b} ELSE step(n, g[n - 1])]
  BY DEF Batch
<1>2. N \in Nat
  OBVIOUS
<1> HIDE DEF f, step, N
<1>3. 0 \in T
  <2> DEFINE g == [n \in 0..0 |-> {b}]
  <2>1. g = [n \in 0..0 |-> IF n = 0 THEN {b} ELSE step(n, g[n - 1])]
    OBVIOUS
  <2> HIDE DEF g
  <2> QED
    BY <1>2, <2>1
<1>4. ASSUME NEW k \in 0..(N - 1), k \in T
      PROVE  k + 1 \in T
  <2>1. PICK g : g = [n \in 0..k |-> IF n = 0 THEN {b} ELSE step(n, g[n - 1])]
    BY <1>4
  <2> DEFINE h == [n \in 0..(k + 1) |-> IF n = k + 1 THEN step(k + 1, g[k]) ELSE g[n]]
  <2>2. \A n \in 0..(k + 1) : h[n] = IF n = 0 THEN {b} ELSE step(n, h[n - 1])
    <3> SUFFICES ASSUME NEW n \in 0..(k + 1)
                 PROVE  h[n] = IF n = 0 THEN {b} ELSE step(n, h[n - 1])
      OBVIOUS
    <3>0. k \in Nat
      BY <1>2
    <3>1. CASE n = k + 1
      <4>1. h[n] = step(k + 1, g[k]) /\ n - 1 = k /\ n # 0
        BY <3>0, <3>1
      <4>2. h[k] = g[k]
        BY <3>0
      <4> QED
        BY <3>1, <4>1, <4>2
    <3>2. CASE n # k + 1
      <4>1. n \in 0..k /\ h[n] = g[n]
        BY <3>0, <3>2
      <4>2. g[n] = IF n = 0 THEN {b} ELSE step(n, g[n - 1])
        BY <2>1, <4>1
      <4>3. n # 0 => h[n - 1] = g[n - 1]
        BY <3>0, <4>1
      <4> QED
        BY <4>1, <4>2, <4>3
    <3> QED
      BY <3>1, <3>2
  <2>3. h = [n \in 0..(k + 1) |-> h[n]]
    OBVIOUS
  <2> HIDE DEF h
  <2>4. h = [n \in 0..(k + 1) |-> IF n = 0 THEN {b} ELSE step(n, h[n - 1])]
    BY <2>2, <2>3
  <2>5. k + 1 \in 0..N
    BY <1>2
  <2> QED
    BY <2>4, <2>5
<1>5. N \in T
  <2> HIDE DEF T
  <2>1. \A n \in 0..N : n \in T
    BY <1>2, <1>3, <1>4, Induction
  <2> QED
    BY <1>2, <2>1
<1>6. \E g : g = [n \in 0..N |-> IF n = 0 THEN {b} ELSE step(n, g[n - 1])]
  BY <1>5
<1>7. f = [n \in 0..N |-> IF n = 0 THEN {b} ELSE step(n, f[n - 1])]
  BY <1>1, <1>6
<1>8. f[0] = {b} /\ \A n \in 1..N : f[n] = step(n, f[n - 1])
  <2>1. \A n \in 0..N : f[n] = IF n = 0 THEN {b} ELSE step(n, f[n - 1])
    BY <1>7
  <2> QED
    BY <1>2, <2>1
<1>9. \A n \in 1..N : \A g \in f[n] :
        \E c \in f[n - 1] : g \in Placed(c, reqs[n], BatchIndex(c, reqs, n), today)
  BY <1>8 DEF step
<1> QED
  BY <1>8, <1>9 DEF f, N

\* How many of the first n of a batch are for a stage.
Ahead(reqs, n, s) == Cardinality({j \in 1..n : AddStage(reqs[j]) = s})

\* How many of a batch's first lines are for a stage.
LEMMA AheadCounts ==
  ASSUME NEW reqs \in Seq(AddRequest), NEW s
  PROVE  /\ Ahead(reqs, 0, s) = 0
         /\ \A n \in Nat :
              /\ Ahead(reqs, n, s) \in Nat
              /\ Ahead(reqs, n + 1, s) = IF AddStage(reqs[n + 1]) = s THEN Ahead(reqs, n, s) + 1
                                         ELSE Ahead(reqs, n, s)
<1> DEFINE on(n) == {j \in 1..n : AddStage(reqs[j]) = s}
<1>1. on(0) = {}
  OBVIOUS
<1>2. Ahead(reqs, 0, s) = 0
  BY <1>1, FS_EmptySet DEF Ahead
<1>3. ASSUME NEW n \in Nat
      PROVE  /\ Ahead(reqs, n, s) \in Nat
             /\ Ahead(reqs, n + 1, s) = IF AddStage(reqs[n + 1]) = s THEN Ahead(reqs, n, s) + 1
                                        ELSE Ahead(reqs, n, s)
  <2>1. IsFiniteSet(1..n)
    BY FS_Interval
  <2>2. on(n) \in SUBSET (1..n)
    OBVIOUS
  <2>3. on(n + 1) = IF AddStage(reqs[n + 1]) = s THEN on(n) \cup {n + 1} ELSE on(n)
    OBVIOUS
  <2>4. n + 1 \notin on(n)
    OBVIOUS
  <2>5. Ahead(reqs, n, s) = Cardinality(on(n)) /\ Ahead(reqs, n + 1, s) = Cardinality(on(n + 1))
    BY DEF Ahead
  <2> HIDE DEF on
  <2>6. IsFiniteSet(on(n))
    BY <2>1, <2>2, FS_Subset
  <2>7. Cardinality(on(n)) \in Nat
    BY <2>6, FS_CardinalityType
  <2>8. Cardinality(on(n) \cup {n + 1}) = Cardinality(on(n)) + 1
    BY <2>4, <2>6, FS_AddElement
  <2> QED
    BY <2>3, <2>5, <2>7, <2>8
<1> QED
  BY <1>2, <1>3

\* The place of a batch's next item is in its stage's run.
LEMMA BatchIndexIn ==
  ASSUME NEW c \in BoardFile, NEW reqs \in Seq(AddRequest), NEW n \in 1..Len(reqs),
         \A s \in StageSet : Ahead(reqs, n - 1, s) <= Len(c.run[s])
  PROVE  /\ AddStage(reqs[n]) \in StageSet
         /\ BatchIndex(c, reqs, n) \in 0..Len(c.run[AddStage(reqs[n])])
<1> DEFINE s == AddStage(reqs[n])
<1>1. reqs[n] \in AddRequest
  OBVIOUS
<1>2. s \in StageSet
  BY <1>1, AddStageIsOne
<1>3. Len(c.run[s]) \in Nat
  BY <1>2, RunLength
<1>4. CASE reqs[n].top
  <2> DEFINE all == {j \in 1..(n - 1) : AddStage(reqs[j]) = s}
             top == {j \in 1..(n - 1) : reqs[j].top /\ AddStage(reqs[j]) = s}
  <2>1. IsFiniteSet(1..(n - 1))
    BY FS_Interval
  <2>2. all \in SUBSET (1..(n - 1)) /\ top \in SUBSET all
    OBVIOUS
  <2>3. BatchIndex(c, reqs, n) = Cardinality(top)
    BY <1>4 DEF BatchIndex
  <2>4. Cardinality(all) <= Len(c.run[s])
    BY <1>2 DEF Ahead
  <2> HIDE DEF all, top, s
  <2>5. IsFiniteSet(all)
    BY <2>1, <2>2, FS_Subset
  <2>6. IsFiniteSet(top) /\ Cardinality(top) <= Cardinality(all)
    BY <2>2, <2>5, FS_Subset
  <2>7. Cardinality(all) \in Nat /\ Cardinality(top) \in Nat
    BY <2>5, <2>6, FS_CardinalityType
  <2>8. Cardinality(top) \in 0..Len(c.run[s])
    BY <1>3, <2>4, <2>6, <2>7
  <2> QED
    BY <1>2, <2>3, <2>8 DEF s
<1>5. CASE ~ reqs[n].top
  <2>1. BatchIndex(c, reqs, n) = Len(c.run[s])
    BY <1>5 DEF BatchIndex
  <2> QED
    BY <1>2, <1>3, <2>1
<1> QED
  BY <1>4, <1>5

\* A batch of any length has added its items from the counter up, and left the
\* rest as it was.
LEMMA BatchSound ==
  ASSUME NEW b \in BoardFile, Grouped(b), Fresh(b), NEW reqs \in Seq(AddRequest), NEW today \in Nat,
         NEW c \in Batch(b, reqs, today)[Len(reqs)]
  PROVE  Grown(b, c, today)
<1> DEFINE f == Batch(b, reqs, today)
           Good(n, e) == Grown(b, e, today) /\ \A s \in StageSet : Ahead(reqs, n, s) <= Len(e.run[s])
           T == {n \in 0..Len(reqs) : \A e \in f[n] : Good(n, e)}
<1>1. f[0] = {b} /\ \A n \in 1..Len(reqs) : \A g \in f[n] :
        \E e \in f[n - 1] : g \in Placed(e, reqs[n], BatchIndex(e, reqs, n), today)
  BY BatchIs
<1> HIDE DEF f
<1>2. Len(reqs) \in Nat
  OBVIOUS
<1>3. 0 \in T
  <2>1. \A s \in StageSet : Ahead(reqs, 0, s) <= Len(b.run[s])
    BY AheadCounts, RunLength
  <2> QED
    BY <1>1, <1>2, <2>1, GrownReflexive
<1>4. ASSUME NEW n \in 0..(Len(reqs) - 1), n \in T
      PROVE  n + 1 \in T
  <2> SUFFICES ASSUME NEW g \in f[n + 1]
               PROVE  Good(n + 1, g)
    BY <1>2
  <2>1. n + 1 \in 1..Len(reqs) /\ (n + 1) - 1 = n /\ n \in Nat
    BY <1>2
  <2>2. PICK e \in f[n] : g \in Placed(e, reqs[n + 1], BatchIndex(e, reqs, n + 1), today)
    BY <1>1, <2>1
  <2>3. Good(n, e)
    BY <1>4
  <2>4. e \in BoardFile /\ Grouped(e) /\ Fresh(e)
    BY <2>3 DEF Grown
  <2> DEFINE s == AddStage(reqs[n + 1])
             index == BatchIndex(e, reqs, n + 1)
  <2>5. s \in StageSet /\ index \in 0..Len(e.run[s])
    BY <2>1, <2>3, <2>4, BatchIndexIn
  <2>6. reqs[n + 1] \in AddRequest
    BY <2>1
  <2> HIDE DEF index
  <2>7. /\ Grown(e, g, today)
        /\ \A t \in StageSet : Len(g.run[t]) = IF t = s THEN Len(e.run[t]) + 1 ELSE Len(e.run[t])
    BY <2>2, <2>4, <2>5, <2>6, PlacedSound DEF index
  <2>8. Grown(b, g, today)
    BY <2>3, <2>7, GrownTransitive
  <2>9. ASSUME NEW t \in StageSet
        PROVE  Ahead(reqs, n + 1, t) <= Len(g.run[t])
    <3>1. /\ Ahead(reqs, n, t) \in Nat
          /\ Ahead(reqs, n + 1, t) = IF s = t THEN Ahead(reqs, n, t) + 1 ELSE Ahead(reqs, n, t)
      BY <2>1, AheadCounts
    <3>2. Len(e.run[t]) \in Nat
      BY <2>4, RunLength
    <3>3. Ahead(reqs, n, t) <= Len(e.run[t])
      BY <2>3
    <3>4. Len(g.run[t]) = IF t = s THEN Len(e.run[t]) + 1 ELSE Len(e.run[t])
      BY <2>7
    <3> HIDE DEF s
    <3> QED
      BY <3>1, <3>2, <3>3, <3>4
  <2> QED
    BY <2>8, <2>9
<1>5. Len(reqs) \in T
  <2> HIDE DEF T
  <2>1. \A n \in 0..Len(reqs) : n \in T
    BY <1>2, <1>3, <1>4, Induction
  <2> QED
    BY <1>2, <2>1
<1> QED
  BY <1>5 DEF f

\* --add-many: the batch, and nothing else.
LEMMA AddManySound ==
  ASSUME NEW d \in Dir, Grouped(d.board), Fresh(d.board), NEW reqs \in Seq(AddRequest),
         NEW today \in Nat, NEW r \in addManyV2(d, reqs, today)
  PROVE  Added(d, r, today)
<1>1. PICK b \in Batch(d.board, reqs, today)[Len(reqs)] :
        r = Result([d EXCEPT !.board = b], <<File("board")>>, <<>>, {})
  BY DEF addManyV2
<1>2. d.board \in BoardFile
  BY DirFields
<1>3. Grown(d.board, b, today)
  BY <1>2, BatchSound
<1>4. r.dir = PutBoard(d, b) /\ r.accepts = {}
  BY <1>1 DEF Result, PutBoard
<1>5. r.dir \in Dir /\ r.dir.board = b /\ r.dir.done = d.done /\ r.dir.detail = d.detail
  BY <1>3, <1>4, WithBoard DEF Grown
<1> QED
  BY <1>3, <1>4, <1>5 DEF Added

\* A cap changes nothing but itself, and is not below what its stage holds.
LEMMA SetCapSound ==
  ASSUME NEW d \in Dir, Grouped(d.board), NEW s \in StageSet, NEW n \in Nat,
         NEW r \in SetStageWipLimit(d, s, n)
  PROVE  /\ r.dir \in Dir /\ Grouped(r.dir.board)
         /\ r.dir.board.item = d.board.item /\ r.dir.board.run = d.board.run
         /\ r.dir.board.next = d.board.next
         /\ r.dir.done = d.done /\ r.dir.detail = d.detail
         /\ r.accepts = {}
         /\ \A t \in StageSet : r.dir.board.wip[t] = IF t = s THEN n ELSE d.board.wip[t]
         /\ n = 0 \/ Len(d.board.run[s]) <= n
<1> DEFINE wip == [d.board.wip EXCEPT ![s] = n]
           b   == [d.board EXCEPT !.wip[s] = n]
<1>1. r = Result([d EXCEPT !.board.wip[s] = n], <<File("board")>>, <<>>, {})
  BY DEF SetStageWipLimit
<1>2. r.dir = PutBoard(d, b) /\ r.accepts = {}
  BY <1>1 DEF Result, PutBoard
<1>3. /\ d.board.item \in [Ids -> Item \cup {None}] /\ d.board.run \in [StageSet -> Seq(Ids)]
      /\ d.board.next \in Ids /\ d.board.wip \in [StageSet -> Nat]
      /\ d.board = [item |-> d.board.item, run |-> d.board.run,
                    next |-> d.board.next, wip |-> d.board.wip]
  BY DirFields
<1>4. b = [item |-> d.board.item, run |-> d.board.run, next |-> d.board.next, wip |-> wip]
  <2> SUFFICES ASSUME NEW c \in BoardFile
               PROVE  [c EXCEPT !.wip[s] = n]
                      = [item |-> c.item, run |-> c.run, next |-> c.next, wip |-> [c.wip EXCEPT ![s] = n]]
    BY DirFields
  <2>1. c = [item |-> c.item, run |-> c.run, next |-> c.next, wip |-> c.wip]
    BY DEF BoardFile
  <2> QED
    BY <2>1
<1>5. wip \in [StageSet -> Nat] /\ \A t \in StageSet : wip[t] = IF t = s THEN n ELSE d.board.wip[t]
  BY <1>3
<1> HIDE DEF b, wip
<1>6. /\ b \in BoardFile /\ b.item = d.board.item /\ b.run = d.board.run /\ b.next = d.board.next
      /\ b.wip = wip
  BY <1>3, <1>4, <1>5 DEF BoardFile
<1>7. Grouped(b)
  BY <1>6 DEF Grouped
<1>8. r.dir \in Dir /\ r.dir.board = b /\ r.dir.done = d.done /\ r.dir.detail = d.detail
  BY <1>2, <1>6, WithBoard
<1>9. n = 0 \/ Len(d.board.run[s]) <= n
  <2>1. d.board \in BoardFile
    BY DirFields
  <2>2. Len(d.board.run[s]) \in Nat
    BY <2>1, RunLength
  <2>3. ~ (n # 0 /\ Len(d.board.run[s]) > n)
    BY DEF SetStageWipLimit
  <2> QED
    BY <2>2, <2>3
<1> QED
  BY <1>2, <1>5, <1>6, <1>7, <1>8, <1>9

-----------------------------------------------------------------------------
(* Firing an item.                                                         *)

\* What a fire has done: the item is on the board, fired at now; a new one may
\* be there beside it.
Fired(d, r, id, now) ==
  /\ r.dir \in Dir /\ Grouped(r.dir.board) /\ Fresh(r.dir.board)
  /\ r.dir.done = d.done /\ r.dir.detail = d.detail
  /\ d.board.next <= r.dir.board.next
  /\ \A x \in Ids \ {id} : x < d.board.next => r.dir.board.item[x] = d.board.item[x]
  /\ \A x \in Ids : x >= d.board.next /\ r.dir.board.item[x] # None =>
       r.dir.board.item[x].created = now /\ r.dir.board.item[x].tickled = 0
  /\ \A x \in Ids : x >= d.board.next /\ x < r.dir.board.next => r.dir.board.item[x] # None
  /\ r.dir.board.item[id] # None
  /\ r.dir.board.item[id].created = d.board.item[id].created
  /\ r.dir.board.item[id].tickled = now
  /\ KeepsCaps(d, r.dir) /\ KeepsOrder(d.board, r.dir.board, {id})
  /\ r.accepts = {}

\* An item of the board is one.
LEMMA ItemIs ==
  ASSUME NEW d \in Dir, NEW id \in Ids, d.board.item[id] # None
  PROVE  d.board.item[id] \in Item
<1>1. d.board.item[id] \in Item \cup {None}
  BY DirFields
<1> QED
  BY <1>1

\* A fire's destination is a stage of the board.
LEMMA FireDestIsOne ==
  ASSUME NEW d \in Dir, NEW id \in Ids, d.board.item[id] # None, FireDest(d, id) # None
  PROVE  FireDest(d, id) \in StageSet
<1>1. d.board.item[id] \in Item
  BY ItemIs
<1>2. d.board.item[id].dest \in StageSet \cup {None}
  BY <1>1, ItemFields
<1> QED
  BY <1>2, DirectoryAssumption DEF FireDest

\* A fire: the item moves, or a new one is added, and the day is stamped.
LEMMA FireSound ==
  ASSUME NEW d \in Dir, Grouped(d.board), Fresh(d.board), NEW id \in Ids, d.board.item[id] # None,
         NEW now \in Nat, NEW r \in fireOneV2(d, id, now)
  PROVE  Fired(d, r, id, now)
<1> DEFINE dest    == FireDest(d, id)
           proto   == [d.board.item[id] EXCEPT !.tickled = now]
           moved   == [proto EXCEPT !.tickler = None, !.dest = None, !.paused = FALSE]
           stamped == [d.board EXCEPT !.item[id] = proto]
           spawn   == [title |-> proto.title, reason |-> FALSE, started |-> FALSE, created |-> now,
                       tickler |-> None, dest |-> None, paused |-> FALSE, tickled |-> 0,
                       detail |-> FALSE]
           c == [InsertItem(stamped, dest, Len(stamped.run[dest]), d.board.next, spawn) EXCEPT !.next = @ + 1]
<1>1. /\ dest # None /\ ~ Full(d.board, dest)
      /\ \/ r = Onto(d, dest, Len(RemoveItem(d.board, id).run[dest]), id, moved)
         \/ /\ Allocates(d.board)
            /\ r = Result([d EXCEPT !.board = c], <<File("board")>>, <<>>, {})
  BY DEF fireOneV2
<1>2. dest \in StageSet
  BY <1>1, FireDestIsOne
<1>3. d.board \in BoardFile /\ d.board.next \in Ids /\ \A x \in Ids : x \in Nat
  <2>1. \A x \in Ids : x \in Nat
    BY DirectoryAssumption DEF Ids
  <2> QED
    BY <2>1, DirFields
<1>4. d.board.item[id] \in Item
  BY ItemIs
<1>5. /\ proto \in Item /\ proto.created = d.board.item[id].created /\ proto.tickled = now
      /\ moved \in Item /\ moved.created = d.board.item[id].created /\ moved.tickled = now
  <2> SUFFICES ASSUME NEW i \in Item, NEW p, p = [i EXCEPT !.tickled = now],
                      NEW m, m = [p EXCEPT !.tickler = None, !.dest = None, !.paused = FALSE]
               PROVE  /\ p \in Item /\ p.created = i.created /\ p.tickled = now
                      /\ m \in Item /\ m.created = i.created /\ m.tickled = now
    BY <1>4
  <2>1. p \in Item /\ p.created = i.created /\ p.tickled = now
    BY TickledField
  <2>2. m \in Item /\ m.created = p.created /\ m.tickled = p.tickled
    BY <2>1 DEF Item
  <2> QED
    BY <2>1, <2>2
<1>6. spawn \in Item /\ spawn.created = now /\ spawn.tickled = 0
  <2> HIDE DEF proto
  <2>1. proto.title \in Titles
    BY <1>5, ItemFields
  <2> QED
    BY <2>1 DEF Item
<1>s. stamped = PutItem(d.board, id, proto)
  BY DEF PutItem
<1> HIDE DEF proto, moved, spawn, stamped
<1>7. id < d.board.next
  BY <1>3 DEF Fresh
<1>8. CASE r = Onto(d, dest, Len(RemoveItem(d.board, id).run[dest]), id, moved)
  <2>1. Len(RemoveItem(d.board, id).run[dest]) \in 0..Len(RemoveItem(d.board, id).run[dest])
    BY <1>2, ElsewhereSame
  <2>2. Moved(d, r, id) /\ r.dir.board.item[id] = moved /\ KeepsCaps(d, r.dir)
    BY <1>1, <1>2, <1>5, <1>8, <2>1, OntoSound
  <2>3. \A x \in Ids : x >= d.board.next => r.dir.board.item[x] = None
    BY <1>3, <1>7, <2>2 DEF Fresh, Moved, Same
  <2>4. Fresh(r.dir.board) /\ d.board.next <= r.dir.board.next
    BY <1>3, <2>2, <2>3 DEF Fresh, Moved, Same
  <2>6. \A x \in Ids : ~ (x >= d.board.next /\ x < r.dir.board.next)
    BY <1>3, <2>2 DEF Moved, Same
  <2>5. /\ r.dir \in Dir /\ Grouped(r.dir.board)
        /\ r.dir.done = d.done /\ r.dir.detail = d.detail /\ r.accepts = {}
        /\ \A x \in Ids \ {id} : r.dir.board.item[x] = d.board.item[x]
        /\ r.dir.board.item[id] # None /\ KeepsOrder(d.board, r.dir.board, {id})
    BY <2>2 DEF Moved, Same
  <2> QED
    BY <1>5, <2>2, <2>3, <2>4, <2>5, <2>6 DEF Fired
<1>9. CASE Allocates(d.board) /\ r = Result([d EXCEPT !.board = c], <<File("board")>>, <<>>, {})
  <2> DEFINE e == InsertItem(stamped, dest, Len(stamped.run[dest]), d.board.next, spawn)
  <2>1. /\ stamped \in BoardFile /\ Grouped(stamped)
        /\ \A x \in Ids : stamped.item[x] = IF x = id THEN proto ELSE d.board.item[x]
        /\ stamped.run = d.board.run /\ stamped.next = d.board.next /\ stamped.wip = d.board.wip
    BY <1>3, <1>5, <1>s, WithItem
  <2>2. Fresh(stamped)
    BY <1>3, <1>7, <2>1 DEF Fresh
  <2>3. ~ Full(stamped, dest) /\ Allocates(stamped)
    BY <1>1, <1>9, <2>1 DEF Full, Allocates
  <2>4. Len(stamped.run[dest]) \in 0..Len(stamped.run[dest])
    BY <1>2, <2>1, RunLength
  <2>5. stamped.item[stamped.next] = None
    BY <1>3, <2>1, <2>2 DEF Fresh
  <2>6. c = [e EXCEPT !.next = @ + 1]
    OBVIOUS
  <2>7. r.dir = PutBoard(d, c) /\ r.accepts = {}
    BY <1>9 DEF Result, PutBoard
  <2> HIDE DEF c
  <2>8. e.next = stamped.next
    <3> DEFINE index == Len(stamped.run[dest])
    <3>1. e = InsertItem(stamped, dest, index, stamped.next, spawn)
      BY <2>1
    <3> HIDE DEF e, index
    <3> QED
      BY <1>2, <1>3, <1>6, <2>1, <2>4, <2>5, <3>1, InsertItemSound DEF index
  <2>9. c = PutNext(e, stamped.next + 1)
    BY <2>6, <2>8 DEF PutNext
  <2> DEFINE index == Len(stamped.run[dest])
  <2>10. c = PutNext(InsertItem(stamped, dest, index, stamped.next, spawn), stamped.next + 1)
    BY <2>1, <2>9
  <2>11. index \in 0..Len(stamped.run[dest])
    BY <2>4
  <2> HIDE DEF e, index
  <2>12. Grown(stamped, c, now) /\ c.next = stamped.next + 1
    BY <1>2, <1>6, <2>1, <2>2, <2>3, <2>10, <2>11, OneMore
  <2>13. c \in BoardFile /\ Grouped(c) /\ Fresh(c)
    BY <2>12 DEF Grown
  <2>14. r.dir \in Dir /\ r.dir.board = c /\ r.dir.done = d.done /\ r.dir.detail = d.detail
    BY <2>7, <2>13, WithBoard
  <2>15. \A x \in Ids : x < d.board.next => c.item[x] = stamped.item[x]
    BY <2>1, <2>12 DEF Grown
  <2>16. \A x \in Ids : x >= d.board.next /\ c.item[x] # None => c.item[x].created = now /\ c.item[x].tickled = 0
    <3> SUFFICES ASSUME NEW x \in Ids, x >= stamped.next, c.item[x] # None
                 PROVE  c.item[x].created = now /\ c.item[x].tickled = 0
      BY <2>1
    <3>1. x < c.next
      BY <1>3, <2>1, <2>12, <2>13 DEF Fresh
    <3> QED
      BY <2>12, <3>1 DEF Grown
  <2>17. KeepsCaps(d, r.dir)
    <3>1. c.wip = d.board.wip
      BY <2>1, <2>12 DEF Grown
    <3>2. \A s \in StageSet : Len(d.board.run[s]) \in Nat
      BY <1>3, RunLength
    <3>3. \A s \in StageSet : \/ Len(c.run[s]) <= c.wip[s] \/ c.wip[s] = 0
                              \/ Len(c.run[s]) = Len(d.board.run[s])
      BY <2>1, <2>12 DEF Grown
    <3> QED
      BY <2>14, <3>1, <3>2, <3>3 DEF KeepsCaps
  <2>18. c.item[id] = proto
    BY <1>7, <2>1, <2>15
  <2>19. proto # None
    BY <1>5, NoneAssumption
  <2>20. \A x \in Ids \ {id} : x < d.board.next => c.item[x] = d.board.item[x]
    BY <2>1, <2>15
  <2>21. d.board.next <= c.next
    BY <1>3, <2>1, <2>12
  <2>22. \A x \in Ids : x >= d.board.next /\ x < c.next => c.item[x] # None
    BY <2>1, <2>12 DEF Grown
  <2>23. KeepsOrder(d.board, r.dir.board, {id})
    <3>1. KeepsOrder(d.board, stamped, {id})
      BY <2>1, SameRunsKeepOrder
    <3>2. KeepsOrder(stamped, c, {})
      BY <2>12 DEF Grown
    <3>3. KeepsOrder(stamped, c, {id})
      BY <3>2, KeepsOrderButFor
    <3>4. \A x \in Ids \ {id} : d.board.item[x] # None => stamped.item[x] # None
      BY <2>1
    <3>5. KeepsOrder(d.board, c, {id})
      BY <3>1, <3>3, <3>4, KeepsOrderTwice
    <3> QED
      BY <2>14, <3>5
  <2> QED
    BY <1>5, <2>7, <2>13, <2>14, <2>16, <2>17, <2>18, <2>19, <2>20, <2>21, <2>22, <2>23 DEF Fired
<1> QED
  BY <1>1, <1>8, <1>9

-----------------------------------------------------------------------------
(* The checker.                                                            *)

\* Nothing is wrong with a directory but detail files no item claims, each of
\* an id already given out.
Clean(d) == validate(d) \subseteq {<<"I9 orphan", id>> : id \in 1..(d.board.next - 1)}

\* What it means that the checker is silent.
LEMMA CleanDirectory ==
  ASSUME NEW d \in Dir, Clean(d)
  PROVE  /\ Fresh(d.board)
         /\ \A x \in Ids : d.board.item[x] = None \/ d.done[x] = None
         /\ \A x \in Ids : Home(d, x) # None => x < d.board.next
         /\ \A x \in Ids : d.detail[x] # None => x < d.board.next
<1>1. d.board.next \in Nat /\ \A x \in Ids : x \in Nat
  <2>1. \A x \in Ids : x \in Nat
    BY DirectoryAssumption DEF Ids
  <2>2. d.board.next \in Ids
    BY DirFields
  <2> QED
    BY <2>1, <2>2
<1>2. ASSUME NEW v \in validate(d)
      PROVE  v[1] = "I9 orphan" /\ v[2] \in 1..(d.board.next - 1)
  <2> DEFINE given == 1..(d.board.next - 1)
  <2>1. v \in {<<"I9 orphan", id>> : id \in given}
    BY DEF Clean
  <2> HIDE DEF given
  <2>2. PICK id \in given : v = <<"I9 orphan", id>>
    BY <2>1
  <2>3. v[1] = "I9 orphan" /\ v[2] = id
    BY <2>2
  <2> QED
    BY <2>3 DEF given
<1>3. \A x \in Ids : d.board.item[x] = None \/ d.done[x] = None
  <2> SUFFICES ASSUME NEW x \in Ids, d.board.item[x] # None, d.done[x] # None
               PROVE  FALSE
    OBVIOUS
  <2>1. <<"I1", x>> \in validate(d)
    BY DEF validate, checkIDs
  <2>2. <<"I1", x>>[1] = "I9 orphan"
    BY <1>2, <2>1
  <2> QED
    BY <2>2
<1>4. \A x \in Ids : Home(d, x) # None => x < d.board.next
  <2> SUFFICES ASSUME NEW x \in Ids, Home(d, x) # None, x >= d.board.next
               PROVE  FALSE
    BY <1>1
  <2>1. <<"I2", Home(d, x), x>> \in validate(d)
    BY DEF validate, checkIDs
  <2>2. <<"I2", Home(d, x), x>>[1] = "I9 orphan"
    BY <1>2, <2>1
  <2> QED
    BY <2>2
<1>5. Fresh(d.board)
  <2> SUFFICES ASSUME NEW x \in Ids, x >= d.board.next, d.board.item[x] # None
               PROVE  FALSE
    BY DEF Fresh
  <2>1. Home(d, x) = "board" /\ Home(d, x) # None
    BY NoneAssumption DEF Home
  <2> QED
    BY <1>1, <1>4, <2>1
<1>6. \A x \in Ids : d.detail[x] # None => x < d.board.next
  <2> SUFFICES ASSUME NEW x \in Ids, d.detail[x] # None, x >= d.board.next
               PROVE  FALSE
    BY <1>1
  <2>1. Home(d, x) = None
    BY <1>1, <1>4
  <2>2. d.board.item[x] = None /\ d.done[x] = None
    BY <2>1, NoneAssumption DEF Home
  <2>3. Claims(d, x) = {}
    BY <2>2 DEF Claims, ItemAt
  <2> DEFINE present == {id \in Ids : d.detail[id] # None}
             orphans == {<<"I9 orphan", id>> : id \in {i \in present : Claims(d, i) = {}}}
  <2>4. <<"I9 orphan", x>> \in checkDetails(d)
    <3>1. \E A, B, C : checkDetails(d) = A \cup B \cup orphans \cup C
      BY Zenon DEF checkDetails
    <3>2. <<"I9 orphan", x>> \in orphans
      BY <2>3
    <3> HIDE DEF orphans
    <3> QED
      BY <3>1, <3>2
  <2>5. <<"I9 orphan", x>> \in validate(d)
    BY <2>4 DEF validate
  <2>6. <<"I9 orphan", x>>[2] \in 1..(d.board.next - 1)
    BY <1>2, <2>5
  <2> QED
    BY <1>1, <2>6
<1> QED
  BY <1>3, <1>4, <1>5, <1>6

\* Ids are positive numbers.
LEMMA IdsAreNumbers ==
  \A x \in Ids : x \in Nat /\ x >= 1
<1>1. MaxId \in Nat
  BY DirectoryAssumption
<1> QED
  BY <1>1 DEF Ids

\* What an operation accepts is that the file of an id given out is orphaned.
Accepts(d, r) == \A v \in r.accepts : \E id \in Ids : v = <<"I9 orphan", id>> /\ id < d.board.next

\* What commits leaves a directory clean, if what it accepts is an orphan.
LEMMA CommitsKeepClean ==
  ASSUME NEW d \in Dir, Clean(d), NEW r, Commits(d, r), Accepts(d, r), r.dir \in Dir,
         d.board.next <= r.dir.board.next
  PROVE  Clean(r.dir)
<1>1. d.board.next \in Nat /\ r.dir.board.next \in Nat
  <2>1. d.board.next \in Ids /\ r.dir.board.next \in Ids
    BY DirFields
  <2> QED
    BY <2>1, IdsAreNumbers
<1>2. PICK n \in Nat, m \in Nat : n = d.board.next /\ m = r.dir.board.next /\ n <= m
  BY <1>1
<1>3. \A id : (id \in 1..(n - 1) \/ (id \in Ids /\ id < n)) => id \in 1..(m - 1)
  BY <1>2, IdsAreNumbers
<1>4. ASSUME NEW v \in validate(r.dir)
      PROVE  \E id \in 1..(m - 1) : v = <<"I9 orphan", id>>
  <2>1. CASE v \in r.accepts
    <3>1. PICK id \in Ids : v = <<"I9 orphan", id>> /\ id < n
      BY <1>2, <2>1 DEF Accepts
    <3>2. id \in 1..(m - 1)
      BY <1>3, <3>1
    <3> QED
      BY <3>1, <3>2
  <2>2. CASE v \in validate(d)
    <3>1. PICK id \in 1..(n - 1) : v = <<"I9 orphan", id>>
      BY <1>2, <2>2 DEF Clean
    <3>2. id \in 1..(m - 1)
      BY <1>2
    <3> QED
      BY <3>1, <3>2
  <2> QED
    BY <2>1, <2>2 DEF Commits
<1>5. validate(r.dir) \subseteq {<<"I9 orphan", id>> : id \in 1..(m - 1)}
  BY <1>4
<1> QED
  BY <1>2, <1>5 DEF Clean

==============================================================================
