------------------------------- MODULE Lines -------------------------------
(***************************************************************************)
(* The line editor (write.go, board.go, frontmatter.go, itemline.go).      *)
(*                                                                         *)
(* A transaction parses board.md or done.md, splices lines in and out of   *)
(* it and keeps the line numbers of what it parsed up to date as it goes:  *)
(* header keys, month headings and items.  At the end it lays the items    *)
(* of a board out by stage, parses the result and writes it unless that    *)
(* shows a new violation.  What a number is off by, the next splice puts   *)
(* into somebody else's line.                                              *)
(***************************************************************************)
EXTENDS Integers, Sequences, FiniteSets, SequencesExt, FiniteSetsExt

CONSTANTS
  None,
  Ids,         \* of items
  Keys,        \* of the header
  Registered,  \* the fields a program knows, in the order it writes them
  Stages,      \* of the board, in its order
  Months,      \* numbers
  InitFiles,   \* files, as sequences of lines
  MaxEdits,    \* bound: edits in a transaction
  MaxCommits   \* bound: transactions

Delimiter == [k |-> "---"]
Blank     == [k |-> "blank"]
Prose     == [k |-> "prose"]
Broken    == [k |-> "broken"]  \* begins like an item and cannot be read
Key(key, val)      == [k |-> "key", key |-> key, val |-> val]
Heading(m)         == [k |-> "heading", month |-> m]
StageComment(s)    == [k |-> "comment", stage |-> s]
Entry(id, fields)  == [k |-> "item", id |-> id, fields |-> fields]

Where(ls, kind) == {i \in DOMAIN ls : ls[i].k = kind}
First(S, else)  == IF S = {} THEN else ELSE Min(S)

-----------------------------------------------------------------------------
(* Reading.                                                                *)

\* setField: what is not registered is kept as it is written, in its order.
parseItemLine(fields) ==
  [known |-> [key \in ToSet(Registered) |->
                LET at == {i \in DOMAIN fields : fields[i][1] = key}
                IN IF at = {} THEN None ELSE fields[CHOOSE i \in at : TRUE][2]],
   extra |-> SelectSeq(fields, LAMBDA p : p[1] \notin ToSet(Registered))]

\* Bug: only what is registered.
RenderBug(it) == SelectSeq([i \in DOMAIN Registered |-> <<Registered[i], it.known[Registered[i]]>>],
                           LAMBDA p : p[2] # None)

RenderItemLine(it) ==
  SelectSeq([i \in DOMAIN Registered |-> <<Registered[i], it.known[Registered[i]]>>],
            LAMBDA p : p[2] # None) \o it.extra

\* The header ends at the second delimiter; a key given twice has the last value.
HeaderEnd(ls) == Min(Where(ls, "---") \ {1})
parseFrontmatter(ls) ==
  [key \in Keys |-> LET at == {i \in 1..HeaderEnd(ls) : ls[i].k = "key" /\ ls[i].key = key}
                    IN IF at = {} THEN 0 ELSE Max(at)]

InOrder(ls, positions) == [i \in 1..Cardinality(positions) |-> ls[SetToSortSeq(positions, <)[i]].id]

\* The groups of done.md; a board has none, whatever its headings.
parseMonths(ls, board) ==
  LET heads == IF board THEN <<>> ELSE SetToSortSeq(Where(ls, "heading"), <)
      below(i) == {p \in Where(ls, "item") : heads[i] < p /\ (i < Len(heads) => p < heads[i + 1])}
  IN [i \in DOMAIN heads |->
        [month |-> ls[heads[i]].month, line |-> heads[i], items |-> InOrder(ls, below(i))]]

Parsed(ls, board) ==
  LET lineOf(id) == First({i \in Where(ls, "item") : ls[i].id = id}, 0)
  IN [lines  |-> ls, board |-> board,
      end    |-> HeaderEnd(ls), fm |-> parseFrontmatter(ls),
      at     |-> [id \in Ids |-> lineOf(id)],
      item   |-> [id \in Ids |-> IF lineOf(id) = 0 THEN None ELSE parseItemLine(ls[lineOf(id)].fields)],
      order  |-> InOrder(ls, Where(ls, "item")),
      months |-> parseMonths(ls, board)]

\* What --check says of it: an item under no month or under one it was not
\* finished in, and a line it cannot read.
Violations(ls, board) ==
  LET f == Parsed(ls, board)
      under(id) == {f.months[i].month : i \in {i \in DOMAIN f.months : id \in ToSet(f.months[i].items)}}
  IN (IF board THEN {} ELSE {<<"I3", id>> : id \in {id \in Ids : f.item[id] # None /\ under(id) # {f.item[id].known["done"]}}})
     \cup (IF Where(ls, "broken") = {} THEN {} ELSE {<<"format">>})

-----------------------------------------------------------------------------
(* Splices.                                                                *)

Moved(n, from, delta) == IF n >= from THEN n + delta ELSE n

shift(f, from, delta) ==
  [f EXCEPT !.at  = [id \in Ids |-> IF @[id] = 0 THEN 0 ELSE Moved(@[id], from, delta)],
            !.fm  = [key \in Keys |-> IF @[key] = 0 THEN 0 ELSE Moved(@[key], from, delta)],
            !.end = Moved(@, from, delta),
            !.months = [i \in DOMAIN @ |-> [@[i] EXCEPT !.line = Moved(@, from, delta)]]]

InsertLine(f, n, l) == shift([f EXCEPT !.lines = InsertAt(@, n, l)], n, 1)
DeleteLine(f, n)    == shift([f EXCEPT !.lines = RemoveAt(@, n)], n + 1, -1)
ReplaceLine(f, n, l) == [f EXCEPT !.lines[n] = l]

IsBlank(f, n) == n \in DOMAIN f.lines /\ f.lines[n] = Blank

\* A new key goes to the end of the header.
SetFM(f, key, val) ==
  IF f.fm[key] # 0 THEN ReplaceLine(f, f.fm[key], Key(key, val))
  ELSE [InsertLine(f, f.end, Key(key, val)) EXCEPT !.fm[key] = f.end]

DeleteFM(f, key) == DeleteLine([f EXCEPT !.fm[key] = 0], f.fm[key])

ReplaceItem(f, id, it) ==
  [ReplaceLine(f, f.at[id], Entry(id, RenderItemLine(it))) EXCEPT !.item[id] = it]

\* Of two blank lines that the item was between, one goes with it.
RemoveItem(f, id) ==
  LET n == f.at[id]
      g == DeleteLine(f, n)
      h == IF IsBlank(g, n) /\ IsBlank(g, n - 1) THEN DeleteLine(g, n) ELSE g
  IN [h EXCEPT !.at[id] = 0, !.item[id] = None,
               !.order  = SelectSeq(@, LAMBDA x : x # id),
               !.months = [i \in DOMAIN @ |-> [@[i] EXCEPT !.items = SelectSeq(@, LAMBDA x : x # id)]]]

\* Below a heading without items: past blank lines and comments, and short of
\* the end of the file.
Below(f, head) ==
  First({n \in (head + 1)..Len(f.lines) : f.lines[n].k \notin {"blank", "comment"}}, Max({head + 1, Len(f.lines)}))

\* The new item is a line of its own, between blank lines if it is the first.
insertUnder(f, i, id, it) ==
  LET head  == f.months[i].line
      empty == f.months[i].items = <<>>
      at0   == IF empty THEN Below(f, head) ELSE f.at[f.months[i].items[1]]
      above == empty /\ ~IsBlank(f, at0 - 1)
      g     == IF above THEN InsertLine(f, at0, Blank) ELSE f
      at    == IF above THEN at0 + 1 ELSE at0
      h     == IF empty /\ at \in DOMAIN g.lines /\ g.lines[at].k = "heading" THEN InsertLine(g, at, Blank) ELSE g
      inserted == InsertLine(h, at, Entry(id, RenderItemLine(it)))
  IN [inserted EXCEPT !.at[id] = at, !.item[id] = it, !.months[i].items = <<id>> \o @]

\* newMonth: before the first older month, else after the last one's items,
\* else at the end of the text.
monthInsertPos(f, month) ==
  LET older == {i \in DOMAIN f.months : f.months[i].month < month}
      last  == f.months[Len(f.months)]
      text  == {n \in DOMAIN f.lines : f.lines[n] # Blank}
  IN IF older # {} THEN <<f.months[Min(older)].line - 1, Min(older)>>
     ELSE IF f.months # <<>>
     THEN <<1 + (IF last.items = <<>> THEN last.line ELSE f.at[Last(last.items)]), Len(f.months) + 1>>
     ELSE <<Max(text) + 1, 1>>

newMonth(f, month) ==
  LET pos == monthInsertPos(f, month)
      g   == InsertLine(InsertLine(f, pos[1], Blank), pos[1] + 1, Heading(month))
  IN [g EXCEPT !.months = InsertAt(@, pos[2], [month |-> month, line |-> pos[1] + 1, items |-> <<>>])]

\* The item becomes the first of its month, which may have to be made.
InsertDone(f, id, it) ==
  LET month == it.known["done"]
      has(g) == {i \in DOMAIN g.months : g.months[i].month = month}
      g == IF has(f) = {} THEN newMonth(f, month) ELSE f
  IN insertUnder(g, Min(has(g)), id, it)

Run(f, s) == SelectSeq(f.order, LAMBDA id : f.item[id].known["stage"] = s)

\* boardInsertPos: into its stage's run, or at the end of the text.
InsertBoard(f, index, id, it) ==
  LET run == Run(f, it.known["stage"])
      at  == IF run = <<>> THEN 1 + Max({n \in DOMAIN f.lines : f.lines[n] # Blank})
             ELSE IF index = Len(run) + 1 THEN f.at[Last(run)] + 1 ELSE f.at[run[index]]
      g   == InsertLine(f, at, Entry(id, RenderItemLine(it)))
      later == {i \in DOMAIN f.order : g.at[f.order[i]] > at}
  IN [g EXCEPT !.at[id] = at, !.item[id] = it,
               !.order = InsertAt(@, First(later, Len(@) + 1), id)]

Strays(f) == SelectSeq(f.order, LAMBDA id : f.item[id].known["stage"] \notin ToSet(Stages))

\* regroupBoard: what stands before the first item stays, up to a comment that
\* names a stage.  Everything else is written anew from the items.
regroupBoard(f) ==
  LET first == Min({f.at[id] : id \in ToSet(f.order)})
      cut   == First({n \in Where(f.lines, "comment") : n < first}, first)
      intro == {n \in 1..cut - 1 : f.lines[n] # Blank}
      block(s, ids) == <<Blank, StageComment(s)>> \o
                       [i \in DOMAIN ids |-> Entry(ids[i], RenderItemLine(f.item[ids[i]]))]
  IN IF f.order = <<>> THEN f.lines
     ELSE SubSeq(f.lines, 1, First({Max(intro)}, 0))
          \o FlattenSeq([i \in DOMAIN Stages |-> block(Stages[i], Run(f, Stages[i]))])
          \o (IF Strays(f) = <<>> THEN <<>> ELSE block("undeclared", Strays(f))) \o <<Blank>>

-----------------------------------------------------------------------------
(* Transactions.                                                           *)

VARIABLES
  file,     \* the lines on disk, and whether they are board.md's
  f,        \* the file as the transaction has it
  touched,  \* the items and the header keys it edited
  commits   \* bound: so many transactions so far

vars == <<file, f, touched, commits>>

Init ==
  /\ file \in InitFiles
  /\ f = Parsed(file.lines, file.board)
  /\ touched = {} /\ commits = 0

\* An item as an operation makes it; the tests of its fields are elsewhere.
NewItem(where) ==
  [known |-> [key \in ToSet(Registered) |-> IF key = (IF f.board THEN "stage" ELSE "done") THEN where ELSE None],
   extra |-> <<>>]

Does(g, what) == /\ Cardinality(touched) < MaxEdits /\ what \notin touched
                 /\ f' = g /\ touched' = touched \cup {what}
                 /\ UNCHANGED <<file, commits>>

InsertAny == \E id \in {id \in Ids : f.item[id] = None} :
  IF f.board
  THEN \E s \in ToSet(Stages) : \E index \in {1, Len(Run(f, s)) + 1} : Does(InsertBoard(f, index, id, NewItem(s)), id)
  ELSE \E m \in Months : Does(InsertDone(f, id, NewItem(m)), id)

RemoveAny == \E id \in {id \in Ids : f.item[id] # None} : Does(RemoveItem(f, id), id)

RewriteAny == \E id \in {id \in Ids : f.item[id] # None}, v \in {"low", None} :
  Does(ReplaceItem(f, id, [f.item[id] EXCEPT !.known["prio"] = v]), id)

SetKey  == \E key \in Keys : Does(SetFM(f, key, "new"), key)
DropKey == \E key \in {key \in Keys : f.fm[key] # 0} : Does(DeleteFM(f, key), key)

\* Nothing is laid out or written unless some line differs.
Pending == IF f.board /\ f.lines # file.lines THEN regroupBoard(f) ELSE f.lines
Accepted == Violations(Pending, f.board) \subseteq Violations(file.lines, f.board)

Commit ==
  /\ touched # {} /\ commits < MaxCommits
  /\ commits' = commits + 1 /\ touched' = {}
  /\ IF Accepted THEN file' = [file EXCEPT !.lines = Pending] ELSE UNCHANGED file
  /\ f' = Parsed(file'.lines, file'.board)

Next == InsertAny \/ RemoveAny \/ RewriteAny \/ SetKey \/ DropKey \/ Commit

Spec == Init /\ [][Next]_vars

-----------------------------------------------------------------------------
\* However many splices a transaction makes, what it believes of the file is
\* what a reader finds in it, or the check before the commit reports the
\* difference.
NumbersHold == Violations(f.lines, f.board) \subseteq Violations(file.lines, f.board) =>
                 [f EXCEPT !.order = <<>>] = [Parsed(f.lines, f.board) EXCEPT !.order = <<>>]

\* A commit leaves every item it did not edit with its fields, those nobody
\* registered included, and in its place among the others of its stage or
\* month; every header key it did not set keeps its value.
RestStays ==
  [][file' # file =>
       LET old == Parsed(file.lines, file.board)
           new == Parsed(file'.lines, file.board)
           rest(g, where, x) == SelectSeq(g.order, LAMBDA id : id \notin touched /\ g.item[id].known[where] = x)
       IN /\ \A id \in Ids \ touched : new.item[id] = old.item[id]
          /\ \A x \in ToSet(Stages) : rest(new, "stage", x) = rest(old, "stage", x)
          /\ \A x \in Months : rest(new, "done", x) = rest(old, "done", x)
          /\ \A key \in Keys \ touched :
               (new.fm[key] # 0) = (old.fm[key] # 0)
               /\ (new.fm[key] # 0 => file'.lines[new.fm[key]] = file.lines[old.fm[key]])]_vars

=============================================================================
