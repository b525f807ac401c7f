------------------------------ MODULE MCFileTx -------------------------------
(***************************************************************************)
(* FileTx with three files and contents that are bare tokens: two Stores,  *)
(* of which one has two callers.                                           *)
(***************************************************************************)
EXTENDS FileTx, FiniteSets

CONSTANTS board, done, note  \* board.md, done.md and one details/ file

Order == <<board, done, note>>

TwoStores == [w \in Workers |-> IF w = "cli" THEN "cli" ELSE "web"]

\* A file's two tokens say only that it was changed.
Other(v) == CHOOSE x \in Values : x # v

InitSmall == {[f \in Files |-> 1]}

Req(writes, deletes) == [writes |-> writes, deletes |-> deletes]

\* --list; a move; a finish with a note; the note alone; a detach with Delete.
RequestsSmall == [w \in Workers |-> {Req(<<>>, <<>>), Req(<<board>>, <<>>), Req(<<note, done, board>>, <<>>),
                  Req(<<note>>, <<>>), Req(<<board>>, <<note>>)}]

\* Refused when there is no detail file to change.
PlanSmall(c, r) ==
  LET in(s) == {s[i] : i \in 1..Len(s)}
      target == [f \in Files |-> IF f \in in(r.deletes) THEN Absent
                                 ELSE IF f \in in(r.writes) THEN Other(c[f]) ELSE c[f]]
  IN IF c[note] = Absent /\ note \in in(r.writes) \cup in(r.deletes) THEN {}
     ELSE {[target |-> target, writes |-> r.writes, deletes |-> r.deletes]}

=============================================================================
