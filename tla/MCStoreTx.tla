------------------------------ MODULE MCStoreTx ------------------------------
(***************************************************************************)
(* StoreTx with two items: one with a detail file, one without.  One       *)
(* process works on them and may crash; another lists the directory.       *)
(***************************************************************************)
EXTENDS StoreTx

CONSTANTS t1, t2, n1

StagesSmall == <<"ready", "working">>
NoReasons   == <<>>
NoTicklers  == [s \in {} |-> "ready"]

OwnStores == [w \in Workers |-> w]

Line(title, detail) ==
  [title |-> title, reason |-> FALSE, started |-> FALSE, created |-> 1, tickler |-> None,
   dest |-> None, paused |-> FALSE, tickled |-> 0, detail |-> detail]

TwoItems ==
  [board  |-> [item |-> [id \in Ids |-> CASE id = 1 -> Line(t1, TRUE)
                                          [] id = 2 -> Line(t1, FALSE)
                                          [] OTHER  -> None],
               run  |-> [s \in StageSet |-> IF s = "ready" THEN <<1, 2>> ELSE <<>>],
               next |-> 3, wip |-> [s \in StageSet |-> 0]],
   done   |-> [id \in Ids |-> None],
   detail |-> [id \in Ids |-> IF id = 1 THEN [title |-> t1, body |-> {}] ELSE None]]

InitSmall == {TwoItems}

Ask(op, id, option) == [op |-> op, id |-> id, option |-> option]

Writes == [op : {"finish", "remove"}, id : 1..2, option : BOOLEAN]
          \cup [op : {"note", "edit"}, id : 1..2, option : {FALSE}]
          \cup {Ask("add", 0, TRUE), Ask("add", 0, FALSE), Ask("attach", 2, FALSE),
                Ask("detach", 1, TRUE), Ask("detach", 1, FALSE)}

RequestsSmall == [w \in Workers |-> IF w = "reader" THEN {Ask("list", 0, FALSE)} ELSE Writes]

=============================================================================
