------------------------------ MODULE MCSettings ------------------------------
(***************************************************************************)
(* What two requests may ask of one configuration file with a running      *)
(* tickler: forms and documents of every kind, one that sets a system-only *)
(* key in a project among them.  MCConfiguration runs it.                  *)
(***************************************************************************)
EXTENDS Settings, TLC

Defaults == "count" :> 1 @@ "density" :> 1 @@ "roots" :> 0 @@ "interval" :> Absent
File     == [Empty EXCEPT !["interval"] = 1, !["density"] = 2, !["foreign"] = 7]

Form(d, n)  == [kind |-> "form", interval |-> d, count |-> n]
Put(doc)    == [kind |-> "put", doc |-> doc, dry |-> FALSE]
Project(doc) == [kind |-> "project", doc |-> doc, dry |-> FALSE]
Dry(a)      == [a EXCEPT !.dry = TRUE]

Every2 == [Empty EXCEPT !["interval"] = 2, !["count"] = 5]
Broken == [k \in Keys |-> Bad]
Scoped == [Empty EXCEPT !["roots"] = 3, !["density"] = 0]

AllAsks == {Form(Null, Absent), Form(1, 0), Form(2, 5), Form(Bad, 1), Put(Every2), Put(Broken),
            Dry(Put(Broken)), Project(Every2), Project(Scoped), Dry(Project(Scoped))}

=============================================================================
