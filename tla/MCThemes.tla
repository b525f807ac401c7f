------------------------------- MODULE MCThemes -------------------------------
(***************************************************************************)
(* What two requests may ask of the theme files, four library entries of   *)
(* which one has no built-in among them, and what an editor may leave in   *)
(* one.  MCRequests runs it.                                               *)
(***************************************************************************)
EXTENDS Themes, TLC

Partial == [id |-> "mine", mode |-> "dark", color |-> "bg" :> 4 @@ "accent" :> 0 @@ "alien" :> 0,
            dark |-> NoColor, extra |-> 1]
Wrong   == [id |-> Unset, mode |-> "odd", color |-> "bg" :> Bad @@ "accent" :> 3 @@ "alien" :> 2,
            dark |-> All(4), extra |-> 1]

AllEdits == {Missing, Broken, Partial, Wrong}

Editor(m, bg, accent) == [kind |-> "editor", mode |-> m, set |-> "bg" :> bg @@ "accent" :> accent]
Doc(k, to, d)  == [kind |-> k, to |-> to, doc |-> d, overwrite |-> FALSE, dry |-> FALSE]
Overwrite(a)   == [a EXCEPT !.overwrite = TRUE]
Dry(a)         == [a EXCEPT !.dry = TRUE]
Delete(to)     == [kind |-> "delete", to |-> to, dry |-> FALSE]
Export(k, id)  == [kind |-> k, id |-> id]
Nameless       == [Partial EXCEPT !.id = Unset]
OddlyNamed     == [Partial EXCEPT !.id = "My Theme"]

Editors  == {Editor("dark", 3, 0), Editor("auto", 0, Bad), Editor("light", 0, 4)}
Exports  == {Export("export", "mine"), Export("web_export", "lite")}
Imports  == {Doc("web_import", "the_library", Partial), Doc("import", "the_library", Nameless),
             Doc("web_import", "the_library", OddlyNamed), Doc("import", "the_library", OddlyNamed),
             Doc("import", "the_library", Wrong), Doc("import", "system_theme", Nameless),
             Overwrite(Doc("import", "the_library", BuiltinLiteTheme)),
             Dry(Doc("import", "the_library", Partial))}
Puts     == {Doc("put", "project_theme", Partial), Dry(Doc("put", "system_theme", Wrong))}
Deletes  == {Delete("system_theme"), Dry(Delete("project_theme"))}

AllAsks  == Editors \cup Exports \cup Imports \cup Puts \cup Deletes

=============================================================================
