-------------------------------- MODULE Themes --------------------------------
(***************************************************************************)
(* The theme files and what reads and writes them: the resolution of a     *)
(* theme, token by token, and the editor, imports, exports and API calls   *)
(* of a running service, beside a user who edits the files.                *)
(*                                                                         *)
(* A theme gives each token of its two palettes a colour; 0 stands for a   *)
(* token it does not set and Bad for a value that is no colour.  "alien"   *)
(* is a token that no version of this program knows; extra is everything   *)
(* else in the document that it does not know.  The gui tokens and the     *)
(* brand are merged like the colours and left out.                         *)
(***************************************************************************)
EXTENDS Integers, Sequences

CONSTANTS
  Missing,   \* a file that is not there
  Broken,    \* one that does not parse, or names another schema version
  Requests,
  Asks,      \* what they may ask: see Ask
  Edits,     \* contents that a user's editor may leave in a file
  LibraryIds,\* what a library entry may be named, the built-in themes included
  ValidIds,  \* those of them that the grammar of an id takes
  MaxEdits   \* bound: edits from outside

Unset   == "unset"  \* a key, an id or a path that is not there
Known   == {"bg", "accent"}
Tokens  == Known \cup {"alien"}
Bad     == 9
Colors  == 1..4
Palette == [Tokens -> Colors \cup {0, Bad}]
NoColor == [t \in Tokens |-> 0]
All(c)  == [t \in Tokens |-> IF t \in Known THEN c ELSE 0]

Theme == [id : LibraryIds \cup {Unset}, mode : {Unset, "light", "dark", "auto", "odd"},
          color : Palette, dark : Palette, extra : 0..1]

BuiltinTheme     == [id |-> "default", mode |-> "auto", color |-> All(1), dark |-> All(2), extra |-> 0]
BuiltinLiteTheme == [id |-> "lite", mode |-> "light", color |-> All(3), dark |-> NoColor, extra |-> 0]
BuiltinThemes    == {BuiltinTheme, BuiltinLiteTheme}

Files   == LibraryIds \cup {"project_theme", "system_theme"}

\* A form sets some tokens of the light palette and leaves others empty.
Ask == [kind : {"editor"}, mode : {"light", "dark", "auto"}, set : [Known -> Colors \cup {0, Bad}]]
         \cup [kind : {"web_import", "import"}, to : Files \cup {"the_library"}, doc : Theme,
               overwrite : BOOLEAN, dry : BOOLEAN]
         \cup [kind : {"put"}, to : Files, doc : Theme, overwrite : BOOLEAN, dry : BOOLEAN]
         \cup [kind : {"delete"}, to : Files, dry : BOOLEAN]
         \cup [kind : {"web_export", "export"}, id : LibraryIds]

ASSUME ThemesAssumption ==
  /\ {"default", "lite", "mine"} \subseteq ValidIds /\ ValidIds \subseteq LibraryIds
  /\ {"project_theme", "system_theme", "the_library", Unset} \cap LibraryIds = {}  \* names of other things
  /\ Missing # Broken /\ Missing \notin Theme /\ Broken \notin Theme
  /\ \A d \in Edits : d \in {Missing, Broken} \/ d \in Theme
  /\ Asks \subseteq Ask /\ MaxEdits \in Nat

VARIABLES
  files,      \* what each file holds
  projectId,  \* theme.id of the project's configuration, Unset for none
  systemId,   \* theme.id of the system's
  edits,
  pc, ask,    \* the requests
  doc,        \* the theme that a request is about to write
  answer      \* what the request was answered

vars    == <<files, projectId, systemId, edits, pc, ask, doc, answer>>

-----------------------------------------------------------------------------
(* Themes.                                                                 *)

Sets(p) == \E t \in Tokens : p[t] # 0

\* The tokens, and the mode, that a theme has wrong.
Validate(t) ==
  {tok \in Tokens : t.color[tok] = Bad \/ t.dark[tok] = Bad}
    \cup (IF t.color["alien"] # 0 \/ t.dark["alien"] # 0 THEN {"alien"} ELSE {})
    \cup (IF t.mode = "odd" \/ (t.mode = "auto" /\ ~(Sets(t.color) /\ Sets(t.dark))) THEN {"mode"} ELSE {})

\* Bug: what the file says is taken, colour or not.
mergeKnownTokensBug(under, over) ==
  [t \in Known |-> IF over[t] # 0 THEN over[t] ELSE under[t]]

mergeKnownTokens(under, over) ==
  [t \in Known |-> IF over[t] \in Colors THEN over[t] ELSE under[t]]

\* A theme over the built-in default; a dark theme of one palette uses it as
\* both.  path is the file it came from, Unset for a built-in.
overlay(t, path, source) ==
  LET light == mergeKnownTokens(BuiltinTheme.color, t.color)
  IN [source |-> source, path |-> path,
      mode   |-> IF t.mode = Unset THEN BuiltinTheme.mode ELSE t.mode,
      color  |-> light,
      dark   |-> IF t.mode = "dark" /\ Sets(t.color) /\ ~Sets(t.dark)
                 THEN light ELSE mergeKnownTokens(BuiltinTheme.dark, t.dark)]

BuiltinResolved == overlay(BuiltinTheme, Unset, "builtin")

\* A library entry without a file is the built-in theme of that name.
BuiltinOf(path) == {t \in BuiltinThemes : t.id = path}

Readable(path) == files[path] \notin {Missing, Broken}

\* Unset is no candidate.
Hits(path) == path # Unset /\ (Readable(path) \/ (files[path] = Missing /\ BuiltinOf(path) # {}))

LoadCandidate(path, source) ==
  IF Readable(path) THEN overlay(files[path], path, source)
  ELSE IF files[path] = Broken THEN BuiltinResolved
  ELSE overlay(CHOOSE t \in BuiltinOf(path) : TRUE, Unset, source)

\* The places looked in, best first: two for a project, two for the system.
Candidates(project) ==
  <<IF project THEN "project_theme" ELSE Unset, IF project THEN projectId ELSE Unset,
    "system_theme", systemId>>

\* The first of them that holds a theme.
ResolveTheme(project) ==
  LET c     == Candidates(project)
      hits  == {i \in 1..4 : Hits(c[i])}
      first == CHOOSE i \in hits : \A j \in hits : i <= j
  IN IF hits = {} THEN BuiltinResolved
     ELSE LoadCandidate(c[first], IF first <= 2 THEN "project" ELSE "system")

-----------------------------------------------------------------------------
Init ==
  /\ files \in {[f \in Files |-> Missing]} \cup {[[f \in Files |-> Missing] EXCEPT !["system_theme"] = d] : d \in Edits}
  /\ projectId \in {Unset, "lite"}
  /\ systemId \in {Unset, "lite", "mine"} \cap (LibraryIds \cup {Unset})
  /\ edits = 0
  /\ pc = [r \in Requests |-> "idle"]
  /\ ask \in [Requests -> Asks]
  /\ doc = [r \in Requests |-> BuiltinTheme]
  /\ answer = [r \in Requests |-> "none"]

At(r, kind)    == pc[r] = "idle" /\ ask[r].kind = kind
Answer(r, how) == /\ pc' = [pc EXCEPT ![r] = "done"]
                  /\ answer' = [answer EXCEPT ![r] = how]

\* Another program, or an editor, writes a file.
Edit ==
  /\ edits < MaxEdits
  /\ edits' = edits + 1
  /\ \E f \in Files, d \in Edits : files' = [files EXCEPT ![f] = d]
  /\ UNCHANGED <<projectId, systemId, pc, ask, doc, answer>>

\* Another theme is chosen in the settings.
Select ==
  /\ edits < MaxEdits
  /\ edits' = edits + 1
  /\ \/ projectId' \in LibraryIds \cup {Unset} /\ UNCHANGED systemId
     \/ systemId' \in LibraryIds \cup {Unset} /\ UNCHANGED projectId
  /\ UNCHANGED <<files, pc, ask, doc, answer>>

\* t with the gaps of a palette filled from what was resolved.
Filled(p, resolved) == [t \in Tokens |-> IF p[t] = 0 /\ t \in Known THEN resolved[t] ELSE p[t]]

\* Bug: the document is built from the resolved tokens.
SourceBug(path) == BuiltinTheme

\* The file that was resolved, with all it holds; without one the default.
Source(path) == IF path # Unset /\ Readable(path) THEN files[path] ELSE BuiltinTheme

\* The form over the file it edits, with the gaps filled from what was shown.
LaidOver(form, from, resolved) ==
  [from EXCEPT !.id = "mine", !.mode = form.mode,
               !.color = [t \in Tokens |-> IF t \in Known /\ form.set[t] # 0
                                           THEN form.set[t] ELSE Filled(from.color, resolved.color)[t]],
               !.dark = Filled(from.dark, resolved.dark)]

\* POST /settings/theme: the theme that applies to the system is resolved, its
\* own file is read, the form is laid over it.
saveThemeEditor(r) ==
  /\ At(r, "editor")
  /\ LET resolved == ResolveTheme(FALSE)
         next     == LaidOver(ask[r], Source(resolved.path), resolved)
     IN IF Validate(next) # {}
        THEN Answer(r, "refused") /\ UNCHANGED doc
        ELSE /\ doc' = [doc EXCEPT ![r] = next]
             /\ pc' = [pc EXCEPT ![r] = "write"]
             /\ UNCHANGED answer
  /\ UNCHANGED <<files, projectId, systemId, edits, ask>>

Unnamed(dest) == dest = Unset

\* Both imports: the theme is validated, and a library entry that is there is
\* not replaced unasked.  The form's import has the library only, does nothing
\* with a theme that has no id, and does not ask whether the id is valid.
importTheme(r) ==
  /\ At(r, "import") \/ At(r, "web_import")
  /\ LET t    == ask[r].doc
         web  == ask[r].kind = "web_import"
         dest == IF web \/ ask[r].to = "the_library" THEN t.id ELSE ask[r].to
     IN IF \/ Validate(t) # {}
           \/ ~web /\ (Unnamed(dest) \/ (ask[r].to = "the_library" /\ dest \notin ValidIds))
        THEN Answer(r, "refused") /\ UNCHANGED doc
        ELSE IF Unnamed(dest) THEN Answer(r, "ok") /\ UNCHANGED doc
        ELSE IF dest \in LibraryIds /\ files[dest] # Missing /\ ~ask[r].overwrite
        THEN Answer(r, "conflict") /\ UNCHANGED doc
        ELSE IF ask[r].dry /\ ~web THEN Answer(r, "ok") /\ UNCHANGED doc
        ELSE /\ doc' = [doc EXCEPT ![r] = t]
             /\ pc' = [pc EXCEPT ![r] = "write"]
             /\ UNCHANGED answer
  /\ UNCHANGED <<files, projectId, systemId, edits, ask>>

putThemeFile(r) ==
  /\ At(r, "put")
  /\ LET t == ask[r].doc
     IN IF Validate(t) # {} \/ ask[r].dry
        THEN Answer(r, IF Validate(t) # {} THEN "refused" ELSE "ok") /\ UNCHANGED doc
        ELSE /\ doc' = [doc EXCEPT ![r] = t]
             /\ pc' = [pc EXCEPT ![r] = "write"]
             /\ UNCHANGED answer
  /\ UNCHANGED <<files, projectId, systemId, edits, ask>>

Destination(r) ==
  IF ask[r].kind = "editor" THEN "system_theme"
  ELSE IF ask[r].kind = "web_import" \/ ask[r].to = "the_library" THEN doc[r].id ELSE ask[r].to

\* theme.Save(): the fields are folded into the document read, and the file is
\* replaced.  The web handlers drop the error.
Write(r) ==
  /\ pc[r] = "write"
  /\ files' = [files EXCEPT ![Destination(r)] = doc[r]]
  /\ Answer(r, "ok")
  /\ UNCHANGED <<projectId, systemId, edits, ask, doc>>

\* Deleting what is not there is not an error.
deleteThemeFile(r) ==
  /\ At(r, "delete")
  /\ files' = IF ask[r].dry THEN files ELSE [files EXCEPT ![ask[r].to] = Missing]
  /\ Answer(r, "ok")
  /\ UNCHANGED <<projectId, systemId, edits, ask, doc>>

\* What a theme's id exports: a built-in before a file of its name.
exportTheme(r) ==
  /\ At(r, "export")
  /\ LET id == ask[r].id
     IN IF BuiltinOf(id) # {} THEN Answer(r, "builtin")
        ELSE IF id \in ValidIds /\ Readable(id) THEN Answer(r, "file") ELSE Answer(r, "not_found")
  /\ UNCHANGED <<files, projectId, systemId, edits, ask, doc>>

\* The page and the download of the web: LoadTheme() of a missing file is nil,
\* and not an error.
resolveExportTheme(r) ==
  /\ At(r, "web_export")
  /\ LET id == ask[r].id
     IN Answer(r, CASE BuiltinOf(id) # {}   -> "builtin"
                    [] BuiltinOf(id) = {} /\ Readable(id) -> "file"
                    [] BuiltinOf(id) = {} /\ files[id] = Missing -> "nil"
                    [] BuiltinOf(id) = {} /\ files[id] = Broken -> "builtin")
  /\ UNCHANGED <<files, projectId, systemId, edits, ask, doc>>

Next ==
  \/ Edit \/ Select
  \/ \E r \in Requests :
       \/ saveThemeEditor(r) \/ importTheme(r) \/ putThemeFile(r) \/ Write(r)
       \/ deleteThemeFile(r) \/ exportTheme(r) \/ resolveExportTheme(r)

Spec == Init /\ [][Next]_vars

-----------------------------------------------------------------------------
\* What is about to be written is a theme, and goes to a file of the three kinds.
TypeOK ==
  /\ files \in [Files -> {Missing, Broken} \cup Theme]
  /\ {projectId, systemId} \subseteq LibraryIds \cup {Unset}
  /\ edits \in 0..MaxEdits
  /\ pc \in [Requests -> {"idle", "write", "done"}] /\ ask \in [Requests -> Asks]
  /\ doc \in [Requests -> Theme]
  /\ \A r \in Requests : pc[r] = "write" => Destination(r) \in Files

\* "A broken theme never prevents a resolution": every token of both palettes
\* has a colour, whatever the files hold.
ResolvedIsComplete ==
  \A project \in BOOLEAN : \A t \in Known :
    ResolveTheme(project).color[t] \in Colors /\ ResolveTheme(project).dark[t] \in Colors

\* The precedence of 8.7: nothing readable above the file that was taken, where
\* an id stands for its file or for the built-in of that name.
FirstHitWins ==
  \A project \in BOOLEAN :
    LET res  == ResolveTheme(project)
        has(path) == path # Unset /\ (Readable(path) \/ (files[path] = Missing /\ BuiltinOf(path) # {}))
        pt == has("project_theme") /\ project
        pl == has(projectId) /\ project
    IN /\ pt                                => res.path = "project_theme"
       /\ ~pt /\ pl                         => res.source = "project" /\ res.path \in {projectId, Unset}
       /\ ~pt /\ ~pl /\ has("system_theme")  => res.path = "system_theme" /\ res.source = "system"
       /\ ~pt /\ ~pl /\ ~has("system_theme") => res.source = IF has(systemId) THEN "system" ELSE "builtin"

\* What the editor saves is what the system shows next, whichever theme was
\* shown before, and the rest of that theme's file is still there.
SavedIsShown ==
  [][\A r \in Requests : ask[r].kind = "editor" /\ pc[r] = "write" /\ pc'[r] = "done" =>
       LET now == ResolveTheme(FALSE)'
       IN /\ now.path = "system_theme" /\ now.mode = ask[r].mode
          /\ \A t \in Known : ask[r].set[t] # 0 => now.color[t] = ask[r].set[t]]_vars

\* A theme from a newer implementation survives the editor: what this one does
\* not know is carried over from the file that was edited.
EditorKeepsTheRest ==
  [][\A r \in Requests : At(r, "editor") /\ pc'[r] = "write" =>
       LET path == ResolveTheme(FALSE).path
       IN path # Unset => doc'[r].extra = files[path].extra]_vars

\* A complete theme resolves, by the precedence of the candidates.
ThemeResolves == TypeOK /\ ResolvedIsComplete /\ FirstHitWins

\* What the editor saves is shown, with what it does not know kept.
EditorSaves == SavedIsShown /\ EditorKeepsTheRest

=============================================================================
