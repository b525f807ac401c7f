---------------------------- MODULE RequestsProofs ----------------------------
(***************************************************************************)
(* What holds of the requests of the web service that overlap, for any     *)
(* number of requests, projects and people, and whatever the files hold.   *)
(* TLC checks two requests at a time in the run of MCRequests.             *)
(*                                                                         *)
(* Themes.  A candidate that hits is a theme, or a built-in by that name,  *)
(* so what is taken is laid over the built-in default token by token       *)
(* (Overlaid).  A request that has still to write carries what its form    *)
(* says, checked (Composed); once written, the file is the first candidate *)
(* of the system's theme.                                                  *)
(*                                                                         *)
(* Registry.  A project that a request is sure of is known, or the next    *)
(* walk to be kept has found it (RegistryInv).                             *)
(*                                                                         *)
(* Forms.  A form shows the item of its revision, and a save under way is  *)
(* of a form (FormsInv).                                                   *)
(***************************************************************************)
EXTENDS MCRequests, TLAPS

-----------------------------------------------------------------------------
(* The theme files.                                                        *)

\* What the editor is about to write has no fault, and is what its form says.
Composed(r) ==
  /\ doc[r].mode = ask[r].mode
  /\ Validate(doc[r]) = {}
  /\ \A t \in Known : ask[r].set[t] # 0 => doc[r].color[t] = ask[r].set[t]

ThemesInv ==
  /\ TypeOK
  /\ \A r \in Requests : pc[r] = "write" /\ ask[r].kind = "editor" => Composed(r)

\* The built-in themes are themes.
LEMMA Builtins == BuiltinTheme \in Theme /\ BuiltinThemes \subseteq Theme
<1>1. \A c \in 0..4 : All(c) \in Palette
  BY DEF All, Palette, Tokens, Known, Colors
<1>2. NoColor \in Palette
  BY DEF NoColor, Palette, Tokens, Known, Colors
<1>3. All(1) \in Palette /\ All(2) \in Palette /\ All(3) \in Palette
  BY <1>1
<1>4. "default" \in LibraryIds /\ "lite" \in LibraryIds
  BY ThemesAssumption
<1>5. BuiltinTheme \in Theme /\ BuiltinLiteTheme \in Theme
  BY <1>2, <1>3, <1>4 DEF BuiltinTheme, BuiltinLiteTheme, Theme
<1> QED
  BY <1>5 DEF BuiltinThemes

\* The fields of a theme.
LEMMA ThemeFields ==
  ASSUME NEW t \in Theme
  PROVE  /\ t.id \in LibraryIds \cup {Unset} /\ t.mode \in {Unset, "light", "dark", "auto", "odd"}
         /\ t.color \in Palette /\ t.dark \in Palette /\ t.extra \in 0..1
BY DEF Theme

\* A palette over one that has a colour for each token has, too.
LEMMA MergeIs ==
  ASSUME NEW under, NEW upper, \A t \in Known : under[t] \in Colors
  PROVE  \A t \in Known : /\ mergeKnownTokens(under, upper)[t] \in Colors
                          /\ upper[t] \in Colors => mergeKnownTokens(under, upper)[t] = upper[t]
BY DEF mergeKnownTokens

\* A theme over the built-in default, token by token.
Overlaid(res, t) ==
  /\ \A tok \in Known : /\ res.color[tok] \in Colors /\ res.dark[tok] \in Colors
                        /\ t.color[tok] \in Colors => res.color[tok] = t.color[tok]
  /\ t.mode # Unset => res.mode = t.mode

\* A theme laid over the default has a colour for each token, its own where it has one.
LEMMA OverlayIs ==
  ASSUME NEW t, NEW path, NEW source, NEW res, res = overlay(t, path, source)
  PROVE  Overlaid(res, t) /\ res.path = path /\ res.source = source
<1>1. /\ \A tok \in Known : BuiltinTheme.color[tok] \in Colors
      /\ \A tok \in Known : BuiltinTheme.dark[tok] \in Colors
  BY DEF BuiltinTheme, All, Tokens, Known, Colors
<1> DEFINE light == mergeKnownTokens(BuiltinTheme.color, t.color)
           dark  == mergeKnownTokens(BuiltinTheme.dark, t.dark)
<1>2. \A tok \in Known : light[tok] \in Colors /\ (t.color[tok] \in Colors => light[tok] = t.color[tok])
  BY <1>1, MergeIs
<1>3. \A tok \in Known : dark[tok] \in Colors
  BY <1>1, MergeIs
<1>4. /\ res.color = light /\ res.path = path /\ res.source = source
      /\ res.dark = light \/ res.dark = dark
      /\ t.mode # Unset => res.mode = t.mode
  BY DEF overlay
<1> HIDE DEF light, dark
<1> QED
  BY <1>2, <1>3, <1>4 DEF Overlaid

\* A path that no theme is built in for.
LEMMA NotBuiltin ==
  ASSUME NEW path, BuiltinOf(path) # {}
  PROVE  path \in {"default", "lite"}
BY DEF BuiltinOf, BuiltinThemes, BuiltinTheme, BuiltinLiteTheme

\* What is taken of a candidate that hits: its file, or the built-in of its name.
Taken(res, path, source) ==
  /\ \A t \in Known : res.color[t] \in Colors /\ res.dark[t] \in Colors
  /\ \/ Readable(path) /\ res = overlay(files[path], path, source)
     \/ ~ Readable(path) /\ path \in {"default", "lite"} /\ res.path = Unset
  /\ res.source = source

\* A candidate that hits is a readable file, laid over the default, or a built-in.
LEMMA CandidateIs ==
  ASSUME NEW path, NEW source, Hits(path), NEW res, res = LoadCandidate(path, source)
  PROVE  Taken(res, path, source)
<1>1. CASE Readable(path)
  <2>1. res = overlay(files[path], path, source)
    BY <1>1 DEF LoadCandidate
  <2>2. Overlaid(res, files[path]) /\ res.source = source
    BY <2>1, OverlayIs
  <2> QED
    BY <1>1, <2>1, <2>2 DEF Taken, Overlaid
<1>2. CASE ~ Readable(path)
  <2>1. files[path] = Missing /\ BuiltinOf(path) # {}
    BY <1>2 DEF Hits
  <2> DEFINE b == CHOOSE t \in BuiltinOf(path) : TRUE
  <2>2. res = overlay(b, Unset, source)
    BY <1>2, <2>1, ThemesAssumption DEF LoadCandidate
  <2> HIDE DEF b
  <2>3. Overlaid(res, b) /\ res.source = source /\ res.path = Unset
    BY <2>2, OverlayIs
  <2> QED
    BY <1>2, <2>1, <2>3, NotBuiltin DEF Taken, Overlaid
<1> QED
  BY <1>1, <1>2

-----------------------------------------------------------------------------
(* The resolution.                                                         *)

\* The i-th candidate is the first that hits, and is taken.
First(project, i, res) ==
  /\ Hits(Candidates(project)[i])
  /\ \A j \in 1..4 : j < i => ~ Hits(Candidates(project)[j])
  /\ Taken(res, Candidates(project)[i], IF i <= 2 THEN "project" ELSE "system")

\* A theme resolves from the first candidate that hits, or is the default.
LEMMA ResolveIs ==
  ASSUME NEW project \in BOOLEAN, NEW res, res = ResolveTheme(project)
  PROVE  \/ \E i \in 1..4 : First(project, i, res)
         \/ /\ \A i \in 1..4 : ~ Hits(Candidates(project)[i])
            /\ res = BuiltinResolved
<1> DEFINE c     == Candidates(project)
           hits  == {i \in 1..4 : Hits(c[i])}
           first == CHOOSE i \in hits : \A j \in hits : i <= j
<1>1. CASE hits = {}
  <2>1. res = BuiltinResolved
    BY <1>1 DEF ResolveTheme
  <2> QED
    BY <1>1, <2>1
<1>2. CASE hits # {}
  <2>1. \E i \in hits : \A j \in hits : i <= j
    <3> SUFFICES ASSUME \A i \in hits : \E j \in hits : ~ (i <= j) PROVE FALSE
      OBVIOUS
    <3>1. hits \subseteq 1..4
      OBVIOUS
    <3> HIDE DEF hits
    <3>2. 1 \notin hits
      BY <3>1
    <3>3. 2 \notin hits
      BY <3>1, <3>2
    <3>4. 3 \notin hits
      BY <3>1, <3>2, <3>3
    <3>5. PICK n \in hits : TRUE
      BY <1>2
    <3>6. n \in {1, 2, 3, 4}
      BY <3>1, <3>5
    <3> QED
      BY <3>1, <3>2, <3>3, <3>4, <3>5, <3>6
  <2>2. first \in hits /\ \A j \in hits : first <= j
    BY <2>1
  <2>3. res = LoadCandidate(c[first], IF first <= 2 THEN "project" ELSE "system")
    BY <1>2 DEF ResolveTheme
  <2>4. first \in 1..4 /\ Hits(c[first]) /\ \A j \in 1..4 : j < first => ~ Hits(c[j])
    <3>1. first \in 1..4 /\ Hits(c[first])
      BY <2>2
    <3>2. ASSUME NEW j \in 1..4, j < first, Hits(c[j]) PROVE FALSE
      <4>1. j \in hits
        BY <3>2
      <4>2. first <= j
        BY <4>1, <2>2
      <4> QED
        BY <3>1, <3>2, <4>2
    <3> QED
      BY <3>1, <3>2
  <2> HIDE DEF first
  <2>5. Taken(res, c[first], IF first <= 2 THEN "project" ELSE "system")
    BY <2>3, <2>4, CandidateIs
  <2> QED
    BY <2>4, <2>5 DEF First
<1> QED
  BY <1>1, <1>2

\* The candidates, one by one.
LEMMA CandidatesAre ==
  ASSUME NEW project \in BOOLEAN
  PROVE  /\ Candidates(project)[1] = IF project THEN "project_theme" ELSE Unset
         /\ Candidates(project)[2] = IF project THEN projectId ELSE Unset
         /\ Candidates(project)[3] = "system_theme"
         /\ Candidates(project)[4] = systemId
BY DEF Candidates

\* The default has a colour for each token.
LEMMA DefaultIs ==
  /\ \A t \in Known : BuiltinResolved.color[t] \in Colors /\ BuiltinResolved.dark[t] \in Colors
  /\ BuiltinResolved.path = Unset /\ BuiltinResolved.source = "builtin"
<1>1. Overlaid(BuiltinResolved, BuiltinTheme) /\ BuiltinResolved.path = Unset /\ BuiltinResolved.source = "builtin"
  BY OverlayIs DEF BuiltinResolved
<1> QED
  BY <1>1 DEF Overlaid

\* Every token has a colour.
LEMMA Complete == ResolvedIsComplete
<1> SUFFICES ASSUME NEW project \in BOOLEAN, NEW t \in Known
             PROVE  ResolveTheme(project).color[t] \in Colors /\ ResolveTheme(project).dark[t] \in Colors
  BY DEF ResolvedIsComplete
<1> DEFINE res == ResolveTheme(project)
<1>1. \/ \E i \in 1..4 : First(project, i, res)
      \/ res = BuiltinResolved
  BY ResolveIs
<1> HIDE DEF res
<1>2. res.color[t] \in Colors /\ res.dark[t] \in Colors
  BY <1>1, DefaultIs DEF First, Taken
<1> QED
  BY <1>2 DEF res

\* The candidates come in the order of the precedence.
LEMMA Precedence == FirstHitWins
<1> SUFFICES ASSUME NEW project \in BOOLEAN
             PROVE  LET res  == ResolveTheme(project)
                        has(path) == path # Unset /\ (Readable(path) \/ (files[path] = Missing /\ BuiltinOf(path) # {}))
                        pt == has("project_theme") /\ project
                        pl == has(projectId) /\ project
                    IN /\ pt => res.path = "project_theme"
                       /\ ~pt /\ pl => res.source = "project" /\ res.path \in {projectId, Unset}
                       /\ ~pt /\ ~pl /\ has("system_theme") => res.path = "system_theme" /\ res.source = "system"
                       /\ ~pt /\ ~pl /\ ~has("system_theme") =>
                            res.source = IF has(systemId) THEN "system" ELSE "builtin"
  BY DEF FirstHitWins
<1> DEFINE res == ResolveTheme(project)
           pt  == Hits("project_theme") /\ project
           pl  == Hits(projectId) /\ project
<1>1. /\ Hits(Candidates(project)[1]) <=> pt
      /\ Hits(Candidates(project)[2]) <=> pl
      /\ Hits(Candidates(project)[3]) <=> Hits("system_theme")
      /\ Hits(Candidates(project)[4]) <=> Hits(systemId)
  <2>1. ~ Hits(Unset)
    BY DEF Hits
  <2> QED
    BY <2>1, CandidatesAre
<1>2. \/ \E i \in 1..4 : First(project, i, res)
      \/ (\A i \in 1..4 : ~ Hits(Candidates(project)[i])) /\ res = BuiltinResolved
  BY ResolveIs
<1> HIDE DEF res
<1>3. /\ pt => res.path = "project_theme"
      /\ ~pt /\ pl => res.source = "project" /\ res.path \in {projectId, Unset}
      /\ ~pt /\ ~pl /\ Hits("system_theme") => res.path = "system_theme" /\ res.source = "system"
      /\ ~pt /\ ~pl /\ ~ Hits("system_theme") =>
           res.source = IF Hits(systemId) THEN "system" ELSE "builtin"
  <2>1. ASSUME NEW i \in 1..4, First(project, i, res)
        PROVE  /\ i = 1 => res.path = "project_theme"
               /\ i <= 2 => res.source = "project" /\ res.path \in {Candidates(project)[i], Unset}
               /\ i > 2 => res.source = "system"
               /\ i = 3 => res.path = "system_theme"
    <3>1. Taken(res, Candidates(project)[i], IF i <= 2 THEN "project" ELSE "system")
      BY <2>1 DEF First
    <3>2. \/ res.path = Candidates(project)[i]
          \/ res.path = Unset /\ Candidates(project)[i] \in {"default", "lite"}
      <4>1. overlay(files[Candidates(project)[i]], Candidates(project)[i],
                    IF i <= 2 THEN "project" ELSE "system").path = Candidates(project)[i]
        BY OverlayIs
      <4> QED
        BY <3>1, <4>1 DEF Taken
    <3>3. res.source = IF i <= 2 THEN "project" ELSE "system"
      BY <3>1 DEF Taken
    <3>4. i = 1 => Candidates(project)[i] = "project_theme"
      <4>1. ASSUME i = 1 PROVE Candidates(project)[1] = "project_theme"
        <5>1. Hits(Candidates(project)[1])
          BY <2>1, <4>1 DEF First
        <5> QED
          BY <5>1, <1>1, CandidatesAre
      <4> QED
        BY <4>1
    <3> QED
      BY <3>2, <3>3, <3>4, CandidatesAre
  <2>2. CASE \E i \in 1..4 : First(project, i, res)
    <3>1. PICK i \in 1..4 : First(project, i, res)
      BY <2>2
    <3>2. Hits(Candidates(project)[i]) /\ \A j \in 1..4 : j < i => ~ Hits(Candidates(project)[j])
      BY <3>1 DEF First
    <3>3. CASE i = 1
      BY <1>1, <2>1, <3>1, <3>2, <3>3
    <3>4. CASE i = 2
      <4>1. ~ pt /\ pl
        BY <1>1, <3>2, <3>4
      <4>2. project /\ Candidates(project)[2] = IF project THEN projectId ELSE Unset
        BY <4>1, CandidatesAre DEF pl
      <4>3. res.source = "project" /\ res.path \in {Candidates(project)[2], Unset}
        BY <2>1, <3>1, <3>4
      <4> QED
        BY <4>1, <4>2, <4>3
    <3>5. CASE i = 3
      <4>1. ~ pt /\ ~ pl /\ Hits("system_theme")
        BY <1>1, <3>2, <3>5
      <4> QED
        BY <2>1, <3>1, <3>5, <4>1
    <3>6. CASE i = 4
      <4>1. ~ pt /\ ~ pl /\ ~ Hits("system_theme") /\ Hits(systemId)
        BY <1>1, <3>2, <3>6
      <4> QED
        BY <2>1, <3>1, <3>6, <4>1
    <3> QED
      BY <3>3, <3>4, <3>5, <3>6
  <2>3. CASE (\A i \in 1..4 : ~ Hits(Candidates(project)[i])) /\ res = BuiltinResolved
    <3>1. ~ pt /\ ~ pl /\ ~ Hits("system_theme") /\ ~ Hits(systemId)
      BY <1>1, <2>3
    <3> QED
      BY <2>3, <3>1, DefaultIs
  <2> QED
    BY <1>2, <2>2, <2>3
<1> QED
  BY <1>3 DEF res, Hits

-----------------------------------------------------------------------------
(* The invariant.                                                          *)

\* Nobody's requests have anything to write in an initial state.
LEMMA ThemesStart == Init => ThemesInv
<1> SUFFICES ASSUME Init PROVE ThemesInv
  OBVIOUS
<1>1. files \in [Files -> {Missing, Broken} \cup Theme]
  <2>1. \A d \in Edits : d \in {Missing, Broken} \cup Theme
    BY ThemesAssumption
  <2>2. CASE files \in {[f \in Files |-> Missing]}
    BY <2>2
  <2>3. CASE files \in {[[f \in Files |-> Missing] EXCEPT !["system_theme"] = d] : d \in Edits}
    BY <2>1, <2>3
  <2> QED
    BY <2>2, <2>3 DEF Init
<1>2. projectId \in LibraryIds \cup {Unset} /\ systemId \in LibraryIds \cup {Unset}
  BY ThemesAssumption DEF Init
<1>3. edits \in 0..MaxEdits
  BY ThemesAssumption DEF Init
<1>4. pc = [r \in Requests |-> "idle"] /\ ask \in [Requests -> Asks] /\ doc \in [Requests -> Theme]
  BY Builtins DEF Init
<1> QED
  BY <1>1, <1>2, <1>3, <1>4 DEF ThemesInv, TypeOK

\* What is asked is one of the kinds, with the fields of its kind.
LEMMA AskIs ==
  ASSUME NEW a \in Asks
  PROVE  /\ a.kind = "editor" => a.mode \in {"light", "dark", "auto"} /\ a.set \in [Known -> Colors \cup {0, Bad}]
         /\ a.kind \in {"web_import", "import"} => a.to \in Files \cup {"the_library"} /\ a.doc \in Theme
         /\ a.kind = "put" => a.to \in Files /\ a.doc \in Theme
         /\ a.kind = "delete" => a.to \in Files
BY ThemesAssumption DEF Ask

\* A theme of which the colours and the mode are what a form left is a theme.
LEMMA FilledIs ==
  ASSUME NEW p \in Palette, NEW resolved, \A t \in Known : resolved[t] \in Colors
  PROVE  Filled(p, resolved) \in Palette
BY DEF Filled, Palette

\* What an export or an editor reads of a path is a theme.
LEMMA SourceIs ==
  ASSUME TypeOK, NEW path, path \in Files \cup {Unset}
  PROVE  Source(path) \in Theme
<1>1. CASE path # Unset /\ Readable(path)
  BY <1>1 DEF Source, TypeOK, Readable
<1>2. CASE ~ (path # Unset /\ Readable(path))
  BY <1>2, Builtins DEF Source
<1> QED
  BY <1>1, <1>2

\* A path of the system's theme is a file's, or none.
LEMMA SystemPath ==
  ASSUME TypeOK, NEW project \in BOOLEAN, ~ project, NEW res, res = ResolveTheme(project)
  PROVE  res.path \in Files \cup {Unset}
<1>1. \/ \E i \in 1..4 : First(project, i, res)
      \/ res = BuiltinResolved
  BY ResolveIs
<1>2. ASSUME NEW i \in 1..4, First(project, i, res) PROVE res.path \in Files \cup {Unset}
  <2>1. Candidates(project)[i] \in Files \cup {Unset}
    <3>1. /\ Candidates(project)[1] = Unset /\ Candidates(project)[2] = Unset
          /\ Candidates(project)[3] = "system_theme" /\ Candidates(project)[4] = systemId
      BY CandidatesAre
    <3>2. systemId \in Files \cup {Unset} /\ "system_theme" \in Files
      BY DEF TypeOK, Files
    <3>3. i \in {1, 2, 3, 4}
      OBVIOUS
    <3> QED
      BY <3>1, <3>2, <3>3
  <2>2. Taken(res, Candidates(project)[i], IF i <= 2 THEN "project" ELSE "system")
    BY <1>2 DEF First
  <2> DEFINE c == Candidates(project)[i]
             s == IF i <= 2 THEN "project" ELSE "system"
  <2> HIDE DEF s
  <2>3. res.path \in {c, Unset}
    <3> HIDE DEF c
    <3>1. overlay(files[c], c, s).path = c
      BY OverlayIs
    <3>2. res = overlay(files[c], c, s) \/ res.path = Unset
      BY <2>2 DEF Taken, c, s
    <3> QED
      BY <3>1, <3>2
  <2> QED
    BY <2>1, <2>3
<1> QED
  BY <1>1, <1>2, DefaultIs

\* What the editor composes: a theme that says what the form says, with all
\* that the file it came from says beside.
LEMMA LaidIs ==
  ASSUME NEW typed, typed.mode \in {"light", "dark", "auto"}, typed.set \in [Known -> Colors \cup {0, Bad}],
         NEW from \in Theme, NEW resolved,
         \A t \in Known : resolved.color[t] \in Colors /\ resolved.dark[t] \in Colors,
         NEW next, next = LaidOver(typed, from, resolved)
  PROVE  /\ next \in Theme /\ next.mode = typed.mode /\ next.extra = from.extra
         /\ \A t \in Known : typed.set[t] # 0 => next.color[t] = typed.set[t]
<1> DEFINE light == Filled(from.color, resolved.color)
           color == [t \in Tokens |-> IF t \in Known /\ typed.set[t] # 0 THEN typed.set[t] ELSE light[t]]
           dark  == Filled(from.dark, resolved.dark)
<1>1. light \in Palette /\ dark \in Palette
  BY ThemeFields, FilledIs
<1>2. color \in Palette /\ \A t \in Known : typed.set[t] # 0 => color[t] = typed.set[t]
  <2> HIDE DEF light
  <2> QED
    BY <1>1 DEF Palette, Tokens
<1>3. next = [from EXCEPT !.id = "mine", !.mode = typed.mode, !.color = color, !.dark = dark]
  BY DEF LaidOver
<1> HIDE DEF light, color, dark
<1>4. "mine" \in LibraryIds
  BY ThemesAssumption
<1>5. /\ next.mode = typed.mode /\ next.extra = from.extra /\ next.color = color
      /\ next \in Theme
  BY <1>1, <1>2, <1>3, <1>4 DEF Theme
<1> QED
  BY <1>2, <1>5

\* A path that was resolved can be read.
LEMMA PathIsRead ==
  ASSUME NEW project \in BOOLEAN, NEW res, res = ResolveTheme(project), res.path # Unset
  PROVE  Readable(res.path)
<1>1. \/ \E i \in 1..4 : First(project, i, res)
      \/ res = BuiltinResolved
  BY ResolveIs
<1>2. PICK i \in 1..4 : First(project, i, res)
  BY <1>1, DefaultIs
<1>3. Taken(res, Candidates(project)[i], IF i <= 2 THEN "project" ELSE "system")
  BY <1>2 DEF First
<1>4. \A source : overlay(files[Candidates(project)[i]], Candidates(project)[i], source).path = Candidates(project)[i]
  BY OverlayIs
<1> QED
  BY <1>3, <1>4 DEF Taken

\* What a request of the editor comes to.
LEMMA EditorComposes ==
  ASSUME TypeOK, NEW r \in Requests, saveThemeEditor(r)
  PROVE  /\ ask[r].kind = "editor" /\ UNCHANGED <<files, projectId, systemId, edits, ask>>
         /\ \/ pc' = [pc EXCEPT ![r] = "done"] /\ doc' = doc
            \/ \E next \in Theme :
                 /\ pc' = [pc EXCEPT ![r] = "write"] /\ doc' = [doc EXCEPT ![r] = next]
                 /\ next.mode = ask[r].mode /\ Validate(next) = {}
                 /\ \A t \in Known : ask[r].set[t] # 0 => next.color[t] = ask[r].set[t]
                 /\ ResolveTheme(FALSE).path # Unset => next.extra = files[ResolveTheme(FALSE).path].extra
<1> DEFINE resolved == ResolveTheme(FALSE)
           from     == Source(resolved.path)
           next     == LaidOver(ask[r], from, resolved)
<1>1. ask[r].kind = "editor" /\ UNCHANGED <<files, projectId, systemId, edits, ask>>
  BY DEF saveThemeEditor, At
<1>2. \/ Validate(next) # {} /\ pc' = [pc EXCEPT ![r] = "done"] /\ doc' = doc
      \/ Validate(next) = {} /\ pc' = [pc EXCEPT ![r] = "write"] /\ doc' = [doc EXCEPT ![r] = next]
  BY DEF saveThemeEditor, Answer
<1>3. \A t \in Known : resolved.color[t] \in Colors /\ resolved.dark[t] \in Colors
  BY Complete DEF ResolvedIsComplete
<1>4. from \in Theme
  BY SystemPath, SourceIs
<1>5. resolved.path # Unset => from = files[resolved.path]
  BY PathIsRead DEF Source
<1>6. ask[r].mode \in {"light", "dark", "auto"} /\ ask[r].set \in [Known -> Colors \cup {0, Bad}]
  <2>1. ask[r] \in Asks
    BY DEF TypeOK
  <2> QED
    BY <1>1, <2>1, AskIs
<1> HIDE DEF resolved, from
<1>7. /\ next \in Theme /\ next.mode = ask[r].mode /\ next.extra = from.extra
      /\ \A t \in Known : ask[r].set[t] # 0 => next.color[t] = ask[r].set[t]
  BY <1>3, <1>4, <1>6, LaidIs
<1> HIDE DEF next
<1>8. CASE Validate(next) = {}
  BY <1>1, <1>2, <1>5, <1>7, <1>8 DEF resolved
<1> QED
  BY <1>1, <1>2, <1>8

\* Every step keeps the invariant.
LEMMA ThemesStep == ThemesInv /\ [Next]_vars => ThemesInv'
<1> SUFFICES ASSUME ThemesInv, [Next]_vars PROVE ThemesInv'
  OBVIOUS
<1>types. /\ files \in [Files -> {Missing, Broken} \cup Theme]
          /\ {projectId, systemId} \subseteq LibraryIds \cup {Unset}
          /\ edits \in 0..MaxEdits
          /\ pc \in [Requests -> {"idle", "write", "done"}] /\ ask \in [Requests -> Asks]
          /\ doc \in [Requests -> Theme]
          /\ \A r \in Requests : pc[r] = "write" => Destination(r) \in Files
          /\ \A r \in Requests : pc[r] = "write" /\ ask[r].kind = "editor" => Composed(r)
  BY DEF ThemesInv, TypeOK
\* A request that had to write, still has, and has the same.
<1>rest. ASSUME ask' = ask, NEW r \in Requests, doc'[r] = doc[r], pc'[r] = "write" => pc[r] = "write"
         PROVE  /\ pc'[r] = "write" => Destination(r)' \in Files
                /\ pc'[r] = "write" /\ ask'[r].kind = "editor" => Composed(r)'
  <2>1. Destination(r)' = Destination(r)
    BY <1>rest DEF Destination
  <2>2. Composed(r) => Composed(r)'
    BY <1>rest DEF Composed
  <2> QED
    BY <1>rest, <1>types, <2>1, <2>2
<1>quiet. ASSUME files' \in [Files -> {Missing, Broken} \cup Theme],
                 {projectId', systemId'} \subseteq LibraryIds \cup {Unset}, edits' \in 0..MaxEdits,
                 ask' = ask, doc' = doc, pc' \in [Requests -> {"idle", "write", "done"}],
                 \A r \in Requests : pc'[r] = "write" => pc[r] = "write"
          PROVE  ThemesInv'
  BY <1>quiet, <1>types, <1>rest DEF ThemesInv, TypeOK
\* A request composes a theme, and is to write it to a file of the three kinds.
<1>loud. ASSUME files' = files, projectId' = projectId, systemId' = systemId, edits' = edits, ask' = ask,
                NEW r \in Requests, NEW t \in Theme,
                pc' = [pc EXCEPT ![r] = "write"], doc' = [doc EXCEPT ![r] = t],
                Destination(r)' \in Files, ask[r].kind = "editor" => Composed(r)'
         PROVE  ThemesInv'
  <2>1. pc' \in [Requests -> {"idle", "write", "done"}] /\ doc' \in [Requests -> Theme]
    BY <1>loud, <1>types
  <2>2. \A s \in Requests : s # r => doc'[s] = doc[s] /\ pc'[s] = pc[s]
    BY <1>loud, <1>types
  <2>3. \A s \in Requests : /\ pc'[s] = "write" => Destination(s)' \in Files
                            /\ pc'[s] = "write" /\ ask'[s].kind = "editor" => Composed(s)'
    <3> SUFFICES ASSUME NEW s \in Requests
                 PROVE  /\ pc'[s] = "write" => Destination(s)' \in Files
                        /\ pc'[s] = "write" /\ ask'[s].kind = "editor" => Composed(s)'
      OBVIOUS
    <3>1. CASE s = r
      BY <1>loud, <3>1
    <3>2. CASE s # r
      BY <1>loud, <1>rest, <2>2, <3>2
    <3> QED
      BY <3>1, <3>2
  <2> QED
    BY <1>loud, <1>types, <2>1, <2>3 DEF ThemesInv, TypeOK
<1>done. ASSUME NEW r \in Requests, pc' = [pc EXCEPT ![r] = "done"]
         PROVE  /\ pc' \in [Requests -> {"idle", "write", "done"}]
                /\ \A s \in Requests : pc'[s] = "write" => pc[s] = "write"
  BY <1>done, <1>types
<1>1. CASE Edit
  <2>1. files' \in [Files -> {Missing, Broken} \cup Theme]
    BY <1>1, <1>types, ThemesAssumption DEF Edit
  <2>2. edits' \in 0..MaxEdits
    BY <1>1, <1>types, ThemesAssumption DEF Edit
  <2> QED
    BY <1>1, <1>types, <1>quiet, <2>1, <2>2 DEF Edit
<1>2. CASE Select
  <2>1. edits' \in 0..MaxEdits
    BY <1>2, <1>types, ThemesAssumption DEF Select
  <2>2. {projectId', systemId'} \subseteq LibraryIds \cup {Unset}
    BY <1>2, <1>types DEF Select
  <2> QED
    BY <1>2, <1>types, <1>quiet, <2>1, <2>2 DEF Select
<1>3. ASSUME NEW r \in Requests, saveThemeEditor(r) PROVE ThemesInv'
  <2>1. TypeOK
    BY DEF ThemesInv
  <2>2. /\ ask[r].kind = "editor" /\ UNCHANGED <<files, projectId, systemId, edits, ask>>
        /\ \/ pc' = [pc EXCEPT ![r] = "done"] /\ doc' = doc
           \/ \E next \in Theme :
                /\ pc' = [pc EXCEPT ![r] = "write"] /\ doc' = [doc EXCEPT ![r] = next]
                /\ next.mode = ask[r].mode /\ Validate(next) = {}
                /\ \A t \in Known : ask[r].set[t] # 0 => next.color[t] = ask[r].set[t]
    BY <1>3, <2>1, EditorComposes
  <2>3. CASE pc' = [pc EXCEPT ![r] = "done"] /\ doc' = doc
    BY <1>types, <1>done, <1>quiet, <2>2, <2>3
  <2>4. ASSUME NEW next \in Theme,
               pc' = [pc EXCEPT ![r] = "write"], doc' = [doc EXCEPT ![r] = next],
               next.mode = ask[r].mode, Validate(next) = {},
               \A t \in Known : ask[r].set[t] # 0 => next.color[t] = ask[r].set[t]
        PROVE  ThemesInv'
    <3>1. doc'[r] = next /\ ask'[r] = ask[r]
      BY <1>types, <2>2, <2>4
    <3>2. Composed(r)'
      BY <2>4, <3>1 DEF Composed
    <3>3. Destination(r)' \in Files
      BY <2>2, <3>1 DEF Destination, Files
    <3> QED
      BY <1>loud, <2>2, <2>4, <3>2, <3>3
  <2> QED
    BY <2>2, <2>3, <2>4
<1>4. ASSUME NEW r \in Requests, importTheme(r) PROVE ThemesInv'
  <2>1. ask[r].kind \in {"import", "web_import"} /\ ask[r] \in Asks
    BY <1>4, <1>types DEF importTheme, At
  <2>2. ask[r].to \in Files \cup {"the_library"} /\ ask[r].doc \in Theme
    BY <2>1, AskIs
  <2> DEFINE t    == ask[r].doc
             dest == IF ask[r].kind = "web_import" \/ ask[r].to = "the_library" THEN t.id ELSE ask[r].to
  <2>3. /\ UNCHANGED <<files, projectId, systemId, edits, ask>>
        /\ \/ pc' = [pc EXCEPT ![r] = "done"] /\ doc' = doc
           \/ ~ Unnamed(dest) /\ doc' = [doc EXCEPT ![r] = t] /\ pc' = [pc EXCEPT ![r] = "write"]
    BY <1>4 DEF importTheme, Answer
  <2>4. CASE pc' = [pc EXCEPT ![r] = "done"] /\ doc' = doc
    BY <1>types, <1>done, <1>quiet, <2>3, <2>4
  <2>5. CASE ~ Unnamed(dest) /\ doc' = [doc EXCEPT ![r] = t] /\ pc' = [pc EXCEPT ![r] = "write"]
    <3>1. doc'[r] = t /\ ask'[r] = ask[r]
      BY <1>types, <2>3, <2>5
    <3>2. t.id \in LibraryIds \cup {Unset}
      BY <2>2, ThemeFields
    <3>3. dest \in Files
      BY <2>2, <2>5, <3>2 DEF Unnamed, Files
    <3>4. Destination(r)' = dest
      BY <2>1, <3>1 DEF Destination
    <3> QED
      BY <1>loud, <2>1, <2>2, <2>3, <2>5, <3>3, <3>4
  <2> QED
    BY <2>3, <2>4, <2>5
<1>5. ASSUME NEW r \in Requests, putThemeFile(r) PROVE ThemesInv'
  <2>1. ask[r].kind = "put" /\ ask[r] \in Asks
    BY <1>5, <1>types DEF putThemeFile, At
  <2>2. ask[r].to \in Files /\ ask[r].doc \in Theme
    BY <2>1, AskIs
  <2>3. /\ UNCHANGED <<files, projectId, systemId, edits, ask>>
        /\ \/ pc' = [pc EXCEPT ![r] = "done"] /\ doc' = doc
           \/ doc' = [doc EXCEPT ![r] = ask[r].doc] /\ pc' = [pc EXCEPT ![r] = "write"]
    BY <1>5 DEF putThemeFile, Answer
  <2>4. CASE pc' = [pc EXCEPT ![r] = "done"] /\ doc' = doc
    BY <1>types, <1>done, <1>quiet, <2>3, <2>4
  <2>5. CASE doc' = [doc EXCEPT ![r] = ask[r].doc] /\ pc' = [pc EXCEPT ![r] = "write"]
    <3>1. ask[r].to # "the_library"
      BY <2>2, ThemesAssumption DEF Files
    <3>2. Destination(r)' = ask[r].to
      BY <2>1, <2>3, <3>1 DEF Destination
    <3> QED
      BY <1>loud, <2>1, <2>2, <2>3, <2>5, <3>2
  <2> QED
    BY <2>3, <2>4, <2>5
<1>6. ASSUME NEW r \in Requests, Write(r) PROVE ThemesInv'
  <2>1. Destination(r) \in Files /\ doc[r] \in Theme
    BY <1>6, <1>types DEF Write
  <2>2. files' \in [Files -> {Missing, Broken} \cup Theme]
    BY <1>6, <1>types, <2>1 DEF Write
  <2> QED
    BY <1>6, <1>types, <1>done, <1>quiet, <2>2 DEF Write, Answer
<1>7. ASSUME NEW r \in Requests, deleteThemeFile(r) PROVE ThemesInv'
  <2>1. files' \in [Files -> {Missing, Broken} \cup Theme]
    BY <1>7, <1>types DEF deleteThemeFile
  <2> QED
    BY <1>7, <1>types, <1>done, <1>quiet, <2>1 DEF deleteThemeFile, Answer
<1>8. ASSUME NEW r \in Requests, exportTheme(r) \/ resolveExportTheme(r) PROVE ThemesInv'
  <2>1. pc' = [pc EXCEPT ![r] = "done"] /\ UNCHANGED <<files, projectId, systemId, edits, ask, doc>>
    <3>1. CASE exportTheme(r)
      BY <3>1 DEF exportTheme, Answer
    <3>2. CASE resolveExportTheme(r)
      BY <3>2, Zenon DEF resolveExportTheme, Answer
    <3> QED
      BY <1>8, <3>1, <3>2
  <2> QED
    BY <1>types, <1>done, <1>quiet, <2>1
<1>9. CASE UNCHANGED vars
  BY <1>types, <1>quiet, <1>9 DEF vars
<1> QED
  BY <1>1, <1>2, <1>3, <1>4, <1>5, <1>6, <1>7, <1>8, <1>9 DEF Next

\* The invariant holds of every behaviour.
LEMMA ThemesHold == Spec => []ThemesInv
BY ThemesStart, ThemesStep, PTL DEF Spec

-----------------------------------------------------------------------------
\* Whatever the files hold and whoever edits them, a theme resolves that has a
\* colour for each token, and it is the first of the four places that has one.
THEOREM ThemesResolve == Spec => []ThemeResolves
<1>1. ThemesInv => ThemeResolves
  BY Complete, Precedence DEF ThemesInv, ThemeResolves
<1> QED
  BY <1>1, ThemesHold, PTL

\* The system's own file comes first for the system.
SystemFirst ==
  Readable("system_theme") =>
    LET res == ResolveTheme(FALSE)
    IN /\ res.path = "system_theme"
       /\ Overlaid(res, files["system_theme"])

\* So it is, whatever the other files hold.
LEMMA SystemIsFirst == SystemFirst
<1> SUFFICES ASSUME Readable("system_theme"), NEW project \in BOOLEAN, ~ project
             PROVE  LET res == ResolveTheme(project)
                    IN res.path = "system_theme" /\ Overlaid(res, files["system_theme"])
  BY DEF SystemFirst
<1> DEFINE res == ResolveTheme(project)
<1>1. Hits("system_theme") /\ ~ Hits(Unset)
  <2>1. "system_theme" # Unset
    BY DEF Unset
  <2> QED
    BY <2>1 DEF Hits
<1>2. /\ Candidates(project)[1] = Unset /\ Candidates(project)[2] = Unset
      /\ Candidates(project)[3] = "system_theme"
  BY CandidatesAre
<1>3. PICK i \in 1..4 : First(project, i, res)
  <2>1. \/ \E i \in 1..4 : First(project, i, res)
        \/ \A i \in 1..4 : ~ Hits(Candidates(project)[i])
    BY ResolveIs
  <2> QED
    BY <1>1, <1>2, <2>1
<1>4. Taken(res, Candidates(project)[3], "system")
  <2>1. i # 1 /\ i # 2
    BY <1>1, <1>2, <1>3 DEF First
  <2>2. ~ (3 < i)
    BY <1>1, <1>2, <1>3 DEF First
  <2>3. i = 3
    BY <2>1, <2>2
  <2> QED
    BY <1>3, <2>3 DEF First
<1> HIDE DEF res
<1>5. res = overlay(files["system_theme"], "system_theme", "system")
  BY <1>2, <1>4 DEF Taken
<1>6. Overlaid(res, files["system_theme"]) /\ res.path = "system_theme"
  BY <1>5, OverlayIs
<1> QED
  BY <1>6 DEF res

\* A step that changes where a request is, is a step of that request.
LEMMA OwnSteps ==
  ASSUME ThemesInv, Next, NEW r \in Requests, pc'[r] # pc[r]
  PROVE  \/ saveThemeEditor(r) \/ importTheme(r) \/ putThemeFile(r) \/ Write(r)
         \/ deleteThemeFile(r) \/ exportTheme(r) \/ resolveExportTheme(r)
<1> USE DEF At, Answer
<1>1. pc \in [Requests -> {"idle", "write", "done"}]
  BY DEF ThemesInv, TypeOK
<1>2. pc' # pc
  OBVIOUS
<1>3. ~ Edit /\ ~ Select
  BY <1>2 DEF Edit, Select
<1>4. ASSUME NEW s \in Requests, s # r, NEW w, pc' = [pc EXCEPT ![s] = w] PROVE FALSE
  BY <1>1, <1>4
<1>5. PICK s \in Requests : \/ saveThemeEditor(s) \/ importTheme(s) \/ putThemeFile(s) \/ Write(s)
                            \/ deleteThemeFile(s) \/ exportTheme(s) \/ resolveExportTheme(s)
  BY <1>3 DEF Next
<1>6. \E w \in {"write", "done"} : pc' = [pc EXCEPT ![s] = w]
  <2>1. CASE saveThemeEditor(s)
    BY <2>1 DEF saveThemeEditor
  <2>2. CASE importTheme(s)
    BY <2>2 DEF importTheme
  <2>3. CASE putThemeFile(s)
    BY <2>3 DEF putThemeFile
  <2>4. CASE Write(s)
    BY <2>4 DEF Write
  <2>5. CASE deleteThemeFile(s)
    BY <2>5 DEF deleteThemeFile
  <2>6. CASE exportTheme(s)
    BY <2>6 DEF exportTheme
  <2>7. CASE resolveExportTheme(s)
    <3>1. pc' = [pc EXCEPT ![s] = "done"]
      BY <2>7, Zenon DEF resolveExportTheme
    <3> QED
      BY <3>1
  <2> QED
    BY <1>5, <2>1, <2>2, <2>3, <2>4, <2>5, <2>6, <2>7
<1> QED
  BY <1>4, <1>5, <1>6

\* What the editor saves is what the system shows next, and what this program
\* does not know of the theme that was shown is saved with it.
THEOREM EditorIsShown == Spec => EditorSaves
<1>1. ThemesInv /\ [Next]_vars =>
        [\A r \in Requests : ask[r].kind = "editor" /\ pc[r] = "write" /\ pc'[r] = "done" =>
           LET now == ResolveTheme(FALSE)'
           IN /\ now.path = "system_theme" /\ now.mode = ask[r].mode
              /\ \A t \in Known : ask[r].set[t] # 0 => now.color[t] = ask[r].set[t]]_vars
  <2> SUFFICES ASSUME ThemesInv, Next, NEW r \in Requests,
                      ask[r].kind = "editor", pc[r] = "write", pc'[r] = "done"
               PROVE  LET now == ResolveTheme(FALSE)'
                      IN /\ now.path = "system_theme" /\ now.mode = ask[r].mode
                         /\ \A t \in Known : ask[r].set[t] # 0 => now.color[t] = ask[r].set[t]
    BY DEF vars
  <2>1. Write(r)
    BY OwnSteps DEF saveThemeEditor, importTheme, putThemeFile, deleteThemeFile, exportTheme,
                    resolveExportTheme, At
  <2>2. /\ files' = [files EXCEPT !["system_theme"] = doc[r]]
        /\ files \in [Files -> {Missing, Broken} \cup Theme] /\ "system_theme" \in Files
        /\ doc[r] \in Theme /\ Composed(r)
    BY <2>1 DEF Write, Destination, ThemesInv, TypeOK, Files
  <2>3. files'["system_theme"] = doc[r]
    BY <2>2
  <2>4. Readable("system_theme")'
    BY <2>2, <2>3, ThemesAssumption DEF Readable
  <2>5. SystemFirst'
    BY SystemIsFirst, PTL
  <2> DEFINE now == ResolveTheme(FALSE)'
  <2>6. now.path = "system_theme" /\ Overlaid(now, doc[r])
    BY <2>3, <2>4, <2>5 DEF SystemFirst, Overlaid
  <2> HIDE DEF now
  <2>7. doc[r].mode = ask[r].mode /\ doc[r].mode # Unset
    <3>1. ask[r].mode \in {"light", "dark", "auto"}
      BY AskIs DEF ThemesInv, TypeOK
    <3> QED
      BY <2>2, <3>1 DEF Composed, Unset
  <2>8. ASSUME NEW t \in Known, ask[r].set[t] # 0
        PROVE  doc[r].color[t] = ask[r].set[t] /\ doc[r].color[t] \in Colors
    <3>1. doc[r].color[t] = ask[r].set[t] /\ Validate(doc[r]) = {}
      BY <2>2, <2>8 DEF Composed
    <3>2. doc[r].color[t] # Bad
      BY <3>1 DEF Validate, Tokens
    <3>3. doc[r].color[t] \in Colors \cup {0, Bad}
      BY <2>2, ThemeFields DEF Palette, Tokens
    <3> QED
      BY <2>8, <3>1, <3>2, <3>3
  <2> QED
    BY <2>6, <2>7, <2>8 DEF Overlaid, now
<1>2. ThemesInv /\ [Next]_vars =>
        [\A r \in Requests : At(r, "editor") /\ pc'[r] = "write" =>
           LET path == ResolveTheme(FALSE).path
           IN path # Unset => doc'[r].extra = files[path].extra]_vars
  <2> SUFFICES ASSUME ThemesInv, Next, NEW r \in Requests, At(r, "editor"), pc'[r] = "write",
                      ResolveTheme(FALSE).path # Unset
               PROVE  doc'[r].extra = files[ResolveTheme(FALSE).path].extra
    BY DEF vars
  <2> DEFINE path == ResolveTheme(FALSE).path
  <2>1. saveThemeEditor(r)
    BY OwnSteps DEF importTheme, putThemeFile, Write, deleteThemeFile, exportTheme, resolveExportTheme, At
  <2>2. TypeOK /\ pc \in [Requests -> {"idle", "write", "done"}] /\ doc \in [Requests -> Theme]
    BY DEF ThemesInv, TypeOK
  <2>3. pc' # [pc EXCEPT ![r] = "done"]
    BY <2>2
  <2>4. \/ pc' = [pc EXCEPT ![r] = "done"] /\ doc' = doc
        \/ \E next \in Theme : /\ doc' = [doc EXCEPT ![r] = next]
                               /\ path # Unset => next.extra = files[path].extra
    <3>1. TypeOK
      BY <2>2
    <3> QED
      BY <2>1, <3>1, EditorComposes
  <2>5. PICK next \in Theme : doc' = [doc EXCEPT ![r] = next] /\ next.extra = files[path].extra
    BY <2>3, <2>4
  <2> QED
    BY <2>2, <2>5
<1> QED
  BY <1>1, <1>2, ThemesHold, PTL DEF Spec, EditorSaves, SavedIsShown, EditorKeepsTheRest

-----------------------------------------------------------------------------
(* The registry of open stores.                                            *)

RequestTypes ==
  /\ want \in [Requests -> {"resolve", "discovery", "rescan", "lists"} \X Projects]
  /\ sure \in [Requests -> BOOLEAN]
  /\ stores \in [Projects -> Nat]

\* A walk was started under a configuration that is, or has been, in force.
WalksAreOfThePast == \A r \in Requests : gen[r] <= scanGen

AnswersEnd == \A r \in Requests : told[r] # "none" => at[r] = "done"

\* A project that a request is sure of and that no one knows yet: nothing has
\* been cached, it is there to be found, and every walk that will be cached
\* has found it.
TheWalkFindsIt ==
  \A r \in Requests : sure[r] /\ Registry!About(r) \notin known =>
    /\ ~scanned
    /\ Registry!About(r) \in Registry!Findable(scanGen)
    /\ \A q \in Requests : at[q] = "install" /\ gen[q] = scanGen => Registry!About(r) \in found[q] \cup Explicit

\* Behind the walk, or without one, the request finds it known.
KnownInTheEnd ==
  \A r \in Requests : sure[r] /\ at[r] \in {"look_again", "known"} => Registry!About(r) \in known

RegistryInv ==
  /\ RequestTypes
  /\ Registry!TypeOK
  /\ Registry!CacheIsCurrent
  /\ WalksAreOfThePast
  /\ AnswersEnd
  /\ TheWalkFindsIt
  /\ KnownInTheEnd
  /\ Registry!NoFalseNotFound

\* The constants are as the components assume.
LEMMA ConstantsAreRight ==
  /\ Registry!RegistryAssumption
  /\ Forms!FormsAssumption
BY RequestsAssumption

\* A directory appears or goes away.
LEMMA MoveStep ==
  ASSUME RegistryInv, NEW p \in Projects, Registry!Move(p)
  PROVE  RegistryInv'
<1>. USE ConstantsAreRight DEF RegistryInv, Registry!Move, Registry!cache, Registry!table, Registry!request, Registry!RegistryAssumption
<1>1. RequestTypes'
  BY DEF RequestTypes, Registry!TypeOK
<1>2. (Registry!TypeOK)'
  BY DEF RequestTypes, Registry!TypeOK, Registry!Configs, Registry!About, Registry!Findable
<1>3. (Registry!CacheIsCurrent)'
  BY DEF Registry!CacheIsCurrent, Registry!TypeOK, RequestTypes
<1>4. WalksAreOfThePast'
  BY DEF WalksAreOfThePast, Registry!TypeOK, Registry!Configs
<1>5. AnswersEnd'
  BY DEF AnswersEnd, Registry!TypeOK
<1>6. TheWalkFindsIt'
  BY DEF TheWalkFindsIt, WalksAreOfThePast, Registry!Findable, Registry!About, Registry!TypeOK, RequestTypes, Registry!Configs
<1>7. KnownInTheEnd'
  BY DEF KnownInTheEnd, TheWalkFindsIt, Registry!About, Registry!TypeOK, RequestTypes
<1>8. (Registry!NoFalseNotFound)'
  BY DEF Registry!NoFalseNotFound, AnswersEnd, KnownInTheEnd, Registry!About, Registry!TypeOK, RequestTypes
<1>. QED BY <1>1, <1>2, <1>3, <1>4, <1>5, <1>6, <1>7, <1>8

\* The roots are replaced.
LEMMA replaceScanStep ==
  ASSUME RegistryInv, Registry!replaceScan
  PROVE  RegistryInv'
<1>. USE ConstantsAreRight DEF RegistryInv, Registry!replaceScan, Registry!table, Registry!request, Registry!RegistryAssumption
<1>1. RequestTypes'
  BY DEF RequestTypes, Registry!TypeOK
<1>2. (Registry!TypeOK)'
  BY DEF RequestTypes, Registry!TypeOK, Registry!Configs, Registry!About, Registry!Findable
<1>3. (Registry!CacheIsCurrent)'
  BY DEF Registry!CacheIsCurrent, Registry!TypeOK, RequestTypes
<1>4. WalksAreOfThePast'
  BY DEF WalksAreOfThePast, Registry!TypeOK, Registry!Configs
<1>5. AnswersEnd'
  BY DEF AnswersEnd, Registry!TypeOK
<1>6. TheWalkFindsIt'
  BY DEF TheWalkFindsIt, WalksAreOfThePast, Registry!Findable, Registry!About, Registry!TypeOK, RequestTypes, Registry!Configs
<1>7. KnownInTheEnd'
  BY DEF KnownInTheEnd, TheWalkFindsIt, Registry!About, Registry!TypeOK, RequestTypes
<1>8. (Registry!NoFalseNotFound)'
  BY DEF Registry!NoFalseNotFound, AnswersEnd, KnownInTheEnd, Registry!About, Registry!TypeOK, RequestTypes
<1>. QED BY <1>1, <1>2, <1>3, <1>4, <1>5, <1>6, <1>7, <1>8

\* A request comes in: it is sure of what is known, or there to be found.
LEMMA ArriveStep ==
  ASSUME RegistryInv, NEW r \in Requests, Registry!Arrive(r)
  PROVE  RegistryInv'
<1>. USE ConstantsAreRight DEF RegistryInv, Registry!Arrive, Registry!RegistryAssumption, Registry!At, Registry!Go, Registry!Reply, Registry!Opens, Registry!Remember, Registry!Retry, Registry!Stale, Registry!Named, Registry!cache, Registry!table, Registry!request
<1>1. RequestTypes'
  BY DEF RequestTypes, Registry!TypeOK
<1>2. (Registry!TypeOK)'
  BY DEF RequestTypes, Registry!TypeOK, Registry!Configs, Registry!About, Registry!Findable
<1>3. (Registry!CacheIsCurrent)'
  BY DEF Registry!CacheIsCurrent, Registry!TypeOK, RequestTypes
<1>4. WalksAreOfThePast'
  BY DEF WalksAreOfThePast, Registry!TypeOK, Registry!Configs
<1>5. AnswersEnd'
  BY DEF AnswersEnd, Registry!TypeOK
<1>6. TheWalkFindsIt'
  BY DEF TheWalkFindsIt, WalksAreOfThePast, Registry!Findable, Registry!About, Registry!TypeOK, RequestTypes, Registry!Configs
<1>7. KnownInTheEnd'
  BY DEF KnownInTheEnd, TheWalkFindsIt, Registry!About, Registry!TypeOK, RequestTypes
<1>8. (Registry!NoFalseNotFound)'
  BY DEF Registry!NoFalseNotFound, AnswersEnd, KnownInTheEnd, Registry!About, Registry!TypeOK, RequestTypes
<1>. QED BY <1>1, <1>2, <1>3, <1>4, <1>5, <1>6, <1>7, <1>8

\* A request looks for an open Store.
LEMMA LookStep ==
  ASSUME RegistryInv, NEW r \in Requests, Registry!Look(r)
  PROVE  RegistryInv'
<1>. USE ConstantsAreRight DEF RegistryInv, Registry!Look, Registry!RegistryAssumption, Registry!At, Registry!Go, Registry!Reply, Registry!Opens, Registry!Remember, Registry!Retry, Registry!Stale, Registry!Named, Registry!cache, Registry!table, Registry!request
<1>1. RequestTypes'
  BY DEF RequestTypes, Registry!TypeOK
<1>2. (Registry!TypeOK)'
  BY DEF RequestTypes, Registry!TypeOK, Registry!Configs, Registry!About, Registry!Findable
<1>3. (Registry!CacheIsCurrent)'
  BY DEF Registry!CacheIsCurrent, Registry!TypeOK, RequestTypes
<1>4. WalksAreOfThePast'
  BY DEF WalksAreOfThePast, Registry!TypeOK, Registry!Configs
<1>5. AnswersEnd'
  BY DEF AnswersEnd, Registry!TypeOK
<1>6. TheWalkFindsIt'
  BY DEF TheWalkFindsIt, WalksAreOfThePast, Registry!Findable, Registry!About, Registry!TypeOK, RequestTypes, Registry!Configs
<1>7. KnownInTheEnd'
  BY DEF KnownInTheEnd, TheWalkFindsIt, Registry!About, Registry!TypeOK, RequestTypes
<1>8. (Registry!NoFalseNotFound)'
  BY DEF Registry!NoFalseNotFound, AnswersEnd, KnownInTheEnd, Registry!About, Registry!TypeOK, RequestTypes
<1>. QED BY <1>1, <1>2, <1>3, <1>4, <1>5, <1>6, <1>7, <1>8

\* A lister looks whether a walk has been kept.
LEMMA CheckStep ==
  ASSUME RegistryInv, NEW r \in Requests, Registry!Check(r)
  PROVE  RegistryInv'
<1>. USE ConstantsAreRight DEF RegistryInv, Registry!Check, Registry!RegistryAssumption, Registry!At, Registry!Go, Registry!Reply, Registry!Opens, Registry!Remember, Registry!Retry, Registry!Stale, Registry!Named, Registry!cache, Registry!table, Registry!request
<1>1. RequestTypes'
  BY DEF RequestTypes, Registry!TypeOK
<1>2. (Registry!TypeOK)'
  BY DEF RequestTypes, Registry!TypeOK, Registry!Configs, Registry!About, Registry!Findable
<1>3. (Registry!CacheIsCurrent)'
  BY DEF Registry!CacheIsCurrent, Registry!TypeOK, RequestTypes
<1>4. WalksAreOfThePast'
  BY DEF WalksAreOfThePast, Registry!TypeOK, Registry!Configs
<1>5. AnswersEnd'
  BY DEF AnswersEnd, Registry!TypeOK
<1>6. TheWalkFindsIt'
  BY DEF TheWalkFindsIt, WalksAreOfThePast, Registry!Findable, Registry!About, Registry!TypeOK, RequestTypes, Registry!Configs
<1>7. KnownInTheEnd'
  BY DEF KnownInTheEnd, TheWalkFindsIt, Registry!About, Registry!TypeOK, RequestTypes
<1>8. (Registry!NoFalseNotFound)'
  BY DEF Registry!NoFalseNotFound, AnswersEnd, KnownInTheEnd, Registry!About, Registry!TypeOK, RequestTypes
<1>. QED BY <1>1, <1>2, <1>3, <1>4, <1>5, <1>6, <1>7, <1>8

\* A walk is begun under the roots in force.
LEMMA SnapshotStep ==
  ASSUME RegistryInv, NEW r \in Requests, Registry!Snapshot(r)
  PROVE  RegistryInv'
<1>. USE ConstantsAreRight DEF RegistryInv, Registry!Snapshot, Registry!RegistryAssumption, Registry!At, Registry!Go, Registry!Reply, Registry!Opens, Registry!Remember, Registry!Retry, Registry!Stale, Registry!Named, Registry!cache, Registry!table, Registry!request
<1>1. RequestTypes'
  BY DEF RequestTypes, Registry!TypeOK
<1>2. (Registry!TypeOK)'
  BY DEF RequestTypes, Registry!TypeOK, Registry!Configs, Registry!About, Registry!Findable
<1>3. (Registry!CacheIsCurrent)'
  BY DEF Registry!CacheIsCurrent, Registry!TypeOK, RequestTypes
<1>4. WalksAreOfThePast'
  BY DEF WalksAreOfThePast, Registry!TypeOK, Registry!Configs
<1>5. AnswersEnd'
  BY DEF AnswersEnd, Registry!TypeOK
<1>6. TheWalkFindsIt'
  BY DEF TheWalkFindsIt, WalksAreOfThePast, Registry!Findable, Registry!About, Registry!TypeOK, RequestTypes, Registry!Configs
<1>7. KnownInTheEnd'
  BY DEF KnownInTheEnd, TheWalkFindsIt, Registry!About, Registry!TypeOK, RequestTypes
<1>8. (Registry!NoFalseNotFound)'
  BY DEF Registry!NoFalseNotFound, AnswersEnd, KnownInTheEnd, Registry!About, Registry!TypeOK, RequestTypes
<1>. QED BY <1>1, <1>2, <1>3, <1>4, <1>5, <1>6, <1>7, <1>8

\* The walk itself, without the lock.
LEMMA DiscoverStep ==
  ASSUME RegistryInv, NEW r \in Requests, Registry!Discover(r)
  PROVE  RegistryInv'
<1>. USE ConstantsAreRight DEF RegistryInv, Registry!Discover, Registry!RegistryAssumption, Registry!At, Registry!Go, Registry!Reply, Registry!Opens, Registry!Remember, Registry!Retry, Registry!Stale, Registry!Named, Registry!cache, Registry!table, Registry!request
<1>1. RequestTypes'
  BY DEF RequestTypes, Registry!TypeOK
<1>2. (Registry!TypeOK)'
  BY DEF RequestTypes, Registry!TypeOK, Registry!Configs, Registry!About, Registry!Findable
<1>3. (Registry!CacheIsCurrent)'
  BY DEF Registry!CacheIsCurrent, Registry!TypeOK, RequestTypes
<1>4. WalksAreOfThePast'
  BY DEF WalksAreOfThePast, Registry!TypeOK, Registry!Configs
<1>5. AnswersEnd'
  BY DEF AnswersEnd, Registry!TypeOK
<1>6. TheWalkFindsIt'
  BY DEF TheWalkFindsIt, WalksAreOfThePast, Registry!Findable, Registry!About, Registry!TypeOK, RequestTypes, Registry!Configs
<1>7. KnownInTheEnd'
  BY DEF KnownInTheEnd, TheWalkFindsIt, Registry!About, Registry!TypeOK, RequestTypes
<1>8. (Registry!NoFalseNotFound)'
  BY DEF Registry!NoFalseNotFound, AnswersEnd, KnownInTheEnd, Registry!About, Registry!TypeOK, RequestTypes
<1>. QED BY <1>1, <1>2, <1>3, <1>4, <1>5, <1>6, <1>7, <1>8

\* The result of a walk is kept, or is of roots that have been replaced.
LEMMA rescanRawStep ==
  ASSUME RegistryInv, NEW r \in Requests, Registry!rescanRaw(r)
  PROVE  RegistryInv'
<1>. USE ConstantsAreRight DEF RegistryInv, Registry!rescanRaw, Registry!RegistryAssumption, Registry!At, Registry!Go, Registry!Reply, Registry!Opens, Registry!Remember, Registry!Retry, Registry!Named, Registry!cache, Registry!table, Registry!request
<1>1. RequestTypes'
  BY DEF RequestTypes, Registry!TypeOK
<1>2. (Registry!TypeOK)'
  <2>1. CASE Registry!Stale(r) BY <2>1 DEF RequestTypes, Registry!TypeOK
  <2>2. CASE ~ Registry!Stale(r)
    <3>1. result' \subseteq Projects /\ known' \subseteq Projects /\ walked' \in Registry!Configs /\ scanned'
      BY <2>2 DEF Registry!TypeOK
    <3>2. opened' \in [Projects -> Nat]
      BY <2>2 DEF Registry!TypeOK
    <3>3. \A p \in Projects : stores'[p] \in 0..opened'[p] /\ (stores'[p] # 0 => p \in known')
      BY <2>2 DEF Registry!TypeOK
    <3>. QED BY <2>2, <3>1, <3>2, <3>3 DEF Registry!TypeOK
  <2>. QED BY <2>1, <2>2
<1>3. (Registry!CacheIsCurrent)'
  <2>1. CASE Registry!Stale(r) BY <2>1 DEF Registry!CacheIsCurrent
  <2>2. CASE ~ Registry!Stale(r) BY <2>2 DEF Registry!CacheIsCurrent, Registry!Stale
  <2>. QED BY <2>1, <2>2
<1>4. WalksAreOfThePast'
  BY DEF WalksAreOfThePast, Registry!TypeOK, Registry!Configs
<1>5. AnswersEnd'
  BY DEF AnswersEnd, Registry!TypeOK
<1>6. TheWalkFindsIt'
  BY DEF Registry!Stale, TheWalkFindsIt, WalksAreOfThePast, Registry!Findable, Registry!About, Registry!TypeOK, RequestTypes, Registry!Configs
<1>7. KnownInTheEnd'
  BY DEF Registry!Stale, KnownInTheEnd, TheWalkFindsIt, Registry!About, Registry!TypeOK, RequestTypes
<1>8. (Registry!NoFalseNotFound)'
  BY DEF Registry!NoFalseNotFound, AnswersEnd, KnownInTheEnd, Registry!About, Registry!TypeOK, RequestTypes
<1>. QED BY <1>1, <1>2, <1>3, <1>4, <1>5, <1>6, <1>7, <1>8

\* Behind its walk a request looks once more.
LEMMA LookAgainStep ==
  ASSUME RegistryInv, NEW r \in Requests, Registry!LookAgain(r)
  PROVE  RegistryInv'
<1>. USE ConstantsAreRight DEF RegistryInv, Registry!LookAgain, Registry!RegistryAssumption, Registry!At, Registry!Go, Registry!Reply, Registry!Opens, Registry!Remember, Registry!Retry, Registry!Stale, Registry!Named, Registry!cache, Registry!table, Registry!request
<1>1. RequestTypes'
  BY DEF RequestTypes, Registry!TypeOK
<1>2. (Registry!TypeOK)'
  BY DEF RequestTypes, Registry!TypeOK, Registry!Configs, Registry!About, Registry!Findable
<1>3. (Registry!CacheIsCurrent)'
  BY DEF Registry!CacheIsCurrent, Registry!TypeOK, RequestTypes
<1>4. WalksAreOfThePast'
  BY DEF WalksAreOfThePast, Registry!TypeOK, Registry!Configs
<1>5. AnswersEnd'
  BY DEF AnswersEnd, Registry!TypeOK
<1>6. TheWalkFindsIt'
  BY DEF TheWalkFindsIt, WalksAreOfThePast, Registry!Findable, Registry!About, Registry!TypeOK, RequestTypes, Registry!Configs
<1>7. KnownInTheEnd'
  BY DEF KnownInTheEnd, TheWalkFindsIt, Registry!About, Registry!TypeOK, RequestTypes
<1>8. (Registry!NoFalseNotFound)'
  BY DEF Registry!NoFalseNotFound, AnswersEnd, KnownInTheEnd, Registry!About, Registry!TypeOK, RequestTypes
<1>. QED BY <1>1, <1>2, <1>3, <1>4, <1>5, <1>6, <1>7, <1>8

\* A request goes on with a project that is known, or is denied.
LEMMA KnownStep ==
  ASSUME RegistryInv, NEW r \in Requests, Registry!Known(r)
  PROVE  RegistryInv'
<1>. USE ConstantsAreRight DEF RegistryInv, Registry!Known, Registry!RegistryAssumption, Registry!At, Registry!Go, Registry!Reply, Registry!Opens, Registry!Remember, Registry!Retry, Registry!Stale, Registry!Named, Registry!cache, Registry!table, Registry!request
<1>1. RequestTypes'
  BY DEF RequestTypes, Registry!TypeOK
<1>2. (Registry!TypeOK)'
  BY DEF RequestTypes, Registry!TypeOK, Registry!Configs, Registry!About, Registry!Findable
<1>3. (Registry!CacheIsCurrent)'
  BY DEF Registry!CacheIsCurrent, Registry!TypeOK, RequestTypes
<1>4. WalksAreOfThePast'
  BY DEF WalksAreOfThePast, Registry!TypeOK, Registry!Configs
<1>5. AnswersEnd'
  BY DEF AnswersEnd, Registry!TypeOK
<1>6. TheWalkFindsIt'
  BY DEF TheWalkFindsIt, WalksAreOfThePast, Registry!Findable, Registry!About, Registry!TypeOK, RequestTypes, Registry!Configs
<1>7. KnownInTheEnd'
  BY DEF KnownInTheEnd, TheWalkFindsIt, Registry!About, Registry!TypeOK, RequestTypes
<1>8. (Registry!NoFalseNotFound)'
  BY DEF Registry!NoFalseNotFound, AnswersEnd, KnownInTheEnd, Registry!About, Registry!TypeOK, RequestTypes
<1>. QED BY <1>1, <1>2, <1>3, <1>4, <1>5, <1>6, <1>7, <1>8

\* mm.Open, without the lock.
LEMMA OpenStep ==
  ASSUME RegistryInv, NEW r \in Requests, Registry!Open(r)
  PROVE  RegistryInv'
<1>. USE ConstantsAreRight DEF RegistryInv, Registry!Open, Registry!RegistryAssumption, Registry!At, Registry!Go, Registry!Reply, Registry!Opens, Registry!Remember, Registry!Retry, Registry!Stale, Registry!Named, Registry!cache, Registry!table, Registry!request
<1>1. RequestTypes'
  BY DEF RequestTypes, Registry!TypeOK
<1>2. (Registry!TypeOK)'
  BY DEF RequestTypes, Registry!TypeOK, Registry!Configs, Registry!About, Registry!Findable
<1>3. (Registry!CacheIsCurrent)'
  BY DEF Registry!CacheIsCurrent, Registry!TypeOK, RequestTypes
<1>4. WalksAreOfThePast'
  BY DEF WalksAreOfThePast, Registry!TypeOK, Registry!Configs
<1>5. AnswersEnd'
  BY DEF AnswersEnd, Registry!TypeOK
<1>6. TheWalkFindsIt'
  BY DEF TheWalkFindsIt, WalksAreOfThePast, Registry!Findable, Registry!About, Registry!TypeOK, RequestTypes, Registry!Configs
<1>7. KnownInTheEnd'
  BY DEF KnownInTheEnd, TheWalkFindsIt, Registry!About, Registry!TypeOK, RequestTypes
<1>8. (Registry!NoFalseNotFound)'
  BY DEF Registry!NoFalseNotFound, AnswersEnd, KnownInTheEnd, Registry!About, Registry!TypeOK, RequestTypes
<1>. QED BY <1>1, <1>2, <1>3, <1>4, <1>5, <1>6, <1>7, <1>8

\* The new Store is registered.
LEMMA RegisterStep ==
  ASSUME RegistryInv, NEW r \in Requests, Registry!Register(r)
  PROVE  RegistryInv'
<1>. USE ConstantsAreRight DEF RegistryInv, Registry!Register, Registry!RegistryAssumption, Registry!At, Registry!Go, Registry!Reply, Registry!Opens, Registry!Remember, Registry!Retry, Registry!Stale, Registry!Named, Registry!cache, Registry!table, Registry!request
<1>1. RequestTypes'
  BY DEF RequestTypes, Registry!TypeOK
<1>2. (Registry!TypeOK)'
  BY DEF RequestTypes, Registry!TypeOK, Registry!Configs, Registry!About, Registry!Findable
<1>3. (Registry!CacheIsCurrent)'
  BY DEF Registry!CacheIsCurrent, Registry!TypeOK, RequestTypes
<1>4. WalksAreOfThePast'
  BY DEF WalksAreOfThePast, Registry!TypeOK, Registry!Configs
<1>5. AnswersEnd'
  BY DEF AnswersEnd, Registry!TypeOK
<1>6. TheWalkFindsIt'
  BY DEF TheWalkFindsIt, WalksAreOfThePast, Registry!Findable, Registry!About, Registry!TypeOK, RequestTypes, Registry!Configs
<1>7. KnownInTheEnd'
  BY DEF KnownInTheEnd, TheWalkFindsIt, Registry!About, Registry!TypeOK, RequestTypes
<1>8. (Registry!NoFalseNotFound)'
  BY DEF Registry!NoFalseNotFound, AnswersEnd, KnownInTheEnd, Registry!About, Registry!TypeOK, RequestTypes
<1>. QED BY <1>1, <1>2, <1>3, <1>4, <1>5, <1>6, <1>7, <1>8

\* A list is rendered.
LEMMA ViewStep ==
  ASSUME RegistryInv, NEW r \in Requests, Registry!View(r)
  PROVE  RegistryInv'
<1>. USE ConstantsAreRight DEF RegistryInv, Registry!View, Registry!RegistryAssumption, Registry!At, Registry!Go, Registry!Reply, Registry!Opens, Registry!Remember, Registry!Retry, Registry!Stale, Registry!Named, Registry!cache, Registry!table, Registry!request
<1>1. RequestTypes'
  BY DEF RequestTypes, Registry!TypeOK
<1>2. (Registry!TypeOK)'
  BY DEF RequestTypes, Registry!TypeOK, Registry!Configs, Registry!About, Registry!Findable
<1>3. (Registry!CacheIsCurrent)'
  BY DEF Registry!CacheIsCurrent, Registry!TypeOK, RequestTypes
<1>4. WalksAreOfThePast'
  BY DEF WalksAreOfThePast, Registry!TypeOK, Registry!Configs
<1>5. AnswersEnd'
  BY DEF AnswersEnd, Registry!TypeOK
<1>6. TheWalkFindsIt'
  BY DEF TheWalkFindsIt, WalksAreOfThePast, Registry!Findable, Registry!About, Registry!TypeOK, RequestTypes, Registry!Configs
<1>7. KnownInTheEnd'
  BY DEF KnownInTheEnd, TheWalkFindsIt, Registry!About, Registry!TypeOK, RequestTypes
<1>8. (Registry!NoFalseNotFound)'
  BY DEF Registry!NoFalseNotFound, AnswersEnd, KnownInTheEnd, Registry!About, Registry!TypeOK, RequestTypes
<1>. QED BY <1>1, <1>2, <1>3, <1>4, <1>5, <1>6, <1>7, <1>8

\* The projects of the lists are remembered.
LEMMA listsStep ==
  ASSUME RegistryInv, NEW r \in Requests, Registry!lists(r)
  PROVE  RegistryInv'
<1>. USE ConstantsAreRight DEF RegistryInv, Registry!lists, Registry!RegistryAssumption, Registry!At, Registry!Go, Registry!Reply, Registry!Opens, Registry!Remember, Registry!Retry, Registry!Stale, Registry!Named, Registry!cache, Registry!table, Registry!request
<1>1. RequestTypes'
  BY DEF RequestTypes, Registry!TypeOK
<1>2. (Registry!TypeOK)'
  BY DEF RequestTypes, Registry!TypeOK, Registry!Configs, Registry!About, Registry!Findable
<1>3. (Registry!CacheIsCurrent)'
  BY DEF Registry!CacheIsCurrent, Registry!TypeOK, RequestTypes
<1>4. WalksAreOfThePast'
  BY DEF WalksAreOfThePast, Registry!TypeOK, Registry!Configs
<1>5. AnswersEnd'
  BY DEF AnswersEnd, Registry!TypeOK
<1>6. TheWalkFindsIt'
  BY DEF TheWalkFindsIt, WalksAreOfThePast, Registry!Findable, Registry!About, Registry!TypeOK, RequestTypes, Registry!Configs
<1>7. KnownInTheEnd'
  BY DEF KnownInTheEnd, TheWalkFindsIt, Registry!About, Registry!TypeOK, RequestTypes
<1>8. (Registry!NoFalseNotFound)'
  BY DEF Registry!NoFalseNotFound, AnswersEnd, KnownInTheEnd, Registry!About, Registry!TypeOK, RequestTypes
<1>. QED BY <1>1, <1>2, <1>3, <1>4, <1>5, <1>6, <1>7, <1>8

\* Every step keeps the invariant.
LEMMA RegistryStep ==
  RegistryInv /\ [Registry!Next]_(Registry!vars) => RegistryInv'
<1> SUFFICES ASSUME RegistryInv, [Registry!Next]_(Registry!vars)
             PROVE  RegistryInv'
    OBVIOUS
<1>1. CASE UNCHANGED Registry!vars
  <2>1. RequestTypes' /\ WalksAreOfThePast' /\ AnswersEnd'
    BY <1>1 DEF RegistryInv, RequestTypes, WalksAreOfThePast, AnswersEnd, Registry!vars
  <2>2. (Registry!TypeOK)' /\ (Registry!CacheIsCurrent)' /\ (Registry!NoFalseNotFound)'
    BY <1>1 DEF RegistryInv, Registry!TypeOK, Registry!CacheIsCurrent, Registry!NoFalseNotFound, Registry!About, Registry!vars
  <2>3. TheWalkFindsIt' /\ KnownInTheEnd'
    BY <1>1 DEF RegistryInv, TheWalkFindsIt, KnownInTheEnd, Registry!About, Registry!Findable, Registry!vars
  <2>. QED BY <2>1, <2>2, <2>3 DEF RegistryInv
<1>2. CASE \E p \in Projects : Registry!Move(p)
  BY <1>2, MoveStep
<1>3. CASE Registry!replaceScan
  BY <1>3, replaceScanStep
<1>4. ASSUME NEW r \in Requests, Registry!Arrive(r)
      PROVE  RegistryInv'
  BY <1>4, ArriveStep
<1>5. ASSUME NEW r \in Requests, Registry!Serve(r)
      PROVE  RegistryInv'
  BY <1>5, LookStep, CheckStep, SnapshotStep, DiscoverStep, rescanRawStep, LookAgainStep, KnownStep,
     OpenStep, RegisterStep, ViewStep, listsStep DEF Registry!Serve
<1>. QED BY <1>1, <1>2, <1>3, <1>4, <1>5 DEF Registry!Next

\* Nothing is known and nobody has asked.
LEMMA RegistryStarts == Registry!Init => RegistryInv
<1> SUFFICES ASSUME Registry!Init
             PROVE  RegistryInv
    OBVIOUS
<1>. USE ConstantsAreRight DEF Registry!RegistryAssumption, Registry!Init
<1>1. RequestTypes
  BY DEF RequestTypes
<1>2. Registry!TypeOK
  <2>1. disk \subseteq Projects /\ known \subseteq Projects /\ result \subseteq Projects /\ scanned \in BOOLEAN
    OBVIOUS
  <2>5. moves \in 0..MaxMoves
    OBVIOUS
  <2>6. scanGen \in Registry!Configs /\ walked \in Registry!Configs
    BY DEF Registry!Configs
  <2>2. /\ opened \in [Projects -> Nat]
        /\ \A p \in Projects : stores[p] \in 0..opened[p] /\ (stores[p] # 0 => p \in known)
    OBVIOUS
  <2>3. gen \in [Requests -> Registry!Configs]
    BY DEF Registry!Configs
  <2>4. found \in [Requests -> SUBSET Projects]
    OBVIOUS
  <2>. QED BY <2>1, <2>2, <2>3, <2>4, <2>5, <2>6 DEF Registry!TypeOK
<1>3. Registry!CacheIsCurrent /\ WalksAreOfThePast /\ AnswersEnd
  BY DEF Registry!CacheIsCurrent, WalksAreOfThePast, AnswersEnd
<1>4. TheWalkFindsIt /\ KnownInTheEnd /\ Registry!NoFalseNotFound
  BY DEF TheWalkFindsIt, KnownInTheEnd, Registry!NoFalseNotFound
<1>. QED BY <1>1, <1>2, <1>3, <1>4 DEF RegistryInv

\* The cache is of the roots in force, walks are of roots that are or have been,
\* and whatever a request is sure of is known, or the next result will have it.
THEOREM RegistryInvariant == Registry!Spec => []RegistryInv
BY RegistryStarts, RegistryStep, PTL DEF Registry!Spec

\* Whatever is found, opened, replaced and moved at once: no request is told that
\* there is no project of one that was there to be found all the while.
THEOREM NobodyIsDenied == Registry!Spec => []NoFalseNotFound
<1>1. RegistryInv => NoFalseNotFound
  BY DEF RegistryInv, NoFalseNotFound
<1>. QED BY <1>1, RegistryInvariant, PTL

-----------------------------------------------------------------------------
(* The forms of an item.                                                   *)

Group    == [tickler: Texts \cup {None}, paused: BOOLEAN, dest: Stages]
View     == [title: Texts, prio: Prios, reason: Texts \cup {None}, body: Texts \cup {None}, group: Group \cup {None}]
Hashed   == [title: Texts, prio: Prios \cup {None}, reason: Texts \cup {None}, stage: {None},
             tickler: Texts \cup {None}, paused: BOOLEAN, dest: Stages \cup {None},
             tickled: BOOLEAN, body: Texts \cup {"empty", None}]
FormOf   == [revision: Hashed, was: View, stage: Stages, now: View]
SavingOf == [def: Stages \cup {None}, sent: BOOLEAN, expected: Hashed]

FormTypes ==
  /\ item \in Forms!Items \cup {None}
  /\ form \in [People -> FormOf \cup {None}]
  /\ saving \in [People -> SavingOf \cup {None}]
  /\ moved \in [People -> BOOLEAN]
  /\ writes \in 0..MaxWrites

\* An item has a schedule on a tickler source only.
ScheduledOnSources == item # None /\ item.tickler # None => Forms!Source(item.stage)

\* A form shows one snapshot: the item of its revision, on its stage; a person
\* changes values of its controls, and neither adds nor removes the group.
Shows(f) ==
  /\ f.was = Forms!panelView([f.revision EXCEPT !.stage = f.stage])
  /\ f.now.group = None <=> f.was.group = None

FormsShow == \A p \in People : form[p] # None => Shows(form[p])

\* Unless the item was moved under the form, it is where the form shows it.
FormsStay == \A p \in People : form[p] # None /\ item # None /\ ~ moved[p] => item.stage = form[p].stage

\* What a save has read is of the form it saves, and so is its revision where
\* the form sent one.
Default(s) == IF Forms!Source(s) THEN WakeTo[s] ELSE None
SavesOfForms ==
  \A p \in People : saving[p] # None =>
    /\ form[p] # None
    /\ saving[p].sent => saving[p].expected = form[p].revision
    /\ ~ moved[p] => saving[p].def = Default(form[p].stage)

FormsInv == FormTypes /\ ScheduledOnSources /\ FormsShow /\ FormsStay /\ SavesOfForms

\* What FormsAssumption says, where names need not be expanded.
LEMMA FormConstants ==
  /\ DOMAIN WakeTo \subseteq Stages /\ \A s \in DOMAIN WakeTo : WakeTo[s] \in Stages
  /\ NeedsReason \subseteq Stages
  /\ None \notin Stages /\ None \notin Prios /\ None \notin Texts /\ "med" \in Prios
  /\ "empty" \notin Texts /\ None # "empty"
  /\ None \notin Group
BY ConstantsAreRight DEF Forms!FormsAssumption, Forms!Empty, Group

\* The controls of an item are a view of it.
LEMMA PanelIsView ==
  ASSUME NEW i \in Forms!Items
  PROVE  /\ Forms!panelView(i) \in View
         /\ Forms!panelView(i).title = i.title
         /\ Forms!panelView(i).prio = IF i.prio = None THEN "med" ELSE i.prio
         /\ Forms!panelView(i).reason = i.reason
         /\ Forms!panelView(i).body = IF i.body = "empty" THEN None ELSE i.body
         /\ Forms!panelView(i).group = Forms!prefillTickler(i)
         /\ ~ Forms!Source(i.stage) => Forms!prefillTickler(i) = None
         /\ Forms!Source(i.stage) =>
              /\ Forms!prefillTickler(i) \in Group
              /\ Forms!prefillTickler(i) # None
              /\ Forms!prefillTickler(i).tickler = i.tickler
              /\ Forms!prefillTickler(i).paused = i.paused
              /\ Forms!prefillTickler(i).dest = IF i.dest # None THEN i.dest ELSE WakeTo[i.stage]
<1>. USE FormConstants
<1>1. CASE Forms!Source(i.stage)
  <2>1. Forms!WakesTo(i) \in Stages
    BY <1>1 DEF Forms!Items, Forms!WakesTo, Forms!Source
  <2>2. Forms!prefillTickler(i) = [tickler |-> i.tickler, paused |-> i.paused, dest |-> Forms!WakesTo(i)]
    BY <1>1 DEF Forms!prefillTickler
  <2>3. Forms!prefillTickler(i) \in Group
    BY <2>1, <2>2 DEF Group, Forms!Items
  <2>. QED BY <1>1, <2>1, <2>2, <2>3 DEF Forms!panelView, Forms!Effective, Forms!Empty, Forms!WakesTo, View, Forms!Items
<1>2. CASE ~ Forms!Source(i.stage)
  BY <1>2 DEF Forms!panelView, Forms!prefillTickler, Forms!Effective, Forms!Empty, View, Forms!Items
<1>. QED BY <1>1, <1>2

\* A person changes one control to a value it takes.
LEMMA TypedIsView ==
  ASSUME NEW f \in View, NEW to \in Forms!Typed(f)
  PROVE  to \in View /\ (to.group = None <=> f.group = None)
<1>. USE FormConstants DEF View
<1>1. CASE \E t \in Texts : to = [f EXCEPT !.title = t]
  BY <1>1
<1>2. CASE \E q \in Prios : to = [f EXCEPT !.prio = q]
  BY <1>2
<1>3. CASE \E r \in Texts \cup {None} : to = [f EXCEPT !.reason = r]
  BY <1>3
<1>4. CASE \E b \in Texts \cup {None} : to = [f EXCEPT !.body = b]
  BY <1>4
<1>5. ASSUME f.group # None, NEW g \in Group, to = [f EXCEPT !.group = g]
      PROVE  to \in View /\ (to.group = None <=> f.group = None)
  BY <1>5
<1>6. CASE f.group # None /\ \E t \in Texts \cup {None} : to = [f EXCEPT !.group.tickler = t]
  <2>1. PICK t \in Texts \cup {None} : to = [f EXCEPT !.group = [f.group EXCEPT !.tickler = t]]
    BY <1>6
  <2>2. [f.group EXCEPT !.tickler = t] \in Group
    BY <1>6 DEF Group
  <2>. QED BY <1>5, <1>6, <2>1, <2>2
<1>7. CASE f.group # None /\ to = [f EXCEPT !.group.paused = ~ @]
  <2>1. to = [f EXCEPT !.group = [f.group EXCEPT !.paused = ~ f.group.paused]]
    BY <1>7
  <2>2. [f.group EXCEPT !.paused = ~ f.group.paused] \in Group
    BY <1>7 DEF Group
  <2>. QED BY <1>5, <1>7, <2>1, <2>2
<1>8. CASE f.group # None /\ \E d \in Stages : to = [f EXCEPT !.group.dest = d]
  <2>1. PICK d \in Stages : to = [f EXCEPT !.group = [f.group EXCEPT !.dest = d]]
    BY <1>8
  <2>2. [f.group EXCEPT !.dest = d] \in Group
    BY <1>8 DEF Group
  <2>. QED BY <1>5, <1>8, <2>1, <2>2
<1>. QED BY <1>1, <1>2, <1>3, <1>4, <1>6, <1>7, <1>8 DEF Forms!Typed

\* The revision keeps all of an item but its stage.
LEMMA RevisionIs ==
  ASSUME NEW i \in Forms!Items
  PROVE  Forms!Revision(i) \in Hashed /\ [Forms!Revision(i) EXCEPT !.stage = i.stage] = i
<1>1. Forms!Revision(i) \in Hashed
  BY DEF Forms!Revision, Forms!Items, Hashed, Forms!Empty
<1>2. [Forms!Revision(i) EXCEPT !.stage = i.stage] = i
  BY DEF Forms!Revision, Forms!Items
<1>. QED BY <1>1, <1>2

\* An item of the revision a form shows differs from what it shows at most in
\* its stage.
LEMMA SameRevision ==
  ASSUME NEW i \in Forms!Items, NEW s \in Stages
  PROVE  LET shown == [Forms!Revision(i) EXCEPT !.stage = s]
         IN /\ shown \in Forms!Items
            /\ shown.stage = s /\ shown.title = i.title /\ shown.prio = i.prio /\ shown.reason = i.reason
            /\ shown.tickler = i.tickler /\ shown.paused = i.paused /\ shown.dest = i.dest
            /\ shown.tickled = i.tickled /\ shown.body = i.body
BY DEF Forms!Revision, Forms!Items

\* What a save makes of the item.
Edited(i, now, def) == [Forms!stageUpdate(i, now, def) EXCEPT !.body = Forms!editedBody(i, now.body)]

\* A save writes the controls of the form, and nothing beside them but the
\* baseline of a schedule that is resumed.
EditedAs(i, now, def, new) ==
  /\ new \in Forms!Items
  /\ new.title = now.title /\ new.prio = now.prio /\ new.reason = now.reason /\ new.stage = i.stage
  /\ now.body # None => new.body = now.body
  /\ now.body = None => new.body \in {None, "empty"}
  /\ now.group = None => new.tickler = i.tickler /\ new.paused = i.paused /\ new.dest = i.dest
  /\ now.group # None =>
       /\ new.tickler = now.group.tickler
       /\ new.paused = (now.group.tickler # None /\ now.group.paused)
       /\ new.dest = IF now.group.dest # def THEN now.group.dest ELSE None
  /\ new.tickled = (i.tickled \/ (i.paused /\ ~ new.paused /\ new.tickler # None))

\* What an edit makes of an item, field by field.
LEMMA EditedIs ==
  ASSUME NEW i \in Forms!Items, NEW now \in View, NEW def \in Stages \cup {None}
  PROVE  EditedAs(i, now, def, Edited(i, now, def))
<1>. USE FormConstants
<1>. DEFINE g     == now.group
            said  == [i EXCEPT !.title = now.title, !.prio = now.prio, !.reason = now.reason]
            woken == Forms!applyTicklerUpdate(said, g, def)
            new   == Edited(i, now, def)
<1>1. /\ said \in Forms!Items
      /\ said.title = now.title /\ said.prio = now.prio /\ said.reason = now.reason
      /\ said.stage = i.stage /\ said.tickler = i.tickler /\ said.paused = i.paused /\ said.dest = i.dest
      /\ said.tickled = i.tickled /\ said.body = i.body
  BY DEF Forms!Items, View
<1>2. g = None \/ g \in Group
  BY DEF View
<1>. HIDE DEF said, g
<1>3. /\ woken \in Forms!Items
      /\ woken.title = said.title /\ woken.prio = said.prio /\ woken.reason = said.reason
      /\ woken.stage = said.stage /\ woken.tickled = said.tickled /\ woken.body = said.body
      /\ g = None => woken = said
      /\ g # None => /\ woken.tickler = g.tickler
                     /\ woken.paused = (g.tickler # None /\ g.paused)
                     /\ woken.dest = IF g.dest # def THEN g.dest ELSE None
  <2>1. CASE g = None
    BY <1>1, <2>1 DEF Forms!applyTicklerUpdate
  <2>2. CASE g # None
    <3>1. woken = [said EXCEPT !.tickler = g.tickler, !.paused = g.tickler # None /\ g.paused,
                               !.dest = Forms!composeTicklerDest(g, def)]
      BY <2>2 DEF Forms!applyTicklerUpdate
    <3>2. Forms!composeTicklerDest(g, def) = IF g.dest # def THEN g.dest ELSE None
      BY DEF Forms!composeTicklerDest
    <3>. QED BY <1>1, <1>2, <2>2, <3>1, <3>2 DEF Forms!Items, Group
  <2>. QED BY <2>1, <2>2
<1>4. Forms!stageUpdate(i, now, def) =
        IF i.paused /\ ~ woken.paused /\ woken.tickler # None THEN [woken EXCEPT !.tickled = TRUE] ELSE woken
  BY DEF Forms!stageUpdate, said, g
<1>5. /\ Forms!editedBody(i, now.body) \in Texts \cup {"empty", None}
      /\ now.body # None => Forms!editedBody(i, now.body) = now.body
      /\ now.body = None => Forms!editedBody(i, now.body) \in {None, "empty"}
  BY DEF Forms!editedBody, Forms!Empty, View
<1>. HIDE DEF woken
<1>6. /\ new \in Forms!Items
      /\ new.title = woken.title /\ new.prio = woken.prio /\ new.reason = woken.reason /\ new.stage = woken.stage
      /\ new.tickler = woken.tickler /\ new.paused = woken.paused /\ new.dest = woken.dest
      /\ new.body = Forms!editedBody(i, now.body)
      /\ new.tickled = (woken.tickled \/ (i.paused /\ ~ woken.paused /\ woken.tickler # None))
  <2>1. CASE i.paused /\ ~ woken.paused /\ woken.tickler # None
    <3>1. new = [[woken EXCEPT !.tickled = TRUE] EXCEPT !.body = Forms!editedBody(i, now.body)]
      BY <1>4, <2>1 DEF Edited
    <3>. QED BY <1>3, <1>5, <2>1, <3>1 DEF Forms!Items, Forms!Empty
  <2>2. CASE ~ (i.paused /\ ~ woken.paused /\ woken.tickler # None)
    <3>1. new = [woken EXCEPT !.body = Forms!editedBody(i, now.body)]
      BY <1>4, <2>2 DEF Edited
    <3>. QED BY <1>3, <1>5, <2>2, <3>1 DEF Forms!Items, Forms!Empty
  <2>. QED BY <2>1, <2>2
<1>. HIDE DEF new
<1>7. /\ new.title = now.title /\ new.prio = now.prio /\ new.reason = now.reason /\ new.stage = i.stage
      /\ g = None => new.tickler = i.tickler /\ new.paused = i.paused /\ new.dest = i.dest
      /\ g # None => /\ new.tickler = g.tickler
                     /\ new.paused = (g.tickler # None /\ g.paused)
                     /\ new.dest = IF g.dest # def THEN g.dest ELSE None
  BY <1>1, <1>3, <1>6
<1>8. new.tickled = (i.tickled \/ (i.paused /\ ~ new.paused /\ new.tickler # None))
  BY <1>1, <1>3, <1>6
<1>9. new \in Forms!Items /\ (now.body # None => new.body = now.body) /\ (now.body = None => new.body \in {None, "empty"})
  BY <1>5, <1>6
<1>. QED BY <1>7, <1>8, <1>9 DEF new, g, EditedAs

\* Nobody has a form open.
LEMMA FormsStart == Forms!Init => FormsInv
<1> SUFFICES ASSUME Forms!Init
             PROVE  FormsInv
    OBVIOUS
<1>1. FormTypes
  <2>1. item \in Forms!Items /\ writes \in 0..MaxWrites
    BY ConstantsAreRight DEF Forms!Init, Forms!FormsAssumption
  <2>2. /\ form \in [People -> FormOf \cup {None}] /\ saving \in [People -> SavingOf \cup {None}]
        /\ moved \in [People -> BOOLEAN]
    BY DEF Forms!Init
  <2>. QED BY <2>1, <2>2 DEF FormTypes
<1>2. ScheduledOnSources
  BY DEF Forms!Init, ScheduledOnSources
<1>3. FormsShow /\ FormsStay /\ SavesOfForms
  BY DEF Forms!Init, FormsShow, FormsStay, SavesOfForms
<1>. QED BY <1>1, <1>2, <1>3 DEF FormsInv

\* A form is opened.
LEMMA itemPanelStep ==
  ASSUME FormsInv, NEW p \in People, Forms!itemPanel(p)
  PROVE  FormsInv'
<1>. DEFINE f == [revision |-> Forms!Revision(item), was |-> Forms!panelView(item), stage |-> item.stage,
                  now |-> Forms!panelView(item)]
<1>1. item \in Forms!Items /\ form[p] = None
  BY DEF FormsInv, FormTypes, Forms!itemPanel
<1>2. f \in FormOf /\ f.stage = item.stage /\ Shows(f)
  <2>1. Forms!Revision(item) \in Hashed /\ [Forms!Revision(item) EXCEPT !.stage = item.stage] = item
    BY <1>1, RevisionIs
  <2>2. Forms!panelView(item) \in View
    BY <1>1, PanelIsView
  <2>. QED BY <1>1, <2>1, <2>2 DEF FormOf, Shows, Forms!Items
<1>3. /\ form' = [form EXCEPT ![p] = f] /\ moved' = [moved EXCEPT ![p] = FALSE]
      /\ UNCHANGED <<item, saving, writes>>
  BY DEF Forms!itemPanel
<1>. HIDE DEF f
<1>4. saving[p] = None
  BY <1>1 DEF FormsInv, SavesOfForms
<1>5. FormTypes'
  BY <1>2, <1>3 DEF FormsInv, FormTypes
<1>6. ScheduledOnSources'
  BY <1>3 DEF FormsInv, ScheduledOnSources
<1>7. FormsShow' /\ FormsStay'
  BY <1>2, <1>3 DEF FormsInv, FormTypes, FormsShow, FormsStay
<1>8. SavesOfForms'
  BY <1>3, <1>4 DEF FormsInv, FormTypes, SavesOfForms
<1>. QED BY <1>5, <1>6, <1>7, <1>8 DEF FormsInv

\* A form is left.
LEMMA CancelStep ==
  ASSUME FormsInv, NEW p \in People, Forms!Cancel(p)
  PROVE  FormsInv'
<1>1. FormTypes' /\ ScheduledOnSources'
  BY DEF FormsInv, FormTypes, ScheduledOnSources, Forms!Cancel
<1>2. FormsShow' /\ FormsStay' /\ SavesOfForms'
  BY DEF FormsInv, FormTypes, FormsShow, FormsStay, SavesOfForms, Forms!Cancel
<1>. QED BY <1>1, <1>2 DEF FormsInv

\* A control is changed.
LEMMA TypeStep ==
  ASSUME FormsInv, NEW p \in People, form[p] # None, NEW to \in Forms!Typed(form[p].was), Forms!Type(p, to)
  PROVE  FormsInv'
<1>. DEFINE f == [form[p] EXCEPT !.now = to]
<1>1. form[p] \in FormOf
  BY DEF FormsInv, FormTypes
<1>2. to \in View /\ (to.group = None <=> form[p].was.group = None)
  BY <1>1, TypedIsView DEF FormOf
<1>3. /\ f \in FormOf
      /\ f.revision = form[p].revision /\ f.was = form[p].was /\ f.stage = form[p].stage /\ f.now = to
  BY <1>1, <1>2 DEF FormOf
<1>4. form' = [form EXCEPT ![p] = f] /\ saving[p] = None /\ UNCHANGED <<item, saving, moved, writes>>
  BY DEF Forms!Type
<1>. HIDE DEF f
<1>5. Shows(f)
  BY <1>2, <1>3 DEF FormsInv, FormsShow, Shows
<1>6. FormTypes' /\ ScheduledOnSources'
  BY <1>3, <1>4 DEF FormsInv, FormTypes, ScheduledOnSources
<1>7. FormsShow' /\ FormsStay'
  BY <1>3, <1>4, <1>5 DEF FormsInv, FormTypes, FormsShow, FormsStay
<1>8. SavesOfForms'
  BY <1>4 DEF FormsInv, FormTypes, SavesOfForms
<1>. QED BY <1>6, <1>7, <1>8 DEF FormsInv

\* The route of a save reads the item.
LEMMA editItemStep ==
  ASSUME FormsInv, NEW p \in People, Forms!editItem(p)
  PROVE  FormsInv'
<1>1. CASE item = None
  <2>1. form' = [form EXCEPT ![p] = None] /\ saving[p] = None /\ UNCHANGED <<item, saving, moved, writes>>
    BY <1>1 DEF Forms!editItem
  <2>2. FormTypes' /\ ScheduledOnSources'
    BY <2>1 DEF FormsInv, FormTypes, ScheduledOnSources
  <2>3. FormsShow' /\ FormsStay' /\ SavesOfForms'
    BY <2>1 DEF FormsInv, FormTypes, FormsShow, FormsStay, SavesOfForms
  <2>. QED BY <2>2, <2>3 DEF FormsInv
<1>2. CASE item # None
  <2>0. PICK sent \in BOOLEAN :
          /\ saving' = [saving EXCEPT ![p] = [def |-> Default(item.stage), sent |-> sent,
                                              expected |-> Forms!expected(form[p], sent)]]
          /\ form[p] # None /\ UNCHANGED <<item, form, moved, writes>>
    BY <1>2 DEF Forms!editItem, Forms!Silent, Default
  <2>. DEFINE read == [def |-> Default(item.stage), sent |-> sent, expected |-> Forms!expected(form[p], sent)]
  <2>1. saving' = [saving EXCEPT ![p] = read] /\ form[p] # None /\ UNCHANGED <<item, form, moved, writes>>
    BY <2>0
  <2>. HIDE <2>0
  <2>a. Forms!expected(form[p], sent) \in Hashed /\ (sent => Forms!expected(form[p], sent) = form[p].revision)
    BY <1>2, <2>1, RevisionIs DEF FormsInv, FormTypes, FormOf, Forms!expected
  <2>b. Default(item.stage) \in Stages \cup {None} /\ (~ moved[p] => Default(item.stage) = Default(form[p].stage))
    BY <1>2, <2>1, FormConstants DEF FormsInv, FormTypes, FormsStay, Forms!Items, Default, Forms!Source
  <2>2. /\ read \in SavingOf /\ (read.sent => read.expected = form[p].revision)
        /\ ~ moved[p] => read.def = Default(form[p].stage)
    BY <2>a, <2>b DEF SavingOf
  <2>. HIDE DEF read
  <2>3. FormTypes' /\ ScheduledOnSources'
    BY <2>1, <2>2 DEF FormsInv, FormTypes, ScheduledOnSources
  <2>4. FormsShow' /\ FormsStay' /\ SavesOfForms'
    BY <2>1, <2>2 DEF FormsInv, FormTypes, FormsShow, FormsStay, SavesOfForms
  <2>. QED BY <2>3, <2>4 DEF FormsInv
<1>. QED BY <1>1, <1>2

\* A save is taken, or it is refused and the form stays.
SaveTaken(p) ==
  /\ item # None /\ item \in Forms!Items /\ form[p] \in FormOf /\ saving[p] \in SavingOf
  /\ Shows(form[p]) /\ (saving[p].sent => Forms!Revision(item) = form[p].revision)
  /\ ~ moved[p] => saving[p].def = Default(form[p].stage) /\ item.stage = form[p].stage
  /\ item' = Edited(item, form[p].now, saving[p].def)
  /\ form' = [form EXCEPT ![p] = None]
  /\ ~ Forms!Refused(item, form[p].now)

\* The transaction of a save takes it, or leaves the item and the form.
LEMMA SaveIs ==
  ASSUME FormsInv, NEW p \in People, Forms!Edit(p)
  PROVE  SaveTaken(p) \/ UNCHANGED <<item, form>>
<1> SUFFICES ASSUME ~ UNCHANGED <<item, form>>
             PROVE  SaveTaken(p)
    OBVIOUS
<1>1. /\ saving[p] # None /\ item # None /\ Forms!Revision(item) = saving[p].expected
      /\ ~ Forms!Refused(item, form[p].now)
      /\ item' = Edited(item, form[p].now, saving[p].def)
      /\ form' = [form EXCEPT ![p] = None]
  BY DEF Forms!Edit, Edited
<1>2. form[p] # None /\ (saving[p].sent => saving[p].expected = form[p].revision)
  BY <1>1 DEF FormsInv, SavesOfForms
<1>. QED BY <1>1, <1>2 DEF FormsInv, FormTypes, FormsShow, FormsStay, SavesOfForms, SaveTaken

\* A save writes what the controls of its form say.
LEMMA SaveWrites ==
  ASSUME NEW p \in People, SaveTaken(p)
  PROVE  /\ item' \in Forms!Items /\ item'.stage = item.stage
         /\ item'.tickler # None => Forms!Source(item.stage) \/ item'.tickler = item.tickler
<1>1. form[p].now \in View /\ saving[p].def \in Stages \cup {None}
  BY DEF SaveTaken, FormOf, SavingOf
<1>2. /\ item' \in Forms!Items /\ item'.stage = item.stage
      /\ form[p].now.group = None => item'.tickler = item.tickler
      /\ form[p].now.group # None => item'.tickler = form[p].now.group.tickler
  BY <1>1, EditedIs DEF SaveTaken, EditedAs
<1>. QED BY <1>2 DEF SaveTaken, Forms!Refused

\* The transaction of a save.
LEMMA EditStep ==
  ASSUME FormsInv, NEW p \in People, Forms!Edit(p)
  PROVE  FormsInv'
<1>1. /\ saving' = [saving EXCEPT ![p] = None] /\ writes' = writes + 1 /\ writes < MaxWrites
      /\ moved' = [q \in People |-> IF form'[q] = None THEN FALSE ELSE moved[q]]
  BY DEF Forms!Edit
<1>2. writes' \in 0..MaxWrites
  BY <1>1, ConstantsAreRight DEF FormsInv, FormTypes, Forms!FormsAssumption
<1>3. CASE UNCHANGED <<item, form>>
  <2>1. FormTypes' /\ ScheduledOnSources'
    BY <1>1, <1>2, <1>3 DEF FormsInv, FormTypes, ScheduledOnSources
  <2>2. FormsShow' /\ FormsStay' /\ SavesOfForms'
    BY <1>1, <1>3 DEF FormsInv, FormTypes, FormsShow, FormsStay, SavesOfForms
  <2>. QED BY <2>1, <2>2 DEF FormsInv
<1>4. CASE SaveTaken(p)
  <2>1. /\ item' \in Forms!Items /\ item'.stage = item.stage
        /\ item'.tickler # None => Forms!Source(item.stage) \/ item'.tickler = item.tickler
    BY <1>4, SaveWrites
  <2>3. form' = [form EXCEPT ![p] = None] /\ item \in Forms!Items /\ item # None
    BY <1>4 DEF SaveTaken
  <2>4. FormTypes'
    BY <1>1, <1>2, <2>1, <2>3 DEF FormsInv, FormTypes
  <2>5. ScheduledOnSources'
    BY <2>1, <2>3, <1>4 DEF FormsInv, ScheduledOnSources
  <2>6. FormsShow' /\ FormsStay'
    BY <1>1, <2>1, <2>3 DEF FormsInv, FormTypes, FormsShow, FormsStay
  <2>7. SavesOfForms'
    BY <1>1, <2>3 DEF FormsInv, FormTypes, SavesOfForms
  <2>. QED BY <2>4, <2>5, <2>6, <2>7 DEF FormsInv
<1>. QED BY <1>3, <1>4, SaveIs

\* The item is changed beside the forms.
LEMMA WriteStep ==
  ASSUME FormsInv, item # None, NEW new \in Forms!Items \cup {None},
         new # None /\ new.tickler # None => Forms!Source(new.stage), Forms!Write(new)
  PROVE  FormsInv'
<1>1. /\ item' = new /\ writes' = writes + 1 /\ writes < MaxWrites /\ UNCHANGED <<form, saving>>
      /\ moved' = [p \in People |-> moved[p] \/ (form[p] # None /\ new # None /\ new.stage # item.stage)]
  BY DEF Forms!Write
<1>2. FormTypes'
  <2>1. writes' \in 0..MaxWrites
    BY <1>1, ConstantsAreRight DEF FormsInv, FormTypes, Forms!FormsAssumption
  <2>2. moved' \in [People -> BOOLEAN]
    BY <1>1 DEF FormsInv, FormTypes
  <2>. QED BY <1>1, <2>1, <2>2 DEF FormsInv, FormTypes
<1>3. ScheduledOnSources' /\ FormsShow'
  BY <1>1 DEF FormsInv, ScheduledOnSources, FormsShow
<1>4. FormsStay'
  BY <1>1 DEF FormsInv, FormTypes, FormsStay
<1>5. SavesOfForms'
  BY <1>1 DEF FormsInv, FormTypes, SavesOfForms
<1>. QED BY <1>2, <1>3, <1>4, <1>5 DEF FormsInv

\* What the others write is an item, with a schedule on tickler sources only.
LEMMA MovedIs ==
  ASSUME NEW i \in Forms!Items, NEW to \in Stages, NEW reason \in Texts \cup {None}
  PROVE  LET new == Forms!Moved(i, to, reason)
         IN new \in Forms!Items /\ (new.tickler # None => Forms!Source(new.stage))
<1>. DEFINE kept == IF reason # None THEN [i EXCEPT !.reason = reason, !.stage = to] ELSE [i EXCEPT !.stage = to]
<1>1. kept \in Forms!Items /\ kept.stage = to
  <2>1. CASE reason # None BY <2>1 DEF Forms!Items
  <2>2. CASE reason = None BY <2>2 DEF Forms!Items
  <2>. QED BY <2>1, <2>2
<1>2. Forms!Moved(i, to, reason) = IF Forms!Source(to) THEN kept
                                   ELSE [kept EXCEPT !.tickler = None, !.paused = FALSE, !.dest = None]
  BY DEF Forms!Moved
<1>. HIDE DEF kept
<1>3. CASE Forms!Source(to)
  BY <1>1, <1>2, <1>3
<1>4. CASE ~ Forms!Source(to)
  BY <1>1, <1>2, <1>4 DEF Forms!Items
<1>. QED BY <1>3, <1>4

\* A command line changes one field of an item.
LEMMA CommandedIs ==
  ASSUME NEW i \in Forms!Items, NEW new \in Forms!Commanded(i), i.tickler # None => Forms!Source(i.stage)
  PROVE  new \in Forms!Items /\ (new.tickler # None => Forms!Source(new.stage))
<1>1. CASE \E t \in Texts : new = [i EXCEPT !.title = t]
  BY <1>1 DEF Forms!Items
<1>2. CASE \E b \in Texts : new = [i EXCEPT !.body = b]
  BY <1>2 DEF Forms!Items
<1>3. CASE Forms!Source(i.stage) /\ \E t \in Texts : new = [i EXCEPT !.tickler = t]
  BY <1>3 DEF Forms!Items
<1>. QED BY <1>1, <1>2, <1>3 DEF Forms!Commanded

\* The item is moved.
LEMMA MoveItemStep ==
  ASSUME FormsInv, NEW to \in Stages, NEW reason \in Texts \cup {None}, Forms!Move(to, reason)
  PROVE  FormsInv'
<1>1. item # None /\ item \in Forms!Items /\ Forms!Write(Forms!Moved(item, to, reason))
  BY DEF FormsInv, FormTypes, Forms!Move
<1>. DEFINE new == Forms!Moved(item, to, reason)
<1>2. new \in Forms!Items /\ (new.tickler # None => Forms!Source(new.stage))
  BY <1>1, MovedIs
<1>. HIDE DEF new
<1>. QED BY <1>1, <1>2, WriteStep DEF new

\* It is given a reason.
LEMMA PauseReasonStep ==
  ASSUME FormsInv, NEW reason \in Texts, Forms!PauseReason(reason)
  PROVE  FormsInv'
<1>. DEFINE new == [item EXCEPT !.reason = reason]
<1>1. item # None /\ item \in Forms!Items /\ Forms!Write(new)
  BY DEF FormsInv, FormTypes, Forms!PauseReason
<1>2. new \in Forms!Items /\ (new.tickler # None => Forms!Source(new.stage))
  BY <1>1 DEF FormsInv, ScheduledOnSources, Forms!Items
<1>. HIDE DEF new
<1>. QED BY <1>1, <1>2, WriteStep

\* Its schedule comes due.
LEMMA WakeStep ==
  ASSUME FormsInv, Forms!Wake
  PROVE  FormsInv'
<1>. DEFINE once  == [item EXCEPT !.tickler = None, !.dest = None, !.tickled = TRUE, !.stage = Forms!WakesTo(item)]
            again == [item EXCEPT !.tickled = TRUE]
<1>1. item # None /\ item \in Forms!Items /\ item.tickler # None /\ (Forms!Write(once) \/ Forms!Write(again))
  BY DEF FormsInv, FormTypes, Forms!Wake
<1>2. Forms!Source(item.stage)
  BY <1>1 DEF FormsInv, ScheduledOnSources
<1>3. Forms!WakesTo(item) \in Stages
  BY <1>1, <1>2, FormConstants DEF Forms!WakesTo, Forms!Source, Forms!Items
<1>4. once \in Forms!Items /\ once.tickler = None
  BY <1>1, <1>3 DEF Forms!Items
<1>5. again \in Forms!Items /\ again.stage = item.stage
  BY <1>1 DEF Forms!Items
<1>. HIDE DEF once, again
<1>. QED BY <1>1, <1>2, <1>4, <1>5, WriteStep

\* A command line changes it.
LEMMA CommandLineStep ==
  ASSUME FormsInv, item # None, NEW to \in Forms!Commanded(item), Forms!CommandLine(to)
  PROVE  FormsInv'
<1>1. item \in Forms!Items /\ (item.tickler # None => Forms!Source(item.stage)) /\ Forms!Write(to)
  BY DEF FormsInv, FormTypes, ScheduledOnSources, Forms!CommandLine
<1>2. to \in Forms!Items /\ (to.tickler # None => Forms!Source(to.stage))
  BY <1>1, CommandedIs
<1>. QED BY <1>1, <1>2, WriteStep

\* Every step keeps the invariant.
LEMMA FormsStep == FormsInv /\ [Forms!Next]_(Forms!vars) => FormsInv'
<1> SUFFICES ASSUME FormsInv, [Forms!Next]_(Forms!vars)
             PROVE  FormsInv'
    OBVIOUS
<1>1. CASE UNCHANGED Forms!vars
  <2>1. FormTypes' /\ ScheduledOnSources'
    BY <1>1 DEF FormsInv, FormTypes, ScheduledOnSources, Forms!vars
  <2>2. FormsShow' /\ FormsStay' /\ SavesOfForms'
    BY <1>1 DEF FormsInv, FormsShow, FormsStay, SavesOfForms, Forms!vars
  <2>. QED BY <2>1, <2>2 DEF FormsInv
<1>2. ASSUME NEW p \in People, Forms!itemPanel(p) \/ Forms!Cancel(p) \/ Forms!editItem(p) \/ Forms!Edit(p)
      PROVE  FormsInv'
  BY <1>2, itemPanelStep, CancelStep, editItemStep, EditStep
<1>3. ASSUME NEW p \in People, form[p] # None, NEW to \in Forms!Typed(form[p].was), Forms!Type(p, to)
      PROVE  FormsInv'
  BY <1>3, TypeStep
<1>4. ASSUME NEW to \in Stages, NEW reason \in Texts \cup {None}, Forms!Move(to, reason)
      PROVE  FormsInv'
  BY <1>4, MoveItemStep
<1>5. ASSUME NEW reason \in Texts, Forms!PauseReason(reason)
      PROVE  FormsInv'
  BY <1>5, PauseReasonStep
<1>6. ASSUME item # None, NEW to \in Forms!Commanded(item), Forms!CommandLine(to)
      PROVE  FormsInv'
  BY <1>6, CommandLineStep
<1>7. CASE Forms!Wake
  BY <1>7, WakeStep
<1>8. CASE Forms!Leave
  BY <1>8, WriteStep DEF Forms!Leave
<1>. QED BY <1>1, <1>2, <1>3, <1>4, <1>5, <1>6, <1>7, <1>8 DEF Forms!Next

\* A form shows the item of its revision, and a save under way is of a form.
THEOREM FormsInvariant == Forms!Spec => []FormsInv
BY FormsStart, FormsStep, PTL DEF Forms!Spec

\* Two views that agree on every control but the group.
LEMMA ViewsAgree ==
  ASSUME NEW v \in View, NEW w \in View,
         v.title = w.title, v.prio = w.prio, v.reason = w.reason, v.body = w.body
  PROVE  [v EXCEPT !.group = None] = [w EXCEPT !.group = None]
BY DEF View

\* From the invariant, a save that sends its form's revision keeps what its
\* person left alone.
LEMMA SaveKeepsTheRest ==
  ASSUME NEW p \in People, SaveTaken(p), saving[p].sent
  PROVE  Forms!KeepsTheRest(p)
<1>. USE FormConstants
<1>. DEFINE f   == form[p]
            was == f.was
            now == f.now
            def == saving[p].def
            shown == [f.revision EXCEPT !.stage = f.stage]
<1>1. /\ f \in FormOf /\ def \in Stages \cup {None} /\ item \in Forms!Items
      /\ Forms!Revision(item) = f.revision /\ was = Forms!panelView(shown)
      /\ now.group = None <=> was.group = None
      /\ item' = Edited(item, now, def)
      /\ ~ moved[p] => def = Default(f.stage) /\ item.stage = f.stage
  BY DEF SaveTaken, Shows, SavingOf
<1>2. f.stage \in Stages /\ was \in View /\ now \in View
  BY <1>1 DEF FormOf
<1>3. /\ shown \in Forms!Items /\ shown.stage = f.stage
      /\ shown.title = item.title /\ shown.prio = item.prio /\ shown.reason = item.reason
      /\ shown.tickler = item.tickler /\ shown.paused = item.paused /\ shown.dest = item.dest
      /\ shown.tickled = item.tickled /\ shown.body = item.body
  BY <1>1, <1>2, SameRevision
<1>. HIDE DEF shown, now, was, def, f
\* What the form shows.
<1>4. /\ was.title = item.title /\ was.reason = item.reason
      /\ was.prio = (IF item.prio = None THEN "med" ELSE item.prio)
      /\ was.body = (IF item.body = "empty" THEN None ELSE item.body)
      /\ was.group # None =>
           /\ Forms!Source(f.stage)
           /\ was.group.tickler = item.tickler /\ was.group.paused = item.paused
           /\ was.group.dest = IF item.dest # None THEN item.dest ELSE WakeTo[f.stage]
  BY <1>1, <1>3, PanelIsView
<1>5. /\ Forms!panelView(item) \in View
      /\ Forms!panelView(item).title = was.title /\ Forms!panelView(item).prio = was.prio
      /\ Forms!panelView(item).reason = was.reason /\ Forms!panelView(item).body = was.body
  BY <1>1, <1>4, PanelIsView
\* What the save writes.
<1>6. EditedAs(item, now, def, Edited(item, now, def))
  BY <1>1, <1>2, EditedIs
<1>7. EditedAs(item, now, def, item')
  BY <1>1, <1>6
<1>8. /\ Forms!panelView(item') \in View
      /\ Forms!panelView(item').title = now.title /\ Forms!panelView(item').prio = now.prio
      /\ Forms!panelView(item').reason = now.reason /\ Forms!panelView(item').body = now.body
  <2>1. item'.prio # None /\ (item'.body = "empty" => now.body = None)
    BY <1>2, <1>7 DEF View, EditedAs
  <2>. QED BY <1>7, <2>1, PanelIsView DEF EditedAs
<1>9. [Forms!panelView(item) EXCEPT !.group = None] = [was EXCEPT !.group = None]
  BY <1>2, <1>5, ViewsAgree
<1>10. [Forms!panelView(item') EXCEPT !.group = None] = [now EXCEPT !.group = None]
  BY <1>2, <1>8, ViewsAgree
\* The stage to wake up to, of an item that is where the form shows it.
<1>11. ASSUME was.group # None, ~ moved[p]
       PROVE  /\ Forms!WakesTo(item') = now.group.dest
              /\ now.group = was.group => item'.dest \in {item.dest, None}
  <2>1. def = WakeTo[f.stage] /\ item'.stage = f.stage
    BY <1>1, <1>4, <1>7, <1>11 DEF Default, EditedAs
  <2>2. now.group.dest # None
    BY <1>1, <1>2, <1>11 DEF View, Group
  <2>3. Forms!WakesTo(item') = now.group.dest
    BY <1>1, <1>7, <1>11, <2>1, <2>2 DEF Forms!WakesTo, EditedAs
  <2>4. ASSUME now.group = was.group PROVE item'.dest \in {item.dest, None}
    BY <1>1, <1>4, <1>7, <1>11, <2>1, <2>4 DEF EditedAs
  <2>. QED BY <2>3, <2>4
<1>12. was.group # None =>
         /\ item.tickler = was.group.tickler /\ item.paused = was.group.paused
         /\ item'.tickler = now.group.tickler
         /\ item'.tickled = (item.tickled \/ (was.group.paused /\ ~ item'.paused /\ item'.tickler # None))
  BY <1>1, <1>4, <1>7 DEF EditedAs
<1>13. was.group = None => item'.tickler = item.tickler /\ item'.paused = item.paused /\ item'.dest = item.dest
  BY <1>1, <1>7 DEF EditedAs
<1>14. item'.stage = item.stage
  BY <1>7 DEF EditedAs
<1>. QED BY <1>9, <1>10, <1>11, <1>12, <1>13, <1>14 DEF Forms!KeepsTheRest, was, now, f

\* A form whose save is under way ends when that save is taken.
LEMMA OnlyEditSaves ==
  ASSUME FormsInv, [Forms!Next]_(Forms!vars), NEW p \in People,
         saving[p] # None, form[p] # None, form'[p] = None
  PROVE  SaveTaken(p)
<1>1. ~ UNCHANGED Forms!vars
  BY DEF Forms!vars
<1>2. \A new : ~ Forms!Write(new)
  BY DEF Forms!Write
<1>3. ASSUME NEW q \in People, Forms!itemPanel(q) \/ Forms!Cancel(q) \/ Forms!editItem(q)
      PROVE  FALSE
  BY <1>3 DEF FormsInv, FormTypes, Forms!itemPanel, Forms!Cancel, Forms!editItem
<1>4. ASSUME NEW q \in People, form[q] # None, NEW to, Forms!Type(q, to)
      PROVE  FALSE
  BY <1>4 DEF FormsInv, FormTypes, Forms!Type
<1>5. ASSUME NEW q \in People, Forms!Edit(q)
      PROVE  SaveTaken(p)
  <2>1. SaveTaken(q)
    BY <1>5, SaveIs
  <2>2. q = p
    BY <2>1 DEF FormsInv, FormTypes, SaveTaken
  <2>. QED BY <2>1, <2>2
<1>. QED BY <1>1, <1>2, <1>3, <1>4, <1>5
         DEF Forms!Next, Forms!Move, Forms!PauseReason, Forms!CommandLine, Forms!Wake, Forms!Leave

\* Whoever else changes the item, a save changes what its person changed, on the
\* item that the form shows.
THEOREM SavesKeepTheRest == Forms!Spec => EditKeepsTheRest
<1>1. FormsInv /\ [Forms!Next]_(Forms!vars) => [\A p \in People : Forms!KeepsTheRest(p)]_(Forms!vars)
  BY OnlyEditSaves, SaveKeepsTheRest DEF Forms!KeepsTheRest
<1>2. FormsInv => (about = "forms" => Forms!TypeOK)
  BY DEF FormsInv, FormTypes, SavesOfForms, Forms!TypeOK
<1>. QED BY <1>1, <1>2, FormsInvariant, PTL DEF EditKeepsTheRest, Forms!EditKeepsTheRest, Forms!Spec

-----------------------------------------------------------------------------
(* The run of the components side by side (MCRequests): while one goes on  *)
(* the others rest.                                                        *)

\* Nobody is denied, and saves keep the rest, in the run that TLC makes, too.
THEOREM SideBySide == RequestsSpec => []NoFalseNotFound /\ EditKeepsTheRest
<1>1. RequestsInit => RegistryInv /\ FormsInv
  BY RegistryStarts, FormsStart DEF RequestsInit
<1>2. [RequestsNext]_everything => [Registry!Next]_(Registry!vars) /\ [Forms!Next]_(Forms!vars)
  BY DEF RequestsNext, everything, registry, forms, Registry!vars, Forms!vars
<1>3. RegistryInv => NoFalseNotFound
  BY DEF RegistryInv, NoFalseNotFound
<1>4. FormsInv /\ [Forms!Next]_(Forms!vars) => [\A p \in People : Forms!KeepsTheRest(p)]_(Forms!vars)
  BY OnlyEditSaves, SaveKeepsTheRest DEF Forms!KeepsTheRest
<1>5. FormsInv => (about = "forms" => Forms!TypeOK)
  BY DEF FormsInv, FormTypes, SavesOfForms, Forms!TypeOK
<1>. QED BY <1>1, <1>2, <1>3, <1>4, <1>5, RegistryStep, FormsStep, PTL
         DEF RequestsSpec, EditKeepsTheRest, Forms!EditKeepsTheRest

===============================================================================
