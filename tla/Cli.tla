----------------------------------- MODULE Cli -----------------------------------
(***************************************************************************)
(* One invocation of mm (internal/cli): the words of the command line are  *)
(* parsed (parse.go), the directory is resolved (resolve.go), one          *)
(* operation is dispatched (run.go, check.go) and its error becomes an     *)
(* exit code (exit.go).                                                    *)
(*                                                                         *)
(* A word is a switch, maybe with an inline value, or a text.  What the    *)
(* store answers is any of its errors: its operations are the Board and    *)
(* transaction modules.                                                    *)
(***************************************************************************)
EXTENDS Naturals, Sequences, FiniteSetsExt, SequencesExt

CONSTANTS
  None,
  Words,    \* of a command line: see Word
  MaxWords, \* bound: words of a line
  Boards,   \* directories that hold a board
  Worlds    \* where the boards are: see World

Texts == {"", "-", "text", "yes", "no", "elsewhere"} \cup Boards
Word  == [switch : STRING \cup {None}, value : Texts \cup {None}]

\* MM_DIR, the boards beside each directory from the working directory up, and
\* those below it.
World == [env : Boards \cup {"", "elsewhere"}, up : Seq(SUBSET Boards), below : SUBSET Boards]

\* ASSUMEd in MCTools.
CliAssumption == Words \subseteq Word /\ Worlds \subseteq World

VARIABLES
  line,  \* the words typed so far
  done   \* what the invocation came to, or None

vars == <<line, done>>

-----------------------------------------------------------------------------
(* The switches.                                                           *)

opTakesValue == {"show", "edit", "remove", "move", "start", "pause", "finish", "add", "wip", "block",
                 "unblock", "note", "search", "add-many"}

operations == opTakesValue \cup {"init", "list", "report", "check", "find", "status", "next", "fix",
                                 "archive", "migrate", "stats", "tick", "refresh-structure"}

subjectIsID == {"show", "edit", "remove", "move", "start", "pause", "finish", "block", "unblock", "note"}

\* Operations that only read.
reading == {"show", "list", "report", "check", "find", "status", "next", "search", "stats"}

boolModifiers  == {"dry-run", "yes", "force", "all", "detail", "keep-notes", "discard-notes"}
valueModifiers == {"dir", "stage", "reason", "detail-text", "before", "age", "project"}

NoInvocation == [op |-> None, subject |-> "", bools |-> {}, seen |-> {}, dir |-> "", rest |-> 0]

(***************************************************************************)
(* Parse, one word at a time.  "wants" is the switch that takes the next   *)
(* word: an operation may, a modifier must.                                *)
(***************************************************************************)
Reading == [in |-> NoInvocation, wants |-> None, ended |-> FALSE, failed |-> FALSE]

Failed(r) == [r EXCEPT !.failed = TRUE]

\* "--" ends the switches.
IsEnd(w) == w.switch = "--"

\* A bare "-" is a text.
isSwitch(w) == w.switch # None

\* Bug: a switch takes whatever comes next.
isValueBug(w) == ~ IsEnd(w)

\* A switch is never the value of another.
isValue(w) == ~ isSwitch(w)

setOp(r, name) ==
  IF r.in.op # None THEN Failed(r)
  ELSE [r EXCEPT !.in.op = name, !.wants = IF name \in opTakesValue THEN name ELSE None]

setBool(r, name, value) ==
  CASE value \in {None, "yes"} -> [r EXCEPT !.in.bools = @ \cup {name}]
    [] value = "no"            -> [r EXCEPT !.in.bools = @ \ {name}]
    [] OTHER                   -> Failed(r)

\* The last value stands.
setValue(r, name, value) ==
  [r EXCEPT !.in.seen = @ \cup {name}, !.in.dir = IF name = "dir" THEN value ELSE @, !.wants = None]

splitSwitch(r, w) ==
  CASE w.switch \in operations ->
         LET new == setOp(r, w.switch)
         IN IF w.value = None THEN new ELSE [new EXCEPT !.in.subject = w.value, !.wants = None]
    [] w.switch \in boolModifiers  -> setBool(r, w.switch, w.value)
    [] w.switch \in valueModifiers ->
         IF w.value = None THEN [r EXCEPT !.wants = w.switch] ELSE setValue(r, w.switch, w.value)
    [] OTHER -> Failed(r)

takeValue(r, text) ==
  IF r.wants \in operations THEN [r EXCEPT !.in.subject = text, !.wants = None]
                            ELSE setValue(r, r.wants, text)

ParseWord(r, w) ==
  IF r.failed \/ r.ended THEN [r EXCEPT !.in.rest = @ + 1]
  ELSE IF r.wants # None /\ isValue(w) THEN takeValue(r, w.value)
  ELSE IF r.wants \in valueModifiers THEN Failed(r)
  ELSE LET free == [r EXCEPT !.wants = None]
       IN CASE IsEnd(w)      -> [free EXCEPT !.ended = TRUE]
            [] isSwitch(w)   -> splitSwitch(free, w)
            [] w.value = "-" -> Failed(free)
            [] OTHER         -> [free EXCEPT !.in.rest = @ + 1]

\* What is refused about the line as a whole.
validate(in) ==
  /\ in.op # None
  /\ ~ ("all" \in in.bools /\ in.dir # "")
  /\ ~ (in.op = "remove" /\ "yes" \in in.bools /\ "force" \notin in.bools)

Parse(words) == FoldLeft(ParseWord, Reading, words)

Accepted(r) == ~ r.failed /\ r.wants \notin valueModifiers /\ validate(r.in)

-----------------------------------------------------------------------------
(* The directory: a named one or an error, else the nearest above, else    *)
(* the only one below.                                                     *)

Named(dir) == IF dir \in Boards THEN dir ELSE None

OnlyOne(found) == IF Cardinality(found) = 1 THEN CHOOSE b \in found : TRUE ELSE None

\* The first level that has a board, 0 when none has.
searchUpward(up) == SelectInSeq(up, LAMBDA found : found # {})

resolveDir(dir, w) ==
  IF dir # "" THEN Named(dir)
  ELSE IF w.env # "" THEN Named(w.env)
  ELSE IF searchUpward(w.up) # 0 THEN OnlyOne(w.up[searchUpward(w.up)])
  ELSE OnlyOne(w.below)

-----------------------------------------------------------------------------
(* The operation.                                                          *)

Errors == {"InvalidArgument", "NotFound", "WipLimit", "Precondition", "Conflict", "AlreadyExists",
           "Concurrent", "Invariant", "VersionMismatch", "IO"}

exitCode(err) ==
  CASE err = None                                  -> 0
    [] err = "Invariant"                           -> 1
    [] err \in {"Usage", "InvalidArgument"}        -> 2
    [] err = "NotFound"                            -> 3
    [] err \in {"WipLimit", "Precondition", "Conflict", "AlreadyExists"} -> 4
    [] err = "Concurrent"                          -> 5
    [] OTHER                                       -> 6

\* The subject of an operation that takes a text: its value, or the words left.
runAdd(in) == in.op \in {"add", "search"} /\ ((in.subject = "") = (in.rest = 0))

subjectID(in)  == in.op \in subjectIsID /\ in.subject = ""
detailBody(in) == in.op = "add" /\ "detail" \in in.bools /\ "detail-text" \in in.seen
runAddMany(in) == in.op = "add-many" /\ ("detail" \in in.bools \/ "detail-text" \in in.seen)
runEdit(in)    == in.op = "edit" /\ "stage" \in in.seen
runPause(in)   == in.op \in {"pause", "finish"} /\ {"keep-notes", "discard-notes"} \subseteq in.bools
runBlock(in)   == in.op = "block" /\ "reason" \notin in.seen /\ in.rest = 0
runNote(in)    == in.op = "note" /\ in.rest = 0
runWip(in)     == in.op = "wip"  \* bound: no number is typed
runArchive(in) == in.op = "archive" /\ {"before", "age"} \subseteq in.seen
runInit(in)    == in.op = "init" /\ "project" \notin in.seen

Misused(in) ==
  \/ runAdd(in) \/ subjectID(in) \/ detailBody(in) \/ runAddMany(in) \/ runEdit(in) \/ runPause(in)
  \/ runBlock(in) \/ runNote(in) \/ runWip(in) \/ runArchive(in) \/ runInit(in)

\* Every request that writes carries the switch.
dryRun(in) == "dry-run" \in in.bools

\* The guard of a removal is the store's, before it writes.
Guarded(in) == in.op = "remove" /\ "force" \notin in.bools

StoreAnswers(in) == IF Guarded(in) THEN Errors ELSE Errors \cup {None}

\* A tick run is a transaction for each item: it may end on any error after
\* some have been fired.
runTick(in) == in.op = "tick"

\* What of the board an answer leaves changed; an error of the file system may
\* come half way.
Changes(in, board, err) ==
  IF in.op \in reading \/ dryRun(in) \/ Guarded(in) THEN {{}}
  ELSE IF err = None THEN {{board}} ELSE IF err = "IO" \/ runTick(in) THEN {{}, {board}} ELSE {{}}

\* The repair, and the chain of versions in a transaction of its own: that
\* there is nothing to do, and what --check finds, are no failure.
runMigrate(in, board) ==
  {[err |-> first, changed |-> c] : first \in {"InvalidArgument", "Concurrent", "IO"}, c \in {{}}}
    \cup UNION {{[err |-> IF err \in {"Conflict", "Invariant"} THEN None ELSE err, changed |-> c] :
                   c \in IF dryRun(in) THEN {{}} ELSE {{}, {board}}} : err \in Errors \cup {None}}

dispatch(in, w) ==
  LET board == resolveDir(in.dir, w)
      said(err) == {[err |-> err, changed |-> {}]}
  IN CASE in.op = "init"  -> IF Misused(in) THEN said("Usage")
                             ELSE UNION {said(err) : err \in {None, "AlreadyExists", "IO"}}
       [] in.op = "find"  -> said(None)
       [] in.op = "check" -> IF "all" \in in.bools
                             THEN said(IF w.below = {} THEN "NotFound" ELSE None) \cup said("Invariant")
                             ELSE IF board = None THEN said("NotFound") ELSE said(None) \cup said("Invariant")
       [] board = None    -> said("NotFound")
       [] Misused(in)     -> said("Usage")
       [] in.op = "migrate" -> runMigrate(in, board)
       [] OTHER -> UNION {{[err |-> err, changed |-> c] : c \in Changes(in, board, err)} : err \in StoreAnswers(in)}

-----------------------------------------------------------------------------
Init == line = <<>> /\ done = None

Type(w) == done = None /\ Len(line) < MaxWords /\ line' = Append(line, w) /\ UNCHANGED done

Refuse ==
  /\ done = None /\ line # <<>> /\ ~ Accepted(Parse(line))
  /\ done' = [exit |-> exitCode("Usage"), changed |-> {}]
  /\ UNCHANGED line

Run ==
  /\ done = None /\ Accepted(Parse(line))
  /\ \E w \in Worlds : \E result \in dispatch(Parse(line).in, w) :
       done' = [exit |-> exitCode(result.err), changed |-> result.changed, world |-> w]
  /\ UNCHANGED line

Next == (\E w \in Words : Type(w)) \/ Refuse \/ Run

Spec == Init /\ [][Next]_vars

-----------------------------------------------------------------------------
(* What the words mean to the person who typed them, without a parser.     *)

\* The switches before "--", and the word a switch is followed by.
Switches == {i \in DOMAIN line : line[i].switch # None /\ \A j \in 1..i : ~ IsEnd(line[j])}

LastOf(name) == CHOOSE i \in Switches : line[i].switch = name
                  /\ \A j \in Switches : line[j].switch = name => j <= i
Given(name)  == \E i \in Switches : line[i].switch = name
On(name)     == Given(name) /\ line[LastOf(name)].value # "no"
DirTyped     == IF line[LastOf("dir")].value # None THEN line[LastOf("dir")].value ELSE line[LastOf("dir") + 1].value

\* The boards a person could mean who names none: those at the nearest level.
Nearest(w) ==
  LET levels == {k \in DOMAIN w.up : w.up[k] # {}}
  IN IF levels = {} THEN w.below ELSE w.up[Min(levels)]

Meant ==
  IF Given("dir") /\ DirTyped # "" THEN {DirTyped}
  ELSE IF done.world.env # "" THEN {done.world.env} ELSE Nearest(done.world)

\* A command changes a board only when the person asked for it: one operation,
\* and one that writes; no --dry-run that holds anywhere in the line, whatever
\* stands beside it; --force for a removal; and the board the person named, or
\* the only one they could mean.  An exit code from 1 to 5 says that nothing
\* was changed, but for a migration, which repairs before it refuses, and a tick
\* run, whose earlier fires stay when it ends on an error.
WritesAreMeant ==
  done # None =>
    LET ops == {i \in Switches : line[i].switch \in operations} IN
    /\ done.changed # {} =>
         /\ Cardinality(ops) = 1
         /\ \A i \in ops : line[i].switch \notin reading /\ (line[i].switch = "remove" => On("force"))
         /\ ~ On("dry-run")
         /\ done.changed = Meant
    /\ done.exit \in 1..5 /\ ~ Given("migrate") /\ ~ Given("tick") => done.changed = {}

=============================================================================
