-------------------------------- MODULE MCTools --------------------------------
(***************************************************************************)
(* What one process computes at a time: when a schedule is due, the views  *)
(* of the items, a command line, and the operations that rebuild files     *)
(* (archive, migrate, fix, the splices of lines).  They share no state; a  *)
(* behaviour of the run is one of one of them, while the variables of the  *)
(* others stay as they are.                                                *)
(***************************************************************************)
EXTENDS MCSchedule, Sequences, TLC

CONSTANTS
  None,
  n1, n2, n3, n4,            \* the notes of Migrate in the run
  CardIds, Slots, Notes, InitDisks, MaxByHand,  \* Migrate
  Branches, MaxAdds, MaxDay  \* Fix

VARIABLES
  turn,  \* the tool that runs
  born, viewed, item, viewCut,                              \* Views
  line, done,                                               \* Cli
  now, doneMd, archive, detail, moved, todo, cutoff, rev, closed,  \* Archive
  disk, step, read, plan, edits,                            \* Migrate
  version, day, branch, dir, merged, phase,                 \* Fix
  file, f, touched, commits                                 \* Lines

views   == <<born, viewed, item, viewCut>>
cli     == <<line, done>>
archival == <<now, doneMd, archive, detail, moved, todo, cutoff, rev, closed>>
migration == <<disk, step, read, plan, edits>>
fixing  == <<version, day, branch, dir, merged, phase>>
splices == <<file, f, touched, commits>>
tools   == <<turn, vars, views, cli, archival, migration, fixing, splices>>

-----------------------------------------------------------------------------
(* Views about the turn of two years: after a long one, whose last week is *)
(* its 53rd, and at the end of one whose last days are in week 1 of the    *)
(* next.                                                                   *)

Window      == UNION {DayNumber(Date(y, 1, 1))..DayNumber(Date(y + 1, 3, 31)) : y \in {2020, 2024}}
WindowDates == [n \in Window |-> DateAt(n)]
WindowWeeks == [n \in Window |-> ISOWeek(WindowDates[n])]

Views == INSTANCE Views WITH
  Items     <- {1, 2},
  TagsOf    <- <<{}, {"a", "b"}>>,
  OutcomeOf <- <<"shipped", "cancelled">>,
  Births    <- {DayNumber(Date(2021, 1, 2)), DayNumber(Date(2024, 12, 31))},
  DateOf    <- WindowDates, ISOWeekOf <- WindowWeeks,
  Span      <- 2,
  today <- viewed, cutoff <- viewCut

ASSUME Views!ViewsAssumption

-----------------------------------------------------------------------------
(* Lines of up to four words, in directories beside and below boards.      *)

Switch(name)      == [switch |-> name, value |-> None]
With(name, value) == [switch |-> name, value |-> value]
Text(text)        == [switch |-> None, value |-> text]

Typed ==
  {Switch(name) : name \in {"add", "remove", "unblock", "archive", "migrate", "tick", "list",
                            "dry-run", "force", "yes", "dir", "before", "age", "--"}}
    \cup {With("add", "text"), With("dry-run", "no"), With("dir", "ours"), With("dir", "")}
    \cup {Text("text"), Text("ours"), Text("theirs"), Text("-")}

Places ==
  {w \in [env : {"", "ours"}, up : {<<{}, {}>>, <<{}, {"ours"}>>, <<{"ours"}, {"theirs"}>>, <<{"ours", "theirs"}, {"theirs"}>>},
          below : {{}, {"theirs"}, {"ours", "theirs"}}] :
     (w.env # "" \/ w.up # <<{}, {}>>) => w.below = {"theirs"}}

Cli == INSTANCE Cli WITH
  Words <- Typed, MaxWords <- 3, Boards <- {"ours", "theirs"}, Worlds <- Places

ASSUME Cli!CliAssumption

-----------------------------------------------------------------------------
(* Two closed items, one of them perhaps twice, over three months of two   *)
(* years.                                                                  *)

Archive == INSTANCE Archive WITH
  Ids <- {1, 2}, Merged <- {1}, OnBoard <- {1}, MaxMonth <- 3, MaxRev <- 2, done <- doneMd

-----------------------------------------------------------------------------
(* Version-1 directories in every mixture of the two layouts of working    *)
(* files, with items that can be read and items that cannot.               *)

Backlogged(id, section, tags, detailed) ==
  [kind |-> "item", id |-> id, section |-> section, tags |-> tags, detail |-> detailed]
Working(id, detailed)  == Backlogged(id, "working", "list", detailed)
Slot(occupant, body)   == [item |-> occupant, body |-> body]

SlotFiles == {<<None, None, None>>,
              <<Slot(Working(3, FALSE), {n1}), Slot(None, {}), None>>,
              <<Slot(Working(3, TRUE), {n1}), Slot(Working(4, FALSE), {}), None>>}
Backlogs  ==
  {<<[kind |-> "header"]>> \o p \o <<Backlogged(1, s, "flow", FALSE), Backlogged(2, "someday", t, FALSE)>> :
     p \in {<<>>, <<[kind |-> "project"]>>}, s \in {"ready", "blocked"}, t \in {"list", "flow", "odd"}}
  \cup {<<[kind |-> "header"], [kind |-> "project"], Backlogged(1, "ready", "flow", FALSE),
          Backlogged(1, "blocked", "list", FALSE)>>}
AllNotes    == {n1, n2, n3, n4}
Directories ==
  {[working |-> w, slot |-> s, backlog |-> b, board |-> None,
    detail |-> [id \in 1..6 |-> IF id = 3 /\ s[1] # None /\ s[1].item.detail THEN {n3} ELSE None]] :
      w \in {None, Slot(Working(5, FALSE), {n2})}, s \in SlotFiles, b \in Backlogs}

Migrate == INSTANCE Migrate WITH
  Ids <- CardIds, MaxEdits <- MaxByHand, pc <- step, todo <- plan

ASSUME MigrateAssumption == Migrate!MigrateAssumption

-----------------------------------------------------------------------------
(* Two branches that add items.                                            *)

Fix == INSTANCE Fix

ASSUME FixAssumption == Fix!FixAssumption

-----------------------------------------------------------------------------
(* done.md with groups of items and without, and boards in and out of      *)
(* their blocks.                                                           *)

Kind(k)   == [k |-> k]
Blank     == Kind("blank")
Prose     == Kind("prose")
Month(m)  == [k |-> "heading", month |-> m]
Block(s)  == [k |-> "comment", stage |-> s]
Line(id, stage, finished) ==
  [k |-> "item", id |-> id,
   fields |-> <<<<"x", "1">>, <<"prio", "high">>>>
              \o (IF stage = None THEN <<>> ELSE <<<<"stage", stage>>>>)
              \o (IF finished = None THEN <<>> ELSE <<<<"done", finished>>>>)]
Header    == <<Kind("---"), [k |-> "key", key |-> "doc", val |-> "d"], Kind("---"), Prose>>

DoneFiles ==
  {<<>>, <<Blank>>,
   <<Blank, Month(7), Blank, Line("a", None, 7), Line("b", None, 7), Blank>>,
   <<Blank, Month(7), Line("a", None, 7), Blank, Month(5), Blank, Line("b", None, 5), Blank>>,
   <<Blank, Month(7), Line("a", None, 7), Blank, Month(5), Blank, Blank>>,
   <<Month(7), Blank, Block("x"), Line("a", None, 7), Blank, Month(5), Prose>>}
BoardFiles ==
  {<<Blank>>,
   <<Blank, Block("s"), Line("a", "s", None), Blank, Block("r"), Line("b", "r", None), Blank>>,
   <<Line("a", "r", None), Line("b", "s", None), Line("c", "r", None)>>,
   <<Blank, Block("s"), Kind("broken"), Line("a", "odd", None), Blank, Prose, Line("b", "s", None), Blank>>}
Files == {[board |-> FALSE, lines |-> Header \o ls] : ls \in DoneFiles}
           \cup {[board |-> TRUE, lines |-> Header \o ls] : ls \in BoardFiles}

Lines == INSTANCE Lines WITH
  Ids <- {"a", "b", "c"}, Keys <- {"doc", "updated"}, Months <- {5, 6, 7},
  Registered <- <<"stage", "prio", "done">>, Stages <- <<"s", "r">>,
  InitFiles <- Files,
  MaxEdits <- 2, MaxCommits <- 1

-----------------------------------------------------------------------------
(* A tool that does not run rests in one of its initial states.            *)

Some(S) == CHOOSE x \in S : TRUE

ToolsInit ==
  /\ turn \in {"schedule", "views", "cli", "archive", "migrate", "fix", "lines"}
  /\ Init           /\ (turn # "schedule" => sched = Some(Expressions) /\ created = Some(Births))
  /\ Views!Init     /\ (turn # "views" => born = DayNumber(Date(2021, 1, 2)))
  /\ Migrate!Init   /\ (turn # "migrate" => disk = Some(InitDisks))
  /\ Lines!Init     /\ (turn # "lines" => file = Some(Files))
  /\ Fix!Init       /\ (turn # "fix" => version = 1)
  /\ Cli!Init /\ Archive!Init

ToolsNext ==
  /\ UNCHANGED turn
  /\ IF turn = "schedule" THEN Next           ELSE UNCHANGED vars
  /\ IF turn = "views"    THEN Views!Next     ELSE UNCHANGED views
  /\ IF turn = "cli"      THEN Cli!Next       ELSE UNCHANGED cli
  /\ IF turn = "archive"  THEN Archive!Next   ELSE UNCHANGED archival
  /\ IF turn = "migrate"  THEN Migrate!Next   ELSE UNCHANGED migration
  /\ IF turn = "fix"      THEN Fix!Next       ELSE UNCHANGED fixing
  /\ IF turn = "lines"    THEN Lines!Next     ELSE UNCHANGED splices

ToolsSpec == ToolsInit /\ [][ToolsNext]_tools

-----------------------------------------------------------------------------
(* The properties of each, where it is its turn.  A run of the tickler     *)
(* settles what is due (Schedule): RunSettles, as it stands.               *)

\* Schedule: the next day is the least that matches, and is found.
LeastIsNext    == turn = "schedule" => TypeOK /\ NextIsLeast /\ SearchIsShort

\* Views: buckets count every day and every closed item of the range once.
SeriesAddUp    == turn = "views" => Views!SeriesAddUp

\* Views: a report that misses what was closed in its period says so.
MissingIsSaid  == turn = "views" => Views!MissingIsSaid

\* Cli: a line changes a board only if the person asked for that.
WritesAreMeant == turn = "cli" => Cli!WritesAreMeant

\* Migrate: no item and no note is lost by a migration, interrupted or not.
NothingDropped == turn = "migrate" => Migrate!NothingDropped

\* Migrate: the same of every note, as the documents have it.
NoHole         == turn = "migrate" => Migrate!NoHole

\* Fix: two merged branches of version 1 are made a directory that checks
\* clean; what the repair refuses, or crashes on, stays as it was.
FixRepairs     == turn = "fix" => Fix!FixRepairs

\* Archive: no id is lost, an interrupted run is made good by the next, and
\* the file of a closed item is at every point where its line says.
RunsHeal       == Archive!RunsHeal /\ [](turn = "archive" => Archive!TypeOK /\ Archive!DetailsFollow)

\* Lines, Migrate: what a splice, and a repair of the lines, is not about
\* stays as it is; and the line numbers of a transaction are those of its lines.
RestStays      == /\ Lines!RestStays /\ [](turn = "lines" => Lines!NumbersHold)
                  /\ Migrate!LinesStay

=============================================================================
