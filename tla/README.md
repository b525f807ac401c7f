# micro-manager in TLA+

A verification development of micro-manager (`mm`), a task board kept as Markdown
files in a directory. The Go implementation (`implementations/golang`) is the
reference: the library `mm/`, and the web service and the CLI that call it.

- [The system](#the-system): components, state, operations, interactions
- [The modules](#the-modules): which module models what, and how
- [What the runs check](#what-the-runs-check): questions, bounds, fairness
- [What is proved](#what-is-proved)
- [Where the documents and the code disagree](#where-the-documents-and-the-code-disagree)
- [Not modelled](#not-modelled)
- [Plan](#plan)

## The system

A **data directory** holds `board.md` (the items of every stage, in rank order, and in
its frontmatter the configuration and `next_id`), `done.md` (the closed items, by
month), `details/T-nnnn.md` (one optional file per item), and optionally `audit.md`.
Old months of `done.md` are moved to `done-YYYY.md` and `details-YYYY/`. There is no
database and no daemon that owns the files: the CLI, the web service, a cron job running
`mm --tick` and a person's editor all work on them. Beside the data directories there are
a configuration of the system and one of each project, theme files, and two lists of
projects, which the web service and its API rewrite.

| component | state | operations | interacts with | what is hard | what makes it correct |
|---|---|---|---|---|---|
| **Directory model and line editor** (`board.go`, `parsefile.go`, `item.go`, `itemline.go`, `frontmatter.go`, `write.go`) | the parsed files of one load, with their line numbers | splice lines in and out; `regroupBoard` re-lays the board on each write | everything in `mm/` | line numbers shifted by every splice; insert positions across a re-layout; duplicates after a crash | a person's ranking survives; what an edit is not about stays as it is |
| **Checker** (`validate.go`) | none | `validate()`: rules I1 to I10 | commit, `--check` | it defines what commit may write | no operation leaves a directory it rejects |
| **Item operations** (`board_ops.go`, `op_add*.go`, `op_start/pause/finish/move/remove.go`) | none of their own | add, add-many, start, pause, move, finish, remove | a transaction each | sequences of legal calls; caps; the id counter; half a batch | ids never reused, no item lost, caps held |
| **Fields, notes, details** (`op_update.go`, `op_edit.go`, `op_note.go`, `op_detail.go`) | `details/` | update, edit, note, attach, set body, append, detach | checker rules I8, I9 | orphans adopted or overwritten; titles drifting apart | notes are kept; line and detail file agree |
| **Caps and structure** (`op_wip.go`, `op_refresh_structure.go`) | `wip.<stage>:` | set cap, refresh structure | the item operations | a cap lowered under a full stage | no stage grows beyond its cap |
| **Transactions** (`tx.go`, `atomic.go`, `store.go`) | `s.mu`, stamps, write set | begin (load, validate), stage, commit (validate, compare stamps, write, delete) | the file system, other processes | interleavings with other processes; crashes and I/O errors between two renames; stale reads | atomic but for an interruption, which is loud and loses nothing; no write over something unread |
| **Audit log** (`audit.go`) | `audit.md` | append in the transaction; read | commit | ahead of the data after a crash | never claims what is not on disk |
| **Tickler run** (`op_tick.go`, `board_ops.go`) | the run's ledger of items done | one transaction per due item | schedules, item operations, other runners | overlapping runs, one of them with yesterday's date; failing fires | once per date; a run ends |
| **Schedules** (`schedule.go`) | none | parse, `Next`, `Due` | tickler, web forms | short months, leap years, missed days; an unbounded search | the least day after; exactly what is owed; it ends |
| **Archive** (`op_archive.go`) | `done-YYYY.md`, `details-YYYY/` | roll old months out | transactions | a run interrupted, edits, a run again; ids that are in two files | the next run makes good what an interrupted one left |
| **Migrate, version 1** (`op_migrate.go`, `migrate.go`, `working.go`) | `backlog.md`, `working.md` or `working.NN.md` | repair old shapes; fold into a board | transactions; the settings page | interruption between any two files, over every mixture of layouts | re-runnable; no item lost, and no note but in one case |
| **Fix** (`op_fix.go`) | none | repair what a merge of two branches left | checker | which copy keeps an id, and which file goes with it; a version-2 directory | the result checks clean and holds every item; nothing is written otherwise |
| **Init** (`init.go`) | none | create a directory | — | — | the empty board checks clean |
| **Revisions and the item form** (`item_revision.go`, web `item.go`, `guards.go`) | forms in people's browsers | open, type, save | `Edit`, moves, tickler, command line | a form saved over a newer item; three operations behind one button | a save changes what its person changed, or is refused |
| **Event broker and pollers** (web `broker.go`, `freshness.go`, `static/mm.js`) | subscribers and a poller per project | subscribe, publish, poll, drop, close | registry, server-sent events | poller lifetime against subscribers, drops, shutdown; refreshes that the page script cancels | a connected tab learns of a change, unless it did not listen; close returns and is final |
| **Registry** (web `registry.go`) | Stores by project id, the last walk | rescan, resolve, register, replace the roots | discovery, all handlers | walks and opens outside the lock | no project is denied that was there to be found |
| **Configuration and its service** (`config.go`, web `settings.go`, `tickler.go`, `server.go`) | `config.json` of the system and of a project; the tickler's loop | forms, API, reload, apply, stop, pass | registry, library | two saves at once; replacing a loop that is in a pass | a save takes effect; one loop at most; apply returns |
| **Discovery** (`discover.go`) | the walk's stack | walk the roots | registry | bounds on depth, results and time over links and cycles | each board once, or the result says that it is partial |
| **Themes** (`theme.go`, web `theme.go`, `api/files.go`) | theme files in three places | resolve, edit, import, export | pages | files that do not parse in front of ones that do; read twice by the editor | a complete theme always resolves; unknown keys survive |
| **Recent and favorites** (`list.go`) | two lists of projects | touch, toggle, reorder, put | API, other front ends | read, change and write without a lock | a lost race loses no more than one edit |
| **Search, report, period and stats** (`report.go`, `period.go`, `op_stats.go`) | none | read-only views of one load | the library | ISO weeks at the turn of a year; what the archives hold | three views of one week are about the same days |
| **CLI** (`internal/cli`) | none | parse, resolve a directory, dispatch, exit code | the library | words that are switches or values depending on others | a board is only changed, and only that board, when asked for |
| **Pages, JSON API** (`internal/web`, `internal/web/api`) | none | a read and a template; one library call per request | the library | see the rows above | — |
| **Python implementation, plugins** | — | a second front end, a plugin that calls the CLI | the same files | — | — |

**How they interact.** A caller (a CLI process, an HTTP handler, a tick run) calls one
`Store` method. The method takes the Store's mutex, loads *every* file of the directory,
validates what it found as a baseline, computes the new lines in memory, parses them back
and validates again, refuses if it *introduced* a violation, then compares stamps, renames
the files into place one by one, and removes files. The mutex is per Store, that is per
process (and, in the service, per open of a project): between processes there are only the
stamps. The files beside the data directories have not even those: a request reads, changes
and renames.

The service polls each watched directory's fingerprint and tells its tabs through the
broker. A change of the configuration replaces the registry's roots and restarts the loop of
the tickler service, which runs the library's tickler over every project the registry lists.

## The modules

| module | models |
|---|---|
| `Directory` | pure operators: a version-2 directory as one value; `validate()`; every version-2 item, field, detail, cap and tickler operation as a function from a directory to the *set of results* it can have (empty: it returns an error) |
| `Board` | one directory under any number of callers, each operation one atomic step; `--tick` runs as loops of one step per item; the days |
| `FileTx` | the transaction protocol over files: mutex, stat, read, plan, stamp check, rename, removal, I/O error, crash, several Stores with several callers each. What an operation does is the constant `Plan` |
| `AtomicTx` | abstract: what a Store promises: complete transactions one after the other, or a prefix of one's file changes |
| `StoreTx` | `FileTx` with `Plan` instantiated by `Directory`'s operations, over board.md, done.md, audit.md and details/; `AtomicTx` as its abstraction by refinement |
| `FileTxProofs` | theorems of `FileTx` |
| `DirectoryProofs` | lemmas about every operation of `Directory` |
| `BoardProofs` | theorems of `Board` |
| `StoreTxProofs` | theorems of `StoreTx`, the refinement among them |
| `BrokerProofs` | theorems of `Broker` |
| `SettingsProofs` | theorems of `Settings`, and of `Discovery` |
| `Lines` | the line editor below `Directory`: header keys, headings, stage comments, item lines, and the splices that keep line numbers up to date |
| `Calendar` | pure operators: dates, day numbers, ISO weeks |
| `Schedule` | SCHEDULE expressions over `Calendar`; `Next()` with its month loop one month a step; one item, one runner that misses days, a person who reschedules |
| `Archive` | runs of `--archive`, file by file, with interruptions and edits between them |
| `Migrate` | both halves of `--migrate`, file by file, with interruptions and edits by hand, and with a board beside old files |
| `Fix` | two branches, their merge, `--fix`, and its crash on a version-2 directory |
| `Views` | periods, the report and the series, over items that are begun, closed and archived |
| `Cli` | one command line: words, directory, dispatch, exit code |
| `Forms` | people's open forms of one item over the store's `Edit`, with everyone else who changes it |
| `Broker` | one project's streams, poller, bounded channels, drops, shutdown, and what each tab shows and does not listen to |
| `Registry` | the cache of the walk, the open Stores, and requests that read and fill both |
| `Settings` | two layers of configuration, the requests that rewrite them, the reload, and the loop of the tickler service |
| `Discovery` | the walk of the roots with its bounds |
| `Themes` | theme files, resolution token by token, and the requests that rewrite them |
| `RequestsProofs` | theorems of `Themes`, `Registry` and `Forms`, with the constants that `MCRequests` gives them |
| `ToolsProofs` | theorems of `Fix` and `Migrate`, with the constants that `MCTools` gives them |
| `Lists` | one list of projects under writers without a lock |
| `MC*` | constants for TLC, and the runs that put several modules side by side. Those of `Registry` and `Forms` are constants of `MCRequests`, and those of `Fix` and `Migrate` of `MCTools`, whose configurations give them values |

`Board` EXTENDS `Directory`; `StoreTx` EXTENDS `Directory` and instantiates `FileTx` and
`AtomicTx`; `Schedule` and `Views` use `Calendar`. The rest meet at what one leaves to
another: `Cli`'s store answers with any error, `Board` takes a schedule to be a set of days,
`Settings` takes a pass of the tickler to be something that ends, `Registry` takes the walk to
return what the roots reach.

### Correspondence with the code

*Directory.* An item line is a record of the fields some rule reads: title, `reason`, `started`,
`created`, `tickler`, `tickler_dest`, `tickler_paused`, `tickled`, `detail` (presence, or a day, or
a schedule). The board is an item per id and an id sequence per stage. That is all of the file's
order there is: `tx.stage` re-lays board.md into stage blocks (`regroupBoard`) on every write, so
after a write file order *is* the declared stages' sequences one after the other, which is
`FileOrder`. `validate` covers I1 (an id twice), I2 (an id not below `next_id`), I5 (a stage that
needs a reason), I7 (a started date on `working`, the tickler fields' places, the date a schedule
counts from), I8 and I9 (detail files). A violation is named by what `violationKey` can tell apart
(the line numbers are masked there), because commit compares violations by that key. A result
carries the new directory, the files in *the order the code stages them*, deletions, and violations
the code puts into its own baseline (`DetachDetail` and `Remove` accept the orphan they make).
`Commits` is `tx.commit`'s comparison of `reparse()` with the baseline, and every action goes
through it.

*Board.* One action per operation, inputs existentially quantified; `today` is what every
operation is passed. `BeginTick`/`FireNext`/`EndTick` are `tickLoopV2`: each turn begins a
new transaction on what is on disk *then*, but with the date the run was started with, and
its ledger `done` grows by one item whether the fire succeeds or not. `removed`,
`fires` and `pausedOn` are history variables that no action reads.

*FileTx.* One action per access to the file system. `Begin`/`Lock` are the call and
`s.mu.Lock()`; `List`, `Stat`, `Read`, `Skip` are `load()`: board.md, done.md, audit.md, then
the listing of details/ and each file in it, a stat *before* each read; a file the listing
did not show has no stamp and counts as missing (`stampFor`). `Prepare`/`Refuse` are the
operation and the validation in memory. `CheckOne`/`Conflict`/`CheckedAll` are
`checkUnchanged`, one stat per file to be written and none for those to be deleted, as in
the code. `Write` is `writeFileAtomic` (temporary file, fsync, rename), `Delete` is
`os.Remove`, `Fail` an I/O error that abandons the rest, `Crash` the death of a process at
any point with all of its callers and its mutex. A stamp is the version of the file, or
zero when it is missing (`stamp.equal` compares nothing else of a missing file), so a file
removed and made again has another stamp, and one removed twice the same.

*StoreTx.* The contents of `FileTx`'s files are the parts of `Directory`'s value. `Plan` is
`tx.stage` (a file that does not change is not written) and the tail of `tx.commit`
(audit.md last, and only when something else is written). audit.md's content is the number
of transactions logged in it.

*Lines.* A file is a sequence of lines of eight kinds; a parsed file adds the numbers of its
header's end, headings and items, as the structs of `parsefile.go` have them. Each of the
splices (`SetFM`, `InsertLine`, `DeleteLine`, `ReplaceLine`, `newMonth`, `regroupBoard`) is translated
with what it does to the numbers, off-by-ones included. `Commit` writes what the re-parse
accepts.

*Schedule.* `Due` and `Next` are translated as written, with Sakamoto's weekday table and
the proleptic calendar. The search loop over months is `TryNextMonth`/`FindInMonth`. The
properties are stated over a reference calendar of their own (`DayNumber`, `Matches`,
`Owed`), counted from a known Monday, that shares no arithmetic with `Next`. That `Due` is a
comparison with the days of a set, as in `Board`, is what `NextIsLeast` and `RunSettles`
show.

*Archive.* A run's plan is computed at once (`Plan`: which lines leave, which take their
detail file along, what the year's archive already holds) and then applied change by change
in the order the code stages it: copies of detail files, archives, done.md, deletions.
`Interrupt` ends it between two changes. `done.md` may hold an id twice and share one with the
board, as after a merge.

*Migrate.* `RunRepair` and `RunVersion` plan, `Apply` makes one change of the plan, `Abandon` is a
conflict, an I/O error or a crash, and `Person` edits by hand in between. The version step
takes its stamps when it commits and the repair none of working.md, so `Unchanged` is as weak
as in the code. Every other mutating operation of the library but `Fix` refuses a version-1
directory (`refuseIfV1`). `--migrate` runs the repair on any directory, and the settings page runs the
version step alone. So a repair may meet a board beside old files, where `load()` does not read them:
`Free` then answers the lowest number, whatever file has it.

*Fix.* `Add` and `Advance` run on two branches, `Merge` unites their lines, picks one of two
files of one name and may lose one, and `Repair`, `Refuse` or `Crash` is `Fix`. The repair is of version 1:
it reads backlog.md, and crashes where there is none (`op_fix.go:88`). This build's
operations refuse a version-1 directory, so `Add` and `Advance` are those of an older build (the code is
here still: `addV1`, `startV1`, `finishV1`), of the Python implementation, or of a hand. `--migrate`
refuses a directory with an id twice, so `--fix` is the one command for such a merge. `Refuse` is a copy
that cannot be chosen, or something else that is wrong (`Blocked`: a claim on a file that is not
there), after which a person edits or restores (`EditCreated`, `Restore`).

*Views.* `PeriodContains`, `isoWeekStart`, `buildBuckets`, `seriesRange`, `groupItems` and
`archiveWarning` are operators over the items' dates. The calendar of the window is a table,
as it is Go's `time` package in the code; `ViewsAssumption` compares it with `Calendar`. An
item is created, begun, closed and archived by actions that take the day's date.

*Cli.* `Type` adds a word, `Run` is `Parse`, `resolveDir`, the dispatch with the guards each
command has of its own, and `exitCode`. A world is what `--dir`, `MM_DIR` and the directories
above and below offer. `Changes` says what of the board an answer may leave changed: an error of the
file system may come half way, and so may any error of a `--tick`, whose fires are a transaction each.

*Forms.* `Revision` is what the hash covers: the item's line and its detail file, and not its
stage, which is a heading's. A save is two steps: `editItem` reads and composes,
`Edit` is the transaction that compares the revision again; between them the tickler
(`Wake`), a move, a removal or a command line may come. `Typed` is what a browser can submit:
the Wake-up group sends a destination only with a schedule. A client that sends no revision is given
that of the moment of the save (`expected`); its save then overwrites, so the property is about those
that send it, as the program's own form always does.

*Broker.* A critical section of `b.mu` is an action. `Subscribe` registers and starts a poller
if it finds none; `publish` fills bounded channels and drops whom it cannot reach; `unsubscribe`
runs when a handler ends; `Stop` is a poller that finds its context done; `CancelRoot` and
`Waited` are `close()`. A tab shows versions of the files. It fetches on an event: its board on
"board", all of the page on a theme's event. It fetches its regions, and not the theme, when it has lost
its stream. A tab that is moving an item, or has just made a change (`deaf`), cancels what would refresh
its board (`mm.js:61`), in `Receive` and in `PollWhileDown` alike.

*Registry.* Each section under `r.mu` is an action of the request that is in it, and the
walk and `mm.Open` are steps without the lock. The generation of the roots is compared
before a walk's result is kept.

*Settings.* A document gives each key absent, null, a value or something of the wrong
type; `MergeConfig` is the layering with the system-only keys left out of a project's. A request
reads, writes (`Save`), reloads and applies in four steps. `Lock` takes `applyMu`; `apply`
closes the old loop's channel, waits for it and starts the next. The loop's pass is a state
that it leaves when the pass ends.

*Discovery.* The stack holds the calls of `walk()`; each step handles one entry. Every place where
the walk is cut (results, depth, deadline, an unreadable directory, a directory
seen before) is a guard of its own.

*Themes.* A theme file is missing, broken, or a document that gives tokens a colour, none, or
something that is no colour. `ResolveTheme` goes through the candidates in the code's order and
merges what it finds over the default of its base. The editor, import and export read in one
step and write in another. An import by the API is refused an id that is no valid one; the form's import
does not ask (`web/theme.go:241`).

*Lists.* `touch`, `toggle` and `reorder` read and change (`UpdateProjectList`) and then `Save`, but for a
`reorder` of a project that is not in the list, which writes nothing (`Refuse`); a
`put` writes what it was sent (`WriteProjectList`). The first three sort, renumber
and cut the list as the code's load and save do.

### Abstractions

- Text, formatting and layout are left out of all modules but `Lines`: an operation changes the
  fields it names and no others, and a detail file is a title and a set of notes. What
  `Lines` shows is that the splices do that.
- `Board`'s `Update` and `Edit` take one field per request. The code takes several at once
  and applies them in a fixed order; a whole form is saved in `Forms`, with its revision.
- Every change to a file gives it a stamp it never had before. The code's stamp is size
  and modification time in nanoseconds: two changes of equal size within the file
  system's clock granularity would be one stamp (see `stampOfBug` for what would follow).
- A hash (an item's revision, a directory's fingerprint) is what it hashes: two states that
  differ there differ in it.
- A rename is atomic and durable. Loss of power that undoes a synced rename is left out.
- `begin`'s refusal on git conflict markers is left out: no operation writes one.
- `Archive`, `Migrate` and `Fix` plan in one step: what other processes do between a load and a
  commit is `FileTx`'s subject. `Migrate` has it still for its hand edits, because its stamps are
  weaker.
- A month is a number and a year two of them in `Archive`; a colour is a number in `Themes`.
- Years are 1 or later. `TryNextMonth` wraps around after 400 years, the calendar's
  period, so that a search without end is a cycle.

### Operators named `...Bug`

The modules hold, before some definitions, a variant with a plausible mistake
(`RemoveItemBug`: the newest item gives its id back; `FailBug`: an error path that does not
unlock). No specification uses them. Each stands for one seeded fault: with it in place of the
definition it precedes, TLC finds the property it is paired with in `PROJECT.json` violated.
That is the evidence that the property can fail at all within the run's bounds.

## What the runs check

Each run finishes within four minutes with two workers. The stopping of all callers is
legal (bounds are reached, nobody needs to call), so deadlock checking is off; what must go on
is stated as a liveness property instead. A run that puts several modules side by side
(`tools`, `requests`, `configuration`, the three parts of `board`) is a sum and not a product:
a behaviour is one of one of them, chosen in the initial state, and the variables of the others
rest. Nothing is lost by that, because they share no state. A property of such a run is a
conjunction of named properties of one question.

| run | bounds | properties |
|---|---|---|
| `board` | *ranked*: stages ready, working, waiting (needs a reason); ids 1 to 3; batches of three; caps 0 or 1 on two stages. *detailed*: two items, two titles, one note, set/clear of title, reason, started and detail fields, both bodies, one detail file at a time. *tickler*: one or two items on waiting (daily, and a paused one-shot on day 2), which wake to ready, and what they spawn, so that a daily item fires on two of the days; two runners, three days, a cap on ready, pause and resume | `ItemsAccounted`, `ChecksClean`, `IdsRetired`, `OneItemMoves`, `CapsHeld`, `NotesKept`, `FiresAdvance`, `EarnedFires`, `RunsEnd` |
| `file_tx` | two Stores, one with two callers; three files, one of them in details/; five request shapes; two operations; crashes, I/O errors | `TypeOK`, `OneAtATime`, `StampsTell`, `NoBlindWrite`, `CallsReturn` |
| `store_tx` | two items, one with a detail file; every staging order the operations have; a writer that crashes, a reader; two operations | `TransactionsAtomic`, `ItemsKept`, `TornIsLoud`, `LoadMissesNothing`, `DuplicateHeals` |
| `broker` | *opening*: one tab on a project that may not open, with a change of the data (two events) and one of the theme; *failing*: the same with a read that fails instead of the theme; *slow*: two tabs, one poller, channels of one with two changes; *late*: the same with two pollers, and a tab that comes when the other's channel was closed | `BrokerSound`, `ChangesArrive`, `CloseReturns` |
| `configuration` | two requests of ten kinds over one configuration, three loops; 21 trees of five directories with links, cycles and unreadable ones, under 36 settings of the bounds | `SavesApply`, `ScanIsComplete`, `FormKeepsTheRest`, `ServiceSettles` |
| `requests` | two requests at a time: on a registry of two projects whose roots are replaced once, on theme files with one edit beside them, on lists of two entries out of three projects; two people with forms of one item, which has a body or a schedule or neither, and two writes; a form without a revision where it has been overtaken and nothing was typed in it, which keeps the states few (`Silent`); a theme whose id is not a valid one (people, and requests, are interchangeable) | `NoFalseNotFound`, `ThemeResolves`, `EditorSaves`, `EditKeepsTheRest`, `OldEntriesSurvive` |
| `tools` | eleven schedules of all shapes over 35 days from each of three births; two items about two turns of a year (two days each from 2 January 2021 and 31 December 2024); lines of three words in ten places; two closed items over three months and two years; 78 mixtures of old layouts, with one edit by hand; two branches of two items, in either version; ten files of up to four items' lines with two edits | `LeastIsNext`, `RunSettles`, `SeriesAddUp`, `MissingIsSaid`, `WritesAreMeant`, `RunsHeal`, `NothingDropped`, `FixRepairs`, `RestStays` |
| `pause_cap`, `finish_paused`, `stale_delete`, `ordinal_search`, `migrate_hole` | as the run each belongs to | one documented promise each, which the code does not keep |

What they show, beyond that the properties hold:

- **`board`, ranked.** Three items are the least that tell a ranking from its reversal with one
  item moved, and a batch at the top from its reversal. `OneItemMoves` is the ranking
  property: with the one item an operation is about left out, every stage keeps its order.
  `ItemsAccounted` says that every id handed out names exactly one item in one file unless
  `--remove` was called on it. The id bound is at once the grammar's end (`allocNextV2`
  refuses the last id), so the counter runs into its limit within the run.
- **`board`, detailed.** `ChecksClean`: no sequence of operations reaches a directory `--check`
  rejects, but for detail files the operation was asked to orphan. It rests on
  `Commits` (its seeded fault is the loss of that check), and the interesting part is
  that commit *compares with a baseline* rather than demanding a clean directory.
- **`board`, tickler.** The second runner starts a day after the first and may go on with its
  date when the day has turned; both may be overtaken by pauses and resumes. `EarnedFires`
  is the exact condition: each fire answers a scheduled day that has come, that no fire
  has answered, and on which it was not paused. For a recurring item's first fire the day is
  one after its creation; a run with an old date may fire a one-shot dated before it. The part's
  next-state relation (`TicklerNext`) leaves out the operations that touch no schedule.
- **`file_tx`.** `NoBlindWrite` is what the stamps buy: a write replaces what its
  transaction read or something written after its own check began. The window between
  check and rename is real, and the property says that it is the only one. Two operations
  are enough: each property relates one transaction to what one other does to a file, or
  one caller to another that waits on its mutex.
- **`store_tx`.** `TransactionsAtomic` is refinement of `AtomicTx`: under the mapping `Committed`
  (the directory as it was read, until the last file change is made) each transaction is one step,
  and an interruption leaves a prefix. The other properties say what a prefix can look like with the
  *actual* staging orders: no item is off the disk (`ItemsKept`), a torn state is either the old
  shape, the new shape or reported as something about the item that was written, and the log is
  never ahead (`TornIsLoud`), an interrupted finish can be repaired by `--remove --force`
  (`DuplicateHeals`), and a reader that overlaps a finish never misses an item (`LoadMissesNothing`:
  board.md is read first and written last).
- **`broker`.** A second poller is reachable: a dropped tab leaves the poller's handle behind,
  and the next `Subscribe` overwrites it. `BrokerSound` says that whoever is registered is
  polled all the same, unless the project did not open; that nothing is sent on a closed
  channel; and that nothing starts once `close()` waits. `ChangesArrive` is what a person
  cares about: a tab that stays comes to show what its poller sees of the data, whatever channel was full and
  whichever read failed, unless the tab did not listen. What it does not listen to is announced by nobody
  again and stays missing until the next change: the page script drops a refresh during a move or
  within 1.5 s of the tab's own change, and the property can say no more. It holds because a drop makes
  the tab fetch; its fault is an
  `unsubscribe` that stops the poller of the others. Two tabs are the least for that. To keep the run
  short, a tab that may stop listening is the only one (*opening*, *failing*) or one of two (*slow*), and
  in *late* none does; the theorem `NoEventIsLost` has no such bound.
- **`configuration`.** `SavesApply` is about saves that do not overlap (an older reload may
  install itself last, see below): the merged configuration is that of the files, and the one loop
  runs with its interval; no project's file decides about the service. `ServiceSettles`:
  `apply` waits for the pass in progress while it holds `applyMu`, and the waiting ends.
  `ScanIsComplete` compares the walk with the reachable boards computed as distances from the
  roots.
- **`requests`.** `EditKeepsTheRest` is the lost update of the form: whatever the others do between
  open, submit and commit, the item after a save is the item before it with the changes that the
  person made, when the form's revision is sent with it. `NoFalseNotFound` is stated with a history
  variable: the project was there, and within the roots in force, from the moment the request came
  in. `OldEntriesSurvive` bounds the loss of unlocked lists: the entries that were on disk before
  both writers are there after.
- **`tools`.** `LeastIsNext` (with the reference calendar) and `RunSettles` settle `Next` and
  `Due` for every shape that ends. `SeriesAddUp` sums the buckets against the report.
  `NothingDropped` and `RunsHeal` hold at every interruption: what an interrupted run
  has done, the next completes. `NothingDropped` makes one exception, the notes of a working file that a
  repair beside a board writes over (`Overwritten`); without it, it is `NoHole`, which is violated.
  `FixRepairs` is about version 1 where a repair goes through; it has that one that is refused, and one of
  version 2, which crashes, has written nothing. `NumbersHold` (in `RestStays`) says that the line numbers a
  transaction keeps are those of its lines after every splice, but for one kind of heading (see
  below).

### Fairness

- `Board`: weak fairness of each run's `FireNext \/ EndTick`: a run that has begun is a loop
  in a live process. Nothing makes anyone call an operation.
- `FileTx`: weak fairness of a caller's next access to the file system, strong fairness of
  taking the mutex. Go's `sync.Mutex` hands over to a waiter that has waited for a
  millisecond, so a waiter is not starved. Nothing makes a process crash or a write fail.
- `Broker`: weak fairness of each handler (a goroutine that reads its channel), of each poller
  (a ticker), of `close()`'s own steps; strong fairness of a poller's stop, because a `select`
  with a tick and a done context ready at once takes either, and not the tick for ever. Nothing
  makes a tab stay, or the service shut down.
- `Settings`: weak fairness of a request's next step and strong fairness of its lock, as above;
  a pass ends (weak fairness), which the `ordinal_search` run shows to be an assumption about the
  schedules in the data; strong fairness of the loop's end, again a `select`.

## What is proved

The theorems hold for every value of the constants within the assumptions: any number of
stages, ids, items, callers, runs, tabs and requests, where TLC has two or three of each. They
are invariants, action properties and one refinement; what they need of the operations is
stated once, as a lemma for each operation. Every inductive invariant was an invariant of a run
before it was proved (of `WalkInv`, which is about all levels and some set of directories, what it says of
the levels by distance).

| module | theorem | says |
|---|---|---|
| `BoardProofs` | `BoardTypes` | `Spec => []TypeOK` |
| | `BoardIsClean` | `Spec => []ChecksClean` |
| | `RetiredForGood` | `Spec => IdsRetired` |
| | `EveryIdAccounted` | `Spec => []ItemsAccounted` |
| | `CapsAreHeld` | `Spec => CapsHeld` |
| | `RankingIsKept` | `Spec => OneItemMoves`: all items but one stay on their stages, in their order |
| | `NotesAreKept` | `Spec => NotesKept` |
| | `OnceADay` | `Untimed`, then `Spec => []FiresAdvance` |
| | `FiresAreOwed` | `Untimed`, then `Spec => EarnedFires` |
| `FileTxProofs` | `TypesHold` | `Spec => []TypeOK` |
| | `Exclusion` | `Spec => []OneAtATime`: one caller of a Store is in a transaction, and it is the holder of the mutex, through errors and crashes |
| | `StampsAreSound` | `Spec => []StampsTell`: a file that still has the stamp load() took has the contents load() read |
| | `WritesAreChecked` | `Spec => NoBlindWrite` |
| | `Invariant` | `Spec => []` of the inductive invariant |
| `StoreTxProofs` | `StoreInvariant` | `Spec => []Kept`, the inductive invariant |
| | `StoreIsAtomic` | `Spec => TransactionsAtomic`: the protocol with the operations in it implements `AtomicTx` |
| | `NoItemIsLost` | `Spec => ItemsKept` |
| | `LoadsMissNothing` | `Spec => []LoadMissesNothing` |
| | `DuplicatesHeal` | `Spec => []DuplicateHeals` |
| | `LogComesLast` | `Spec => []AuditNeverAhead` (a part of `TornIsLoud`) |
| | `TornTransactionsAreLoud` | `Spec => []TornIsLoud`: half of a transaction is as before, as after, or reported |
| `BrokerProofs` | `BrokerTypes` | `Spec => []TypeOK` |
| | `BrokerIsSound` | `Spec => []BrokerSound` |
| | `OpenProjectsArePolled` | where projects open, a registered stream has a poller that nobody has cancelled |
| | `NoEventIsLost` | `Spec => NoEventLost`: no step takes a change from a registered tab that has not shown it yet, but the tab's own when it cancels the refresh (`Swallows`) |
| `SettingsProofs` | `SavesDoApply` | `Spec => []SavesApply` |
| | `FormsKeepTheRest` | `Spec => FormKeepsTheRest` |
| | `ScansAreComplete` | `ConfigurationSpec => []ScanIsComplete`: a scan that is not partial has found all there is to find |
| `RequestsProofs` | `ThemesResolve` | `Spec => []ThemeResolves` |
| | `EditorIsShown` | `Spec => EditorSaves`: what the editor saves is what is shown next, with what it does not know kept |
| | `RegistryInvariant` | `Registry!Spec => []RegistryInv`, the inductive invariant |
| | `NobodyIsDenied` | `Registry!Spec => []NoFalseNotFound` |
| | `FormsInvariant` | `Forms!Spec => []FormsInv`, the inductive invariant |
| | `SavesKeepTheRest` | `Forms!Spec => EditKeepsTheRest`: of a save that sends its form's revision |
| | `SideBySide` | both properties of the specification that the run `requests` checks |
| `ToolsProofs` | `RepairsInvariant` | `Fix!Spec => []FixInvariant`, the inductive invariant |
| | `MergesAreRepaired` | `ToolsSpec => []FixRepairs`: what `--fix` leaves of version 1 checks clean and has every item and text; where it refuses or crashes it has written nothing |
| | `MigrateIsSafe` | `Migrate!Spec => []MigrateInvariant`, the inductive invariant |
| | `MigrationsKeepAll` | `ToolsSpec => []NothingDropped`: wherever a run is interrupted no item is lost, and no note but those of a working file that a repair beside a board writes over |

### The arguments

*Directory.* Each operation is a function from a directory to a set of results. `DirectoryProofs`
says what all of its results have in common, in a handful of relations between two
directories: a change of one item where it is (`InPlace`: update, edit, notes, detail files), an
item taken from one stage to another (`Moved`: start, pause, move, finish, with what it does to
the lengths of stages in `KeepsCaps`), items under new ids (`Added`, `Grown`: add, batches), and
a fire (`Fired`). Underneath are the facts about `RemoveItem` and `InsertItem`: an item is in the
run of one stage, once, and no other item changes places. A batch has any number of lines. Its
lemma (`BatchSound`) is an induction over the batch, which is stated of a *set* of numbers
(`Induction`), because the library's induction theorems take an operator.

*Board.* `Sound` is the inductive invariant for the first four: types, and a checker that has
nothing to say but orphans. Neither is inductive alone: an add keeps the types because no item has
an id that is not below `next_id`, which is the checker's I2, and the checker is content after a
move because each item is on one stage, which is a type. `Retired` adds that an id that names
nothing was removed. `Timely` relates the history of an item's fires to its line: it is stamped no
earlier than its last fire, and, when its schedule is not paused, than every day on which it was.
This is what makes a run with yesterday's date harmless: the stamp it meets is newer. `CapsHeld`,
`NotesKept` and `OneItemMoves` follow from the relations, action by action. The ranking is stated
pair by pair: of any two items that stay, one line comes before the other in the file as it did
(`Precedes`), which is what the lemmas about `RemoveItem` and `InsertItem` say of the runs; a batch
moves none at all.

*FileTx.* The invariant adds to the properties `Clocked` (no version, stamp or check is later than
the clock, so a version given out is never given out again), `Unread` (a file load() has not
come to has no stamp, so a stamp belongs to a read) and `Vetted` (during the check each file of
the plan either has been found unchanged, or changed since the check began, or is still to be
looked at). Stat before read is what `StampsTell` needs: between the two, a change moves the
stamp on. `Vetted` becomes the claim about the files still to be written when the check has gone
through all of them.

*StoreTx.* From the lemmas about operations comes what a *plan* is (`PlanProper`): its target
is a directory in which each item has its home still, and its changes are in an order in which
done.md precedes board.md, audit.md follows both and deletions are last. `Kept` says of the
Store that writes: until its first change, what it has read is what the files hold; from there
on, the files are what it read with the first n changes of its plan made (`After`). The
refinement mapping shows the directory as it was read until the last change is made. So the
steps of a transaction are stutters, the last one is `AtomicTx`'s whole transaction, and an error or
a crash is its prefix. `NoItemIsLost` compares the directory after n changes with the one after n + 1
(`Between`), with no state of the protocol in it. `LoadsMissNothing` needs one invariant more
(`AllSeen`): an item whose id the reader's board.md covers, which the reader has not seen on it,
is in done.md or was never there, and it cannot come back to the board.

*Half of a transaction.* From `Kept`, a directory in the middle of its writes is `Torn`: each of its
files is as it was read or as it is planned, and where one has changed, those that are staged before
it are as planned. So all but one item are as before, and for the files of that one the order
comes to this, operation by operation: its half is of the old shape, of the new shape, or a
duplicate (I1), a claim without a file (I8), or a file without a claim or with another title (I9).
The last needs that nobody else claims that file, which is what `Commits` leaves: the one who
plans has compared with what it read. `TornIsLoud` names the item because that is more than
the run could tell: a directory that holds an orphan in the place of the next id has a report
before an `--add` already, and half of that add reports nothing that is new.

*Broker.* A tab without a handler is not registered and has an open channel (`Streams`); pollers
are born in the order of their numbers (`Births`), so the one that the first subscriber starts has
been cancelled by nobody; the handle kept is of the poller of those who are registered
(`Handled`), because whoever cancels it leaves nobody registered. An event is only taken out of a channel by
its tab, which then shows the data as they are or is deaf; a channel that has no room for "board" ends
with its tab's registration.

*Settings.* Who is inside `apply` holds the lock (`Held`), so the loop and the interval are one
request's at a time, and at each of its steps they are what it left at the step before
(`Changing`). A save that no other overlaps carries what it has read from step to step (`Underway`).

*Discovery.* The calls of `walk()` that are open are at different directories (`Chain`): a cycle through
links is cut where it closes, and without links each call is further down than the one before. So
there are no more of them than directories, and no call is deeper than the bound. What is found is within
the bounds because each call is on its level, for any levels that the roots and the entries lead to
(`Sound`); the levels by distance are such (`WithinLevels`). What is within the bounds is found because of a set
of directories with depths (`Covers`), which has what was opened so far: each entry of those has been
dealt with, or is ahead of a call that is open. Where the walk cuts a cycle, the directory is in that set
with a smaller depth, so nothing within the bound is lost by it. When no call is open,
whatever is at a distance from the roots has been opened, no deeper (`AllOpened`).

*Themes.* That a theme resolves is true of any files at all: the first candidate that hits is a
theme or a built-in, and either is laid over the default token by token (`Overlaid`). What
the invariant adds is about a request of the editor that has still to write (`Composed`): what it
carries has no fault and says what its form said, whatever happened to the files since. After
the write the system's file is the first candidate (`SystemFirst`), so that is what is shown.

*Registry.* A request is sure of its project while that is known, or there to be found.
`TheWalkFindsIt` is what the second means at every step: nothing has been kept yet, the project
is below the roots in force, and each walk of these roots that has ended without being kept has found it, or
the command line names it. So the result that is kept first makes it known, and a
request comes behind its walk when there is one (`KnownInTheEnd`). A walk of replaced roots may have missed
it; that is why its generation is compared.

*Forms.* A form shows the item of its revision, in every control (`FormsShow`), and unless the item
changed its stage under the form, on the stage that it shows; the save that is under way has
the revision of the form (`SavesOfForms`). An item of the same revision differs from the one
that was shown at most in its stage (`SameRevision`), so what the controls say is what it was. What remains is
field by field what the edit does with controls that were left alone.

*Fix.* On a branch an item is what its title says, and its file, when it has one, carries that
title (`Branched`). So after a merge an id is on two items at most, one of each branch, and a file of
both names carries the title of one that claims it (`Together`). Of two items with one id the one that
is further along, or the older one in the same home, beats the other, or the repair is refused: there is
one winner (`Pair`). A repair that goes through has found no claim without its file, so each file of
the merge is one that an item claims. The new ids are above every id there is and one each
(`NewIds`, `NewNameIsFree`), so a file is renamed to a name that nothing has and no two are to one.
What comes out is `Repaired`: an id is on one item, every claim has its file and every file its
claim, and the items and the texts are those of the merge. Nothing is left to rename in
that, so a second run is the identity (`FixedAgain`).

*Migrate.* What was read is held where it was, or where the changes made so far have taken it. While
the repair runs (`Repairing`), each working file is as it was read or has more in it, backlog.md
lists each id it listed, and an item of working.md is there, or is in the new working file and only
the deletion is left. Beside a board the new file may have been another item's: that item is on the
board, or is the one of working.md (`Boarded`), and its notes are what `Overwritten` leaves out.
While the version step runs (`Versioning`), each detail file of a body to be folded is written or is
to be written, and while one is to be written none of the old files has been deleted; from the first
write on the board is that of what was read, which has a card of each item listed or in a working
file (`BoardIs`). The deletions need no more than that. What the plans are is a lemma of each
(`RepairPlanIs`, `VersionPlanIs`); that two folds do not meet in one detail file is the check for an
id twice on the board. A person adds lines and notes and takes none away (`PersonAdds`), so that
nothing that was read depends on what they do.

### From which assumptions

- `DirectoryAssumption`: ready and working are stages, no stage is declared twice, the stages named
  in the configuration are declared, ids are the numbers up to some number (the id grammar), a
  schedule is a set of days. `NoneAssumption`: what stands for nothing is not an item, a file or a
  home.
- `BoardAssumption`: what is asked for is a request, an update, a cap. `StoreTxAssumption`: of two
  Stores one only reads (with two writers it is `NoBlindWrite` that holds, and no refinement),
  and at first each item of the board has one place and an id below `next_id`; the directory may
  be one that `--check` rejects otherwise.
- `FileTxAssumption`, `PlanAssumption`: the read order names each file once, a plan writes content and
  deletes to nothing and changes no file it does not name. TLC evaluates them in `MCFileTx`; that
  `StoreTx`'s plans are of this form is a part of `PlanProper`.
- `BrokerAssumption`: a channel has room for the events of one change, as it has in the code (8).
  `SettingsAssumption`: the kinds of requests and the types of the defaults. `ThemesAssumption`:
  what may be asked and what an editor may leave in a file; the ids of the built-ins, and of
  the theme that the editor writes, are ids.
- `RequestsAssumption` is of `RegistryAssumption` (roots reach projects; the command line and the lists name
  projects) and `FormsAssumption` (a source wakes to a stage; what stands for no value of a
  control, or for an empty body, is not one of its values; "med" is a priority).
- `Untimed`, the hypothesis of `OnceADay` and `FiresAreOwed`: no update sets `created:` or `tickled:` by
  hand, which `--set` lets a person do. Those are the days that a schedule counts from; with
  `tickled:` cleared, a fire of that day is owed again. The hypothesis is about the constant
  `Updates`, and the tickler part of `MCBoard` meets it.

- `FixAssumption`: the names of two branches, and bounds that are numbers. `MigrateAssumption`: working files
  have numbers, finitely many; a directory to be migrated has no board, its backlog.md, if there
  is one, is not empty, and a working.md holds an item; what stands for no file is not one.

- `ScanAssumption` (`DiscoveryAssumption`): there are finitely many directories, and without the links they
  form no cycle (`Layered`), which is why `walk()` looks for cycles only when it follows links
  (`discover.go:235`).

TLC evaluates the `ASSUME`s of each module on the run of that module.

### Only model-checked

- *Liveness*, being out of the proof system's reach: `CallsReturn`, `RunsEnd`, `ChangesArrive`,
  `CloseReturns`, `ServiceSettles`.
- The modules that no proof module is about: `Schedule`, `Archive`, `Views`, `Cli`, `Lines`,
  `Lists`. Several are recursive by nature
  (calendars, line sequences), which the provers do not take.

## Where the documents and the code disagree

Each has a run that exhibits it:

- **`ordinal_search`.** `second-`, `third-` and `fourth-` schedules parse, and the web form offers
  them, but `ordinalOccurrence` has cases for first and last only: `Next` searches for ever.
- **`pause_cap`.** `pauseV2` does not look at the destination's cap
  (`spec-file-format.md:426`: a mutation that would exceed a cap is refused).
- **`finish_paused`.** `finishV2` drops the schedule but not `tickler_paused`, so commit refuses to
  finish an item whose schedule is paused (`spec-tools.md:689`: from any stage).
- **`migrate_hole`.** Beside a board `load()` reads no working files, so that `freeSlotName` answers
  working.01.md whatever is in it (`op_migrate.go:185`). Where working.md is still there after a
  version step from the settings page that was interrupted behind board.md, and `--migrate` follows,
  the repair writes working.md over a working file whose notes have not been folded
  (`spec-tools.md:1386`: a duplicate, never a hole).
- **`stale_delete`.** Files to be deleted are not compared with their stamps
  (`spec-tools.md:1390`).

### Without a run

What the modules have as the code does it, and a property would have to forbid:

- *Broker.* After a drop two pollers may run for one project, and only one is ever cancelled before
  the shutdown (`broker.go:130`). The subscribers of a project that cannot be opened stay registered
  without a poller (`broker.go:158`): `BrokerSound` tells these from the others. A refresh that the
  tab cancels is not made up for when the move or the 1.5 s are over (`static/mm.js:61`), though
  `spec-gui.md` 2.3 wants a client to re-read after any change. A tab whose stream is down polls its
  regions and not the theme (`mm.js:1015`). The first baseline is read after the page was served
  (`broker.go:167`): the change in between is announced with the next one.
- *Registry.* Two first requests for a project open two Stores, and one directory has two mutexes
  (`registry.go:336`); the stamps still protect it. Between a replacement of the roots and
  the walk the listing is empty (`registry.go:137`).
- *Settings.* Of two overlapping saves the older reload may install itself last (`server.go:341`).
  A project's document may hold scan keys, which the API accepts and the merge ignores
  (`api/files.go:167`). An interval of zero is shown as on (`settings.go:367`).
- *Themes.* A field emptied in the editor takes the default (`web/theme.go:95`). Two imports of one
  id race, and one may take a built-in's id (`api/files.go:552`). The form's import takes an id that
  the API calls invalid (`web/theme.go:241`). An export ignores a file that
  shadows a built-in (`api/files.go:634`).
- *Lines.* `newMonth` records a heading one line above the next heading when the new month is put
  directly before one. `DeleteFM` of a key that the header holds twice leaves the first of
  the two. `regroupBoard` drops a malformed item line of board.md with any change of the board
  (`write.go:12`: "writes are SPLICES").
- *Archive.* Two items of done.md with one id are merged into the one the archive keeps
  (`op_archive.go:249`).
- *Migrate.* A repair interrupted after it wrote the new working file makes a second one when run
  again (`op_migrate.go:90`). `mm --migrate` takes any conflict of the version step for "already
  at the target version", a detail file in the way included, and reports success.
- *Fix.* On a version-2 directory `Fix` dereferences a backlog that is not there (`op_fix.go:88`): the
  action `Crash`. The module is of two copies of an id.
- *Forms.* A save without a revision overwrites whatever came between (`web/item.go:663`). The form
  of an item that has moved saves a destination for a schedule it composed for the stage it was on.
  A pause with a reason is two transactions.
- *Cli.* `--dir ""` falls through to the environment and the directories above. Modifiers that a
  command does not use are accepted without a word. A partial scan is not told from a
  complete one when a directory is resolved.
- *Views.* The warning that archives were left out looks at the months of done.md only: it is
  given where nothing was archived, and not where everything was.

Seen while reading: `Remove` of an item on the stage `working` succeeds, where
`spec-tools.md` wants it paused first; a dry `Tick` fires more than a real one when the
destination's cap is reached on the way; `--check` has no rule about caps; `startV2` on a
scheduled item reports an InvariantError; an interrupted `--finish` cannot be repeated
(`DuplicateHeals` shows the way out that there is).

## Not modelled

- Presentation: templates, rendering, sorting and filtering of lists, search, palette arithmetic
  (contrast, colour syntax). No state that these properties are about.
- Loading and validating a version-1 directory for a listing: it is read by `Migrate` alone before it
  changes.
- `--refresh-structure`: it adds stage comments and moves no item; its layout is `regroupBoard`'s.
- The contents of audit.md, and reading it back.
- Project files, templates of new directories, and the stored identity of a project.
- The Python front end and the editor plugin: other programs on the same files, which
  `FileTx` has as another process.

## Plan

Done: every module above, and the theorems of `Board`, `FileTx`, `StoreTx`, `Broker`,
`Settings`, `Discovery`, `Themes`, `Registry`, `Forms`, `Fix` and `Migrate`.

Left: for as long as the provers take no recursive definition over data, nothing of the other
modules that is not such a definition.
