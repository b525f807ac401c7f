------------------------------- MODULE Settings -------------------------------
(***************************************************************************)
(* The configuration and what follows from it in the running service: the  *)
(* merge of the layers, the settings form and the configuration API that   *)
(* rewrite config.json, the reload, and the loop of the tickler service    *)
(* that is stopped and started with the interval.                          *)
(*                                                                         *)
(* A document gives each key of the file a value.  Absent and Null are the *)
(* two ways of having none, Bad is anything of the wrong type; the other   *)
(* values are numbers, and stand for strings and lists where the key wants *)
(* one.  An interval of 0 is one that parses and is not positive ("0s").   *)
(***************************************************************************)
EXTENDS Integers, Sequences, FiniteSets

CONSTANTS
  Requests,   \* requests in flight
  Asks,       \* what they may ask: see Ask
  Default,    \* DefaultConfig()
  InitialSys, \* the configuration file at the start
  MaxCount,   \* the upper clamp of ui.recentCount
  MaxLoops    \* bound: loops started

Absent == -1
Null   == -2
Bad    == -3

\* ui.recentCount, ui.density, scan.roots, tickler.interval, and a key that no
\* version of this program knows.
Keys      == {"count", "density", "roots", "interval", "foreign"}
Typed     == Keys \ {"foreign"}
Documents == [Keys -> Int]
Empty     == [k \in Keys |-> Absent]

\* A form carries an interval (Null: the switch is off) and a count; a PUT a
\* whole document, for the system or for a project, maybe as a dry run.
Ask == [kind : {"form"}, interval : Int, count : Int]
         \cup [kind : {"put", "project"}, doc : Documents, dry : BOOLEAN]

ASSUME SettingsAssumption ==
  /\ Asks \subseteq Ask
  /\ Default \in [Typed -> Int] /\ Default["interval"] = Absent /\ Default["count"] \in Nat
  /\ InitialSys \in Documents
  /\ MaxCount \in Nat /\ MaxLoops \in Nat \ {0}
  /\ "no one" \notin Requests

VARIABLES
  sys, proj, \* the documents in the files
  opts,      \* s.opts.Config
  pc, ask,   \* the requests
  raw,       \* the document each has read
  shown,     \* the state of the tickler on the page that answers it
  raced,     \* two saves have overlapped
  holder,    \* who holds t.applyMu, with the interval it was given
  interval,  \* t.interval
  stop,      \* t.stop: the loop that it stops, 0 for nil
  loops,     \* every loop started: its interval, what it does, its channel
  down       \* the context of the service is done

vars    == <<sys, proj, opts, pc, ask, raw, shown, raced, holder, interval, stop, loops, down>>
files   == <<sys, proj>>
service == <<holder, interval, stop, loops>>
NoOne   == <<"no one", 0>>

-----------------------------------------------------------------------------
(* The merge.                                                              *)

systemOnlyKeys == {"count", "roots", "interval"}

\* The API keeps a list of its own.
apiSystemOnlyKeys == systemOnlyKeys \ {"roots"}

\* The values that a key takes over; a duration that does not parse is Bad.
Good(k, v) == v >= 0

applyConfig(cfg, doc, project) ==
  [k \in Typed |-> IF Good(k, doc[k]) /\ ~(project /\ k \in systemOnlyKeys) THEN doc[k] ELSE cfg[k]]

clampConfig(cfg) == [cfg EXCEPT !["count"] = IF @ > MaxCount THEN MaxCount ELSE @]

MergeConfig(system, project) ==
  clampConfig(applyConfig(applyConfig(Default, system, FALSE), project, TRUE))

\* s.ticklerInterval(): a duration, 0 when the key holds none.
ticklerInterval(cfg) == IF cfg["interval"] = Absent THEN 0 ELSE cfg["interval"]

Effective == ticklerInterval(MergeConfig(sys, Empty))

-----------------------------------------------------------------------------
Start(cfg) ==
  LET d == ticklerInterval(cfg)
  IN /\ interval = d
     /\ loops = IF d > 0 THEN <<[every |-> d, does |-> "waits", closed |-> FALSE]>> ELSE <<>>
     /\ stop = IF d > 0 THEN 1 ELSE 0

Init ==
  /\ sys = InitialSys /\ proj = Empty
  /\ opts = MergeConfig(InitialSys, Empty)
  /\ pc = [r \in Requests |-> "idle"]
  /\ ask \in [Requests -> Asks]
  /\ raw = [r \in Requests |-> Empty]
  /\ shown = [r \in Requests |-> "none"]
  /\ raced = FALSE
  /\ holder = NoOne
  /\ Start(MergeConfig(InitialSys, Empty))
  /\ down = FALSE

At(r, from) == pc[r] = from
Go(r, to)   == pc' = [pc EXCEPT ![r] = to]
Saving(r)   == pc[r] \notin {"idle", "done"}

-----------------------------------------------------------------------------
(* Requests.                                                               *)

Arrive(r) ==
  /\ At(r, "idle")
  /\ Go(r, ask[r].kind)
  /\ raced' = (raced \/ \E q \in Requests : Saving(q))
  /\ UNCHANGED <<files, opts, ask, raw, shown, service, down>>

\* The settings form: the file is read, and the form's keys are set in it.  An
\* enabled tickler whose interval does not parse refuses the form.
form(r) ==
  /\ At(r, "form")
  /\ LET f == ask[r]
     IN IF f.interval = Bad
        THEN Go(r, "done") /\ UNCHANGED raw
        ELSE /\ raw' = [raw EXCEPT ![r] = [sys EXCEPT !["interval"] = f.interval,
                                                      !["count"] = IF f.count = Absent THEN @ ELSE f.count]]
             /\ Go(r, "save")
  /\ UNCHANGED <<files, opts, ask, shown, raced, service, down>>

\* Bug: what is written back is what this program understands.
SaveBug(r) == sys' = [k \in Keys |-> IF k \in Typed THEN raw[r][k] ELSE Absent]

Save(r) == sys' = raw[r]

saveForm(r) ==
  /\ At(r, "save")
  /\ Save(r)
  /\ Go(r, "reload")
  /\ UNCHANGED <<proj, opts, ask, raw, shown, raced, service, down>>

\* PUT /config: a document of the client's replaces the file's.
putConfig(r) ==
  /\ At(r, "put")
  /\ sys' = IF ask[r].dry THEN sys ELSE ask[r].doc
  /\ Go(r, IF ask[r].dry THEN "done" ELSE "reload")
  /\ UNCHANGED <<proj, opts, ask, raw, shown, raced, service, down>>

configWarnings(doc) == {k \in apiSystemOnlyKeys : doc[k] # Absent}

\* PUT /projects/:id/config has no effect on the service.
putProjectConfig(r) ==
  /\ At(r, "project")
  /\ proj' = IF configWarnings(ask[r].doc) = {} /\ ~ask[r].dry THEN ask[r].doc ELSE proj
  /\ Go(r, "done")
  /\ UNCHANGED <<sys, opts, ask, raw, shown, raced, service, down>>

-----------------------------------------------------------------------------
(* The reload.                                                             *)

\* The file is read; what it merges to is a value of this goroutine until it
\* is installed.
SystemConfigReload(r) ==
  /\ At(r, "reload")
  /\ raw' = [raw EXCEPT ![r] = sys]
  /\ Go(r, "install")
  /\ UNCHANGED <<files, opts, ask, shown, raced, service, down>>

\* Bug: an interval takes a restart.
ReloadedBug(r) == [MergeConfig(raw[r], Empty) EXCEPT !["interval"] = opts["interval"]]

Reloaded(r) == MergeConfig(raw[r], Empty)

\* s.opts.Config is set under no lock; the registry gets its roots from it.
Install(r) ==
  /\ At(r, "install")
  /\ opts' = Reloaded(r)
  /\ Go(r, "apply")
  /\ UNCHANGED <<files, ask, raw, shown, raced, service, down>>

\* s.tickler.apply(s.ticklerInterval()): the argument is read before the lock.
applyTickler(r) ==
  /\ At(r, "apply")
  /\ raw' = [raw EXCEPT ![r]["interval"] = ticklerInterval(opts)]
  /\ Go(r, "lock")
  /\ UNCHANGED <<files, opts, ask, shown, raced, service, down>>

Lock(r) ==
  /\ At(r, "lock") /\ holder = NoOne
  /\ LET d == raw[r]["interval"]
     IN IF d = interval
        THEN Go(r, "status") /\ UNCHANGED holder
        ELSE Go(r, IF stop # 0 THEN "close" ELSE "start") /\ holder' = <<r, d>>
  /\ UNCHANGED <<files, opts, ask, raw, shown, raced, interval, stop, loops, down>>

\* Bug: the old loop is waited for, and not told.
CloseStopBug == loops' = loops

CloseStop == loops' = [loops EXCEPT ![stop].closed = TRUE]

Close(r) ==
  /\ At(r, "close")
  /\ CloseStop
  /\ stop' = 0
  /\ Go(r, "wait")
  /\ UNCHANGED <<files, opts, ask, raw, shown, raced, holder, interval, down>>

Alive == {n \in DOMAIN loops : loops[n].does # "ended"}

\* t.wg.Wait()
Gone == Alive = {}

Wait(r) ==
  /\ At(r, "wait") /\ Gone
  /\ Go(r, "start")
  /\ UNCHANGED <<files, opts, ask, raw, shown, raced, service, down>>

StartLoop(r) ==
  /\ At(r, "start")
  /\ LET d == holder[2]
     IN /\ interval' = d
        /\ IF d <= 0
           THEN UNCHANGED <<stop, loops>>
           ELSE /\ Len(loops) < MaxLoops
                /\ loops' = Append(loops, [every |-> d, does |-> "waits", closed |-> FALSE])
                /\ stop' = Len(loops) + 1
  /\ holder' = NoOne
  /\ Go(r, "status")
  /\ UNCHANGED <<files, opts, ask, raw, shown, raced, down>>

\* The form is answered with the settings page; an API request with the file.
buildSystemSettings(r) ==
  /\ At(r, "status")
  /\ shown' = [shown EXCEPT ![r] = CASE ask[r].kind # "form" -> "none"
                                     [] opts["interval"] = Absent -> "off"
                                     [] OTHER -> "on"]
  /\ Go(r, "done")
  /\ UNCHANGED <<files, opts, ask, raw, raced, service, down>>

-----------------------------------------------------------------------------
(* The loops.                                                              *)

\* One pass over the held boards: see Board.Tick.
Pass(n) ==
  /\ loops[n].does = "waits"
  /\ loops' = [loops EXCEPT ![n].does = "passes"]
  /\ UNCHANGED <<files, opts, pc, ask, raw, shown, raced, holder, interval, stop, down>>

PassEnds(n) ==
  /\ loops[n].does = "passes"
  /\ loops' = [loops EXCEPT ![n].does = "waits"]
  /\ UNCHANGED <<files, opts, pc, ask, raw, shown, raced, holder, interval, stop, down>>

Told(n) == loops[n].closed \/ down

LoopEnds(n) ==
  /\ loops[n].does = "waits" /\ Told(n)
  /\ loops' = [loops EXCEPT ![n].does = "ended"]
  /\ UNCHANGED <<files, opts, pc, ask, raw, shown, raced, holder, interval, stop, down>>

Shutdown ==
  /\ ~down
  /\ down' = TRUE
  /\ UNCHANGED <<files, opts, pc, ask, raw, shown, raced, service>>

Serve(r) ==
  \/ form(r) \/ saveForm(r) \/ putConfig(r) \/ putProjectConfig(r)
  \/ SystemConfigReload(r) \/ Install(r) \/ applyTickler(r)
  \/ Lock(r) \/ Close(r) \/ Wait(r) \/ StartLoop(r) \/ buildSystemSettings(r)

run(n) == Pass(n) \/ PassEnds(n) \/ LoopEnds(n)

Next ==
  \/ \E r \in Requests : Arrive(r) \/ Serve(r)
  \/ \E n \in DOMAIN loops : run(n)
  \/ Shutdown

\* A pass ends (Board.Tick is finite, see README), and the select of a loop
\* picks at random between a tick and its end: strong fairness.  sync.Mutex
\* starves no one.
Fairness ==
  /\ \A r \in Requests : WF_vars(Serve(r)) /\ SF_vars(Lock(r))
  /\ \A n \in 1..MaxLoops :
       /\ WF_vars(n \in DOMAIN loops /\ PassEnds(n))
       /\ SF_vars(n \in DOMAIN loops /\ LoopEnds(n))

Spec == Init /\ [][Next]_vars /\ Fairness

-----------------------------------------------------------------------------
Places == {"idle", "form", "save", "put", "project", "reload", "install", "apply", "lock",
           "close", "wait", "start", "status", "done"}
Loop   == [every : Nat \ {0}, does : {"waits", "passes", "ended"}, closed : BOOLEAN]

TypeOK ==
  /\ sys \in Documents /\ proj \in Documents /\ raw \in [Requests -> Documents]
  /\ opts \in [Typed -> Int] /\ opts["count"] \in 0..MaxCount /\ opts["interval"] \in Nat \cup {Absent}
  /\ pc \in [Requests -> Places] /\ ask \in [Requests -> Asks]
  /\ shown \in [Requests -> {"none", "on", "off"}]
  /\ raced \in BOOLEAN /\ down \in BOOLEAN
  /\ holder \in (Requests \X Nat) \cup {NoOne}
  /\ interval \in Nat
  /\ loops \in Seq(Loop) /\ Len(loops) <= MaxLoops /\ stop \in 0..Len(loops)

\* Two loops never run at once: a change of the interval waits for the pass in
\* progress, so that no board is ticked by two loops of one service.
OneLoop == Cardinality(Alive) <= 1

\* While no one is changing it, the loop that runs is the one of the interval
\* recorded, and with an interval of zero none does: no loop is leaked, and none
\* is lost unless the service is going down.
LoopMatches ==
  holder = NoOne =>
    IF interval > 0
    THEN stop # 0 /\ loops[stop].every = interval /\ ~loops[stop].closed
           /\ Alive \subseteq {stop} /\ (Alive = {} => down)
    ELSE Alive = {}

\* Saves that do not overlap take effect: once the last is answered, the merged
\* configuration and the interval are those of the file.
SavesTakeEffect ==
  ~raced /\ (\A r \in Requests : ~Saving(r)) =>
    opts = MergeConfig(sys, Empty) /\ interval = Effective

\* A project decides nothing that is the system's, whatever its file says.
ProjectKeepsToItself ==
  \A k \in systemOnlyKeys : MergeConfig(sys, proj)[k] = MergeConfig(sys, Empty)[k]

\* Saves that do not overlap take effect, on the merged configuration and on
\* the loop of the tickler, of which there is one and which no project decides.
SavesApply == TypeOK /\ SavesTakeEffect /\ LoopMatches /\ OneLoop /\ ProjectKeepsToItself

\* A form keeps the keys that it does not set, those it has never heard of
\* included.
FormKeepsTheRest ==
  [][\A r \in Requests : At(r, "save") /\ pc'[r] = "reload" /\ ~raced =>
       \A k \in Keys \ {"interval", "count"} : sys'[k] = sys[k]]_vars

\* Every save is answered: apply() waits for a pass under its lock, and passes
\* end.
SavesReturn == \A r \in Requests : Saving(r) ~> pc[r] = "done"

\* The loop stops with the service.
StopsWithService == down ~> [](Alive = {} \/ \E r \in Requests : Saving(r))

=============================================================================
