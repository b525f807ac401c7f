---------------------------- MODULE SettingsProofs ----------------------------
(***************************************************************************)
(* What the settings promise, for any number of requests, whatever they    *)
(* ask, and any number of loops: TLC checks two requests and three loops.  *)
(* And what a scan promises, for any directories, links, roots and bounds. *)
(*                                                                         *)
(* The argument for the settings.  Whoever is between the lock of apply()  *)
(* and its end is the holder (Held), so the interval, the handle and the   *)
(* loops belong to one request at a time, and what it finds there at each  *)
(* of its steps is what it left at the step before (Changing).  A save     *)
(* that no other overlaps carries what it has read from step to step       *)
(* (Underway): the file, then the configuration installed, then the        *)
(* interval applied.                                                       *)
(*                                                                         *)
(* The argument for the scan.  The calls of the walk are a chain of        *)
(* directories, all different (Chain), so it is bounded.  What has been    *)
(* opened, with its depth, is a set whose entries are each dealt with or   *)
(* still ahead (Covers); when nothing is ahead, by induction on the        *)
(* distance, it is all that is within the bounds (AllOpened).              *)
(***************************************************************************)
EXTENDS MCConfiguration, FiniteSetTheorems, TLAPS

Applying == {"close", "wait", "start"}

\* A request is at what it asked for.
Asking == \A r \in Requests : pc[r] \in {"form", "put", "project"} => ask[r].kind = pc[r]

\* The lock of apply() is held by the one request that is inside.
Held ==
  /\ \A r \in Requests : pc[r] \in Applying => holder # NoOne /\ holder[1] = r
  /\ holder # NoOne => pc[holder[1]] \in Applying
  /\ \A r \in Requests : pc[r] = "lock" => raw[r]["interval"] \in Nat

\* The loop recorded is the one that runs, and is told of nothing.
Recorded ==
  IF interval > 0
  THEN stop # 0 /\ loops[stop].every = interval /\ ~loops[stop].closed
         /\ Alive \subseteq {stop} /\ (Alive = {} => down)
  ELSE stop = 0 /\ Alive = {}

\* What the request that changes the loop finds at each step: the loop recorded,
\* then none but loops that have been told to end, then none at all.
Changing ==
  /\ holder = NoOne => Recorded
  /\ \A r \in Requests :
       /\ pc[r] = "close" => Recorded /\ stop # 0
       /\ pc[r] = "wait"  => stop = 0 /\ (\A n \in Alive : loops[n].closed) /\ (\A m, n \in Alive : m = n)
       /\ pc[r] = "start" => stop = 0 /\ Alive = {}

\* The configuration and the interval are those of the file.
Settled == opts = MergeConfig(sys, Empty) /\ interval = Effective

\* How far a save that none overlaps has brought what the file says.
Underway(r) ==
  /\ pc[r] \in {"form", "save", "put", "project", "status"} => Settled
  /\ pc[r] = "save" => \A k \in Keys \ {"interval", "count"} : raw[r][k] = sys[k]
  /\ pc[r] = "install" => raw[r] = sys
  /\ pc[r] \in {"apply", "lock"} \cup Applying => opts = MergeConfig(sys, Empty)
  /\ pc[r] = "lock" => raw[r]["interval"] = Effective
  /\ pc[r] \in Applying => holder[2] = Effective

Alone ==
  ~raced =>
    /\ \A q, r \in Requests : Saving(q) /\ Saving(r) => q = r
    /\ (\A r \in Requests : ~Saving(r)) => Settled
    /\ \A r \in Requests : Underway(r)

SettingsInv == TypeOK /\ Asking /\ Held /\ Changing /\ Alone

\* The steps of a request that leave the loops and the lock alone.
Quiet(r) ==
  \/ Arrive(r) \/ form(r) \/ saveForm(r) \/ putConfig(r) \/ putProjectConfig(r)
  \/ SystemConfigReload(r) \/ Install(r) \/ applyTickler(r) \/ buildSystemSettings(r)

\* The steps under the lock.
Locked(r) == Lock(r) \/ Close(r) \/ Wait(r) \/ StartLoop(r)

-----------------------------------------------------------------------------
(* Facts about the constants and the merge.                                *)

\* The next state is reached by a step of a request, of a loop, or the shutdown.
LEMMA NextSteps ==
  Next => \/ \E r \in Requests : Quiet(r) \/ Locked(r)
          \/ \E n \in DOMAIN loops : run(n)
          \/ Shutdown
BY DEF Next, Serve, Quiet, Locked

\* What a request may ask for, kind by kind.
LEMMA Asked ==
  ASSUME NEW a \in Asks
  PROVE  /\ a.kind \in {"form", "put", "project"}
         /\ a.kind = "form" => a.interval \in Int /\ a.count \in Int
         /\ a.kind # "form" => a.doc \in Documents /\ a.dry \in BOOLEAN
BY SettingsAssumption DEF Ask

\* A layer takes the types of what it is laid over.
LEMMA Layer ==
  ASSUME NEW cfg \in [Typed -> Int], NEW doc \in Documents, NEW project \in BOOLEAN,
         cfg["count"] \in Nat, cfg["interval"] \in Nat \cup {Absent}
  PROVE  /\ applyConfig(cfg, doc, project) \in [Typed -> Int]
         /\ applyConfig(cfg, doc, project)["count"] \in Nat
         /\ applyConfig(cfg, doc, project)["interval"] \in Nat \cup {Absent}
<1>1. \A k \in Typed : k \in Keys /\ doc[k] \in Int /\ cfg[k] \in Int
  BY DEF Documents, Typed
<1>2. "count" \in Typed /\ "interval" \in Typed
  BY DEF Typed, Keys
<1>3. \A k \in Typed : applyConfig(cfg, doc, project)[k] \in {doc[k], cfg[k]}
                       /\ (applyConfig(cfg, doc, project)[k] # cfg[k] => doc[k] >= 0)
  BY DEF applyConfig, Good
<1>4. applyConfig(cfg, doc, project) \in [Typed -> Int]
  BY <1>1 DEF applyConfig
<1> QED BY <1>1, <1>2, <1>3, <1>4

\* The merged configuration is one the program can run with.
LEMMA Merged ==
  ASSUME NEW system \in Documents, NEW project \in Documents
  PROVE  /\ MergeConfig(system, project) \in [Typed -> Int]
         /\ MergeConfig(system, project)["count"] \in 0..MaxCount
         /\ MergeConfig(system, project)["interval"] \in Nat \cup {Absent}
<1> DEFINE lower == applyConfig(Default, system, FALSE)
           upper == applyConfig(lower, project, TRUE)
<1>1. /\ lower \in [Typed -> Int] /\ lower["count"] \in Nat /\ lower["interval"] \in Nat \cup {Absent}
  BY Layer, SettingsAssumption
<1>2. /\ upper \in [Typed -> Int] /\ upper["count"] \in Nat /\ upper["interval"] \in Nat \cup {Absent}
  <2> HIDE DEF lower
  <2> QED BY <1>1, Layer
<1>3. MergeConfig(system, project) = clampConfig(upper)
  BY DEF MergeConfig
<1> HIDE DEF upper
<1>4. "count" \in Typed /\ "interval" \in Typed /\ "count" # "interval" /\ MaxCount \in Nat
  BY SettingsAssumption DEF Typed, Keys
<1> QED BY <1>2, <1>3, <1>4 DEF clampConfig

\* An interval is a duration or none.
LEMMA IntervalNat ==
  ASSUME NEW cfg, cfg["interval"] \in Nat \cup {Absent} PROVE ticklerInterval(cfg) \in Nat
BY DEF ticklerInterval

\* A file that is not there counts as a document without keys.
LEMMA EmptyDocument == Empty \in Documents
BY DEF Empty, Documents, Absent

-----------------------------------------------------------------------------
(* Type correctness.                                                       *)

\* The initial states are well typed.
LEMMA InitTypes == Init => TypeOK
<1> SUFFICES ASSUME Init PROVE TypeOK
  OBVIOUS
<1> DEFINE cfg == MergeConfig(InitialSys, Empty)
<1>1. InitialSys \in Documents
  BY SettingsAssumption
<1>2. cfg \in [Typed -> Int] /\ cfg["count"] \in 0..MaxCount /\ cfg["interval"] \in Nat \cup {Absent}
  BY <1>1, EmptyDocument, Merged
<1> DEFINE d == ticklerInterval(cfg)
<1>3. d \in Nat
  BY <1>2, IntervalNat
<1>4. /\ interval = d
      /\ loops = IF d > 0 THEN <<[every |-> d, does |-> "waits", closed |-> FALSE]>> ELSE <<>>
      /\ stop = IF d > 0 THEN 1 ELSE 0
  BY DEF Init, Start
<1>5. opts = cfg
  BY DEF Init
<1> HIDE DEF d, cfg
<1>6. interval \in Nat /\ loops \in Seq(Loop) /\ Len(loops) <= MaxLoops /\ stop \in 0..Len(loops)
  <2> DEFINE first == [every |-> d, does |-> "waits", closed |-> FALSE]
  <2>0. MaxLoops \in Nat \ {0}
    BY SettingsAssumption
  <2>1. CASE d > 0
    <3>1. first \in Loop
      BY <1>3, <2>1 DEF Loop
    <3>2. loops = <<first>> /\ stop = 1 /\ interval = d
      BY <1>4, <2>1
    <3> HIDE DEF first
    <3>3. <<first>> \in Seq(Loop) /\ Len(<<first>>) = 1
      BY <3>1
    <3> QED BY <1>3, <2>0, <3>2, <3>3
  <2>2. CASE ~(d > 0)
    <3>1. loops = <<>> /\ stop = 0 /\ interval = d
      BY <1>4, <2>2
    <3> QED BY <1>3, <2>0, <3>1
  <2> QED BY <2>1, <2>2
<1> QED BY <1>1, <1>2, <1>5, <1>6, EmptyDocument DEF Init, TypeOK, Places

\* A step that leaves the loops alone keeps the types.
LEMMA QuietTypes == ASSUME TypeOK, Asking, NEW r \in Requests, Quiet(r) PROVE TypeOK'
<1> USE DEF files, service, Go, At
<1>0. ask[r] \in Asks
  BY DEF TypeOK
<1>1. CASE Arrive(r)
  <2>1. ask[r].kind \in Places
    BY <1>0, Asked DEF Places
  <2> QED BY <1>1, <2>1 DEF TypeOK, Arrive
<1>2. CASE form(r)
  <2>1. ask[r].interval \in Int /\ ask[r].count \in Int
    BY <1>0, <1>2, Asked DEF Asking, form
  <2>2. CASE ask[r].interval = Bad
    BY <1>2, <2>2 DEF TypeOK, form, Places
  <2>3. CASE ask[r].interval # Bad
    <3>1. [sys EXCEPT !["interval"] = ask[r].interval,
                      !["count"] = IF ask[r].count = Absent THEN @ ELSE ask[r].count] \in Documents
      BY <2>1 DEF TypeOK, Documents
    <3>2. raw' \in [Requests -> Documents]
      BY <1>2, <2>3, <3>1 DEF TypeOK, form
    <3> QED BY <1>2, <2>3, <3>2 DEF TypeOK, form, Places
  <2> QED BY <2>2, <2>3
<1>3. CASE saveForm(r)
  BY <1>3 DEF TypeOK, saveForm, Save, Places
<1>4. CASE putConfig(r)
  <2>1. ask[r].doc \in Documents
    BY <1>0, <1>4, Asked DEF Asking, putConfig
  <2> QED BY <1>4, <2>1 DEF TypeOK, putConfig, Places
<1>5. CASE putProjectConfig(r)
  <2>1. ask[r].doc \in Documents
    BY <1>0, <1>5, Asked DEF Asking, putProjectConfig
  <2> QED BY <1>5, <2>1 DEF TypeOK, putProjectConfig, Places
<1>6. CASE SystemConfigReload(r)
  BY <1>6 DEF TypeOK, SystemConfigReload, Places
<1>7. CASE Install(r)
  <2>1. raw[r] \in Documents
    BY DEF TypeOK
  <2> QED BY <1>7, <2>1, EmptyDocument, Merged DEF TypeOK, Install, Reloaded, Places
<1>8. CASE applyTickler(r)
  <2>1. ticklerInterval(opts) \in Nat
    BY IntervalNat DEF TypeOK
  <2>2. raw' \in [Requests -> Documents]
    <3>1. raw[r] \in [Keys -> Int] /\ "interval" \in Keys
      BY DEF TypeOK, Documents, Keys
    <3>2. [raw[r] EXCEPT !["interval"] = ticklerInterval(opts)] \in [Keys -> Int]
      BY <2>1, <3>1
    <3>3. raw' = [raw EXCEPT ![r] = [raw[r] EXCEPT !["interval"] = ticklerInterval(opts)]]
      BY <1>8 DEF applyTickler
    <3> QED BY <3>2, <3>3 DEF TypeOK, Documents
  <2> QED BY <1>8, <2>2 DEF TypeOK, applyTickler, Places
<1>9. CASE buildSystemSettings(r)
  BY <1>9 DEF TypeOK, buildSystemSettings, Places
<1> QED BY <1>1, <1>2, <1>3, <1>4, <1>5, <1>6, <1>7, <1>8, <1>9 DEF Quiet

\* A loop that is changed in what it does, or told to end, is still a loop.
LEMMA LoopTypes ==
  ASSUME loops \in Seq(Loop), NEW n \in DOMAIN loops
  PROVE  /\ \A what \in {"waits", "passes", "ended"} :
              /\ [loops EXCEPT ![n].does = what] \in Seq(Loop)
              /\ Len([loops EXCEPT ![n].does = what]) = Len(loops)
         /\ [loops EXCEPT ![n].closed = TRUE] \in Seq(Loop)
         /\ Len([loops EXCEPT ![n].closed = TRUE]) = Len(loops)
<1>1. n \in 1..Len(loops) /\ loops[n] \in Loop
  OBVIOUS
<1>2. ASSUME NEW x \in Loop
      PROVE  [loops EXCEPT ![n] = x] \in Seq(Loop) /\ Len([loops EXCEPT ![n] = x]) = Len(loops)
  BY <1>1
<1>3. \A what \in {"waits", "passes", "ended"} : [loops[n] EXCEPT !.does = what] \in Loop
  BY <1>1 DEF Loop
<1>4. [loops[n] EXCEPT !.closed = TRUE] \in Loop
  BY <1>1 DEF Loop
<1> QED BY <1>2, <1>3, <1>4

\* A step under the lock keeps the types.
LEMMA LockedTypes == ASSUME TypeOK, Held, Changing, NEW r \in Requests, Locked(r) PROVE TypeOK'
<1> USE DEF files, service, Go, At
<1>1. CASE Lock(r)
  <2>1. raw[r]["interval"] \in Nat
    BY <1>1 DEF Held, Lock
  <2>2. holder' \in (Requests \X Nat) \cup {NoOne}
    BY <1>1, <2>1 DEF TypeOK, Lock
  <2>3. pc' \in [Requests -> Places]
    BY <1>1 DEF TypeOK, Lock, Places
  <2> QED BY <1>1, <2>2, <2>3 DEF TypeOK, Lock
<1>2. CASE Close(r)
  <2>1. stop \in DOMAIN loops
    BY <1>2 DEF TypeOK, Changing, Close
  <2>2. loops' \in Seq(Loop) /\ Len(loops') = Len(loops)
    BY <1>2, <2>1, LoopTypes DEF TypeOK, Close, CloseStop
  <2>3. pc' \in [Requests -> Places]
    BY <1>2 DEF TypeOK, Close, Places
  <2>4. stop' \in 0..Len(loops')
    BY <1>2, <2>2 DEF TypeOK, Close
  <2> QED BY <1>2, <2>2, <2>3, <2>4 DEF TypeOK, Close
<1>3. CASE Wait(r)
  BY <1>3 DEF TypeOK, Wait, Places
<1>4. CASE StartLoop(r)
  <2> DEFINE d == holder[2]
  <2>1. d \in Nat
    BY <1>4 DEF TypeOK, Held, Applying, StartLoop
  <2>2. interval' = d /\ holder' = NoOne
    BY <1>4 DEF StartLoop
  <2>3. loops' \in Seq(Loop) /\ Len(loops') <= MaxLoops /\ stop' \in 0..Len(loops')
    <3>1. CASE d <= 0
      BY <1>4, <3>1 DEF TypeOK, StartLoop
    <3>2. CASE ~(d <= 0)
      <4> DEFINE new == [every |-> d, does |-> "waits", closed |-> FALSE]
      <4>1. new \in Loop
        BY <2>1, <3>2 DEF Loop
      <4>2. Len(loops) < MaxLoops /\ loops' = Append(loops, new) /\ stop' = Len(loops) + 1
        BY <1>4, <3>2 DEF StartLoop
      <4> HIDE DEF new
      <4>3. loops \in Seq(Loop) /\ MaxLoops \in Nat
        BY SettingsAssumption DEF TypeOK
      <4> QED BY <4>1, <4>2, <4>3
    <3> QED BY <3>1, <3>2
  <2>4. pc' \in [Requests -> Places]
    BY <1>4 DEF TypeOK, StartLoop, Places
  <2> QED BY <1>4, <2>1, <2>2, <2>3, <2>4 DEF TypeOK, StartLoop
<1> QED BY <1>1, <1>2, <1>3, <1>4 DEF Locked

\* Every step keeps the types.
LEMMA NextTypes == TypeOK /\ Asking /\ Held /\ Changing /\ [Next]_vars => TypeOK'
<1> SUFFICES ASSUME TypeOK, Asking, Held, Changing, [Next]_vars PROVE TypeOK'
  OBVIOUS
<1> USE DEF files, service
<1>1. ASSUME NEW n \in DOMAIN loops, run(n) PROVE TypeOK'
  <2>1. PICK what \in {"waits", "passes", "ended"} : loops' = [loops EXCEPT ![n].does = what]
    BY <1>1 DEF run, Pass, PassEnds, LoopEnds
  <2>2. loops' \in Seq(Loop) /\ Len(loops') = Len(loops)
    BY <2>1, LoopTypes DEF TypeOK
  <2> QED BY <1>1, <2>2 DEF TypeOK, run, Pass, PassEnds, LoopEnds
<1>2. CASE Shutdown
  BY <1>2 DEF TypeOK, Shutdown
<1>3. CASE UNCHANGED vars
  BY <1>3 DEF TypeOK, vars
<1> QED BY <1>1, <1>2, <1>3, NextSteps, QuietTypes, LockedTypes

-----------------------------------------------------------------------------
(* The lock and the loops.                                                 *)

\* A request is answered by the steps of what it asked for.
LEMMA NextAsking == TypeOK /\ Asking /\ [Next]_vars => Asking'
<1> SUFFICES ASSUME TypeOK, Asking, [Next]_vars PROVE Asking'
  OBVIOUS
<1> USE DEF files, service, Go, At
<1>1. ASSUME NEW r \in Requests, Quiet(r) \/ Locked(r) PROVE Asking'
  <2>1. ask' = ask
    BY <1>1 DEF Quiet, Locked, Arrive, form, saveForm, putConfig, putProjectConfig, SystemConfigReload, Install,
                applyTickler, buildSystemSettings, Lock, Close, Wait, StartLoop
  <2>2. PICK to : pc' = [pc EXCEPT ![r] = to] /\ (to \in {"form", "put", "project"} => to = ask[r].kind)
    BY <1>1 DEF Quiet, Locked, Arrive, form, saveForm, putConfig, putProjectConfig, SystemConfigReload, Install,
                applyTickler, buildSystemSettings, Lock, Close, Wait, StartLoop
  <2> QED BY <2>1, <2>2 DEF TypeOK, Asking
<1>2. ASSUME NEW n \in DOMAIN loops, run(n) PROVE Asking'
  BY <1>2 DEF Asking, run, Pass, PassEnds, LoopEnds
<1>3. CASE Shutdown
  BY <1>3 DEF Asking, Shutdown
<1>4. CASE UNCHANGED vars
  BY <1>4 DEF Asking, vars
<1> QED BY <1>1, <1>2, <1>3, <1>4, NextSteps

\* A request that is not inside apply() finds its way there through the lock.
LEMMA QuietMoves ==
  ASSUME TypeOK, NEW r \in Requests, Quiet(r)
  PROVE  /\ \A q \in Requests : q # r => pc'[q] = pc[q]
         /\ pc[r] \notin Applying \cup {"lock"} /\ pc'[r] \notin Applying
         /\ \A q \in Requests : q # r => raw'[q] = raw[q]
         /\ pc'[r] = "lock" => raw'[r]["interval"] = ticklerInterval(opts) /\ pc[r] = "apply"
         /\ UNCHANGED <<service, down>>
<1> USE DEF files, service, Go, At, Applying
<1>1. CASE Arrive(r)
  <2>1. ask[r].kind \in {"form", "put", "project"}
    BY Asked DEF TypeOK
  <2> QED BY <1>1, <2>1 DEF TypeOK, Arrive
<1>2. CASE form(r)
  BY <1>2 DEF TypeOK, form
<1>3. CASE saveForm(r)
  BY <1>3 DEF TypeOK, saveForm
<1>4. CASE putConfig(r)
  BY <1>4 DEF TypeOK, putConfig
<1>5. CASE putProjectConfig(r)
  BY <1>5 DEF TypeOK, putProjectConfig
<1>6. CASE SystemConfigReload(r)
  BY <1>6 DEF TypeOK, SystemConfigReload
<1>7. CASE Install(r)
  BY <1>7 DEF TypeOK, Install
<1>8. CASE applyTickler(r)
  <2>1. raw[r] \in [Keys -> Int] /\ "interval" \in Keys
    BY DEF TypeOK, Documents, Keys
  <2> QED BY <1>8, <2>1 DEF TypeOK, applyTickler
<1>9. CASE buildSystemSettings(r)
  BY <1>9 DEF TypeOK, buildSystemSettings
<1> QED BY <1>1, <1>2, <1>3, <1>4, <1>5, <1>6, <1>7, <1>8, <1>9 DEF Quiet

\* Who holds the lock is who is inside.
LEMMA NextHeld == TypeOK /\ Held /\ [Next]_vars => Held'
<1> SUFFICES ASSUME TypeOK, Held, [Next]_vars PROVE Held'
  OBVIOUS
<1> USE DEF files, service, Go, At
<1>0. holder # NoOne => holder[1] \in Requests
  BY DEF TypeOK
<1>1. ASSUME NEW r \in Requests, Quiet(r) PROVE Held'
  <2>1. ticklerInterval(opts) \in Nat
    BY IntervalNat DEF TypeOK
  <2> QED BY <1>0, <1>1, <2>1, QuietMoves DEF Held
<1>2. ASSUME NEW r \in Requests, Locked(r) PROVE Held'
  <2>0. raw' = raw /\ \A q \in Requests : q # r => pc'[q] = pc[q]
    BY <1>2 DEF TypeOK, Locked, Lock, Close, Wait, StartLoop
  <2>1. CASE Lock(r)
    <3>1. \A q \in Requests : pc[q] \notin Applying
      BY <2>1 DEF Held, Lock
    <3>2. CASE raw[r]["interval"] = interval
      <4>1. holder' = NoOne /\ pc'[r] = "status"
        BY <2>1, <3>2 DEF TypeOK, Lock
      <4> QED BY <2>0, <3>1, <4>1 DEF Held, Applying
    <3>3. CASE raw[r]["interval"] # interval
      <4>1. holder' = <<r, raw[r]["interval"]>> /\ pc'[r] \in {"close", "start"}
        BY <2>1, <3>3 DEF TypeOK, Lock
      <4>2. holder' # NoOne /\ holder'[1] = r
        BY <4>1, SettingsAssumption DEF NoOne
      <4> QED BY <2>0, <3>1, <4>1, <4>2 DEF Held, Applying
    <3> QED BY <3>2, <3>3
  <2>2. CASE Close(r) \/ Wait(r)
    <3>1. holder' = holder /\ pc[r] \in Applying /\ pc'[r] \in Applying
      BY <2>2 DEF TypeOK, Close, Wait, Applying
    <3> QED BY <1>0, <2>0, <3>1 DEF Held, Applying
  <2>3. CASE StartLoop(r)
    <3>1. holder' = NoOne /\ pc[r] \in Applying /\ pc'[r] = "status"
      BY <2>3 DEF TypeOK, StartLoop, Applying
    <3> QED BY <2>0, <3>1 DEF Held, Applying
  <2> QED BY <1>2, <2>1, <2>2, <2>3 DEF Locked
<1>3. ASSUME NEW n \in DOMAIN loops, run(n) PROVE Held'
  BY <1>3 DEF Held, run, Pass, PassEnds, LoopEnds
<1>4. CASE Shutdown
  BY <1>4 DEF Held, Shutdown
<1>5. CASE UNCHANGED vars
  BY <1>5 DEF Held, vars
<1> QED BY <1>1, <1>2, <1>3, <1>4, <1>5, NextSteps

\* A loop ends when it has been told, and otherwise waits or passes.
LEMMA LoopRuns ==
  ASSUME TypeOK, NEW n \in DOMAIN loops, run(n)
  PROVE  /\ DOMAIN loops' = DOMAIN loops
         /\ \A m \in DOMAIN loops : loops'[m].every = loops[m].every /\ loops'[m].closed = loops[m].closed
         /\ n \in Alive
         /\ Alive' = Alive \/ (Alive' = Alive \ {n} /\ (loops[n].closed \/ down))
         /\ UNCHANGED <<files, opts, pc, ask, raw, shown, raced, holder, interval, stop, down>>
<1>1. PICK what \in {"waits", "passes", "ended"} :
        /\ loops' = [loops EXCEPT ![n].does = what]
        /\ what = "ended" => loops[n].closed \/ down
  BY DEF run, Pass, PassEnds, LoopEnds, Told
<1>2. loops \in Seq(Loop) /\ loops[n] \in Loop /\ loops[n].does # "ended"
  BY DEF TypeOK, run, Pass, PassEnds, LoopEnds
<1>3. /\ DOMAIN loops' = DOMAIN loops
      /\ \A m \in DOMAIN loops : m # n => loops'[m] = loops[m]
      /\ loops'[n] = [loops[n] EXCEPT !.does = what]
  BY <1>1, <1>2
<1>4. /\ loops'[n].every = loops[n].every /\ loops'[n].closed = loops[n].closed
      /\ loops'[n].does = what
  BY <1>2, <1>3 DEF Loop
<1>5. Alive' = {m \in DOMAIN loops' : loops'[m].does # "ended"}
  BY DEF Alive
<1>6. n \in Alive
  BY <1>2 DEF Alive
<1>7. CASE what = "ended"
  <2>1. Alive' = Alive \ {n}
    BY <1>3, <1>4, <1>5, <1>7 DEF Alive
  <2> QED BY <1>1, <1>3, <1>4, <1>6, <1>7, <2>1 DEF run, Pass, PassEnds, LoopEnds
<1>8. CASE what # "ended"
  <2>1. Alive' = Alive
    BY <1>2, <1>3, <1>4, <1>5, <1>8 DEF Alive
  <2> QED BY <1>1, <1>3, <1>4, <1>6, <2>1 DEF run, Pass, PassEnds, LoopEnds
<1> QED BY <1>7, <1>8

\* A step under the lock hands the loops on as the next step expects them.
LEMMA LockedChanging ==
  ASSUME TypeOK, Held, Changing, NEW r \in Requests, Locked(r) PROVE Changing'
<1> USE DEF files, service, Go, At
<1>0. \A q \in Requests : q # r => pc'[q] = pc[q] /\ pc[q] \notin Applying
  BY DEF TypeOK, Held, Applying, Locked, Lock, Close, Wait, StartLoop
<1>1. CASE Lock(r)
  <2>1. UNCHANGED <<interval, stop, loops, down>> /\ holder = NoOne
    BY <1>1 DEF Lock
  <2>2. Recorded /\ Recorded' /\ Alive' = Alive
    BY <2>1 DEF Changing, Recorded, Alive
  <2>3. pc'[r] # "wait" /\ (pc'[r] = "close" => stop # 0) /\ (pc'[r] = "start" => stop = 0)
    BY <1>1 DEF TypeOK, Lock
  <2>4. stop = 0 => Alive = {}
    BY <2>2 DEF Recorded
  <2> QED BY <1>0, <2>1, <2>2, <2>3, <2>4 DEF Changing, Applying
<1>2. CASE Close(r)
  <2>1. Recorded /\ stop # 0 /\ stop \in DOMAIN loops
    BY <1>2 DEF TypeOK, Changing, Close
  <2>2. interval > 0 /\ Alive \subseteq {stop}
    BY <2>1 DEF Recorded
  <2>3. loops' = [loops EXCEPT ![stop].closed = TRUE] /\ stop' = 0 /\ pc'[r] = "wait"
    BY <1>2 DEF TypeOK, Close, CloseStop
  <2>4. loops \in Seq(Loop) /\ loops[stop] \in Loop
    BY <2>1 DEF TypeOK
  <2>5. /\ DOMAIN loops' = DOMAIN loops /\ loops'[stop].closed = TRUE
        /\ \A m \in DOMAIN loops : loops'[m].does = loops[m].does
    BY <2>1, <2>3, <2>4 DEF Loop
  <2>6. Alive' = Alive
    BY <2>5 DEF Alive
  <2>7. holder' = holder /\ holder # NoOne
    BY <1>2 DEF Held, Applying, Close
  <2> QED BY <1>0, <2>2, <2>3, <2>5, <2>6, <2>7 DEF Changing, Applying
<1>3. CASE Wait(r)
  <2>1. pc[r] = "wait" /\ pc'[r] = "start" /\ Alive = {} /\ UNCHANGED <<holder, stop, loops>> /\ holder # NoOne
    BY <1>3 DEF TypeOK, Held, Applying, Wait, Gone
  <2>2. stop = 0 /\ Alive' = Alive
    BY <2>1 DEF Changing, Alive
  <2> QED BY <1>0, <2>1, <2>2 DEF Changing, Applying
<1>4. CASE StartLoop(r)
  <2>1. Alive = {} /\ stop = 0 /\ pc'[r] = "status" /\ interval' = holder[2] /\ holder[2] \in Nat
    BY <1>4 DEF TypeOK, Held, Applying, Changing, StartLoop
  <2>2. CASE holder[2] <= 0
    <3>1. UNCHANGED <<stop, loops>> /\ interval' = 0
      BY <1>4, <2>1, <2>2 DEF StartLoop
    <3>2. Alive' = {} /\ Recorded'
      BY <2>1, <3>1 DEF Alive, Recorded
    <3> QED BY <1>0, <2>1, <3>2 DEF Changing, Applying
  <2>3. CASE ~(holder[2] <= 0)
    <3> DEFINE new == [every |-> holder[2], does |-> "waits", closed |-> FALSE]
    <3>1. loops' = Append(loops, new) /\ stop' = Len(loops) + 1
      BY <1>4, <2>3 DEF StartLoop
    <3>2. new.every = holder[2] /\ new.does = "waits" /\ new.closed = FALSE
      OBVIOUS
    <3> HIDE DEF new
    <3>3. loops \in Seq(Loop) /\ Len(loops) \in Nat
      BY DEF TypeOK
    <3>4. /\ DOMAIN loops' = 1..(Len(loops) + 1) /\ loops'[Len(loops) + 1] = new
          /\ \A m \in 1..Len(loops) : loops'[m] = loops[m]
      BY <3>1, <3>3
    <3>5. Alive' = {Len(loops) + 1}
      BY <2>1, <3>2, <3>3, <3>4 DEF Alive
    <3>6. Recorded'
      BY <2>1, <2>3, <3>1, <3>2, <3>3, <3>4, <3>5 DEF Recorded
    <3> QED BY <1>0, <2>1, <3>6 DEF Changing, Applying
  <2> QED BY <2>1, <2>2, <2>3
<1> QED BY <1>1, <1>2, <1>3, <1>4 DEF Locked

\* Every step leaves the loops as they are expected.
LEMMA NextChanging == TypeOK /\ Held /\ Changing /\ [Next]_vars => Changing'
<1> SUFFICES ASSUME TypeOK, Held, Changing, [Next]_vars PROVE Changing'
  OBVIOUS
<1> USE DEF files, service, Go, At
<1>1. ASSUME NEW r \in Requests, Quiet(r) PROVE Changing'
  <2>1. Alive' = Alive /\ (Recorded' <=> Recorded)
    BY <1>1, QuietMoves DEF Alive, Recorded
  <2> QED BY <1>1, <2>1, QuietMoves DEF Changing, Applying
<1>2. ASSUME NEW n \in DOMAIN loops, run(n) PROVE Changing'
  <2>1. stop # 0 => stop \in DOMAIN loops
    BY DEF TypeOK
  <2>2. Recorded => Recorded'
    BY <1>2, <2>1, LoopRuns DEF Recorded
  <2>3. Alive' \subseteq Alive /\ Alive \subseteq DOMAIN loops
    BY <1>2, LoopRuns DEF Alive
  <2> QED BY <1>2, <2>2, <2>3, LoopRuns DEF Changing
<1>3. CASE Shutdown
  <2>1. Alive' = Alive /\ UNCHANGED <<pc, holder, interval, stop, loops>> /\ down'
    BY <1>3 DEF Shutdown, Alive
  <2>2. Recorded => Recorded'
    BY <2>1 DEF Recorded
  <2> QED BY <2>1, <2>2 DEF Changing
<1>4. CASE UNCHANGED vars
  <2>1. Alive' = Alive /\ (Recorded' <=> Recorded)
    BY <1>4 DEF vars, Alive, Recorded
  <2> QED BY <1>4, <2>1 DEF Changing, vars
<1> QED BY <1>1, <1>2, <1>3, <1>4, NextSteps, LockedChanging

-----------------------------------------------------------------------------
(* Saves.                                                                  *)

\* The step of a request that saves alone leaves the others where they were, at
\* rest.
LEMMA OthersRest ==
  ASSUME TypeOK, Alone, NEW r \in Requests, Quiet(r) \/ Locked(r), ~raced'
  PROVE  /\ ~raced
         /\ \A q \in Requests : q # r => pc'[q] = pc[q] /\ pc[q] \in {"idle", "done"}
<1> USE DEF files, service, Go, At
<1>1. \A q \in Requests : q # r => pc'[q] = pc[q]
  BY QuietMoves DEF TypeOK, Locked, Lock, Close, Wait, StartLoop
<1>2. CASE Arrive(r)
  BY <1>1, <1>2 DEF Arrive, Saving
<1>3. CASE ~Arrive(r)
  <2>1. Saving(r) /\ raced' = raced
    BY <1>3 DEF Saving, Quiet, Locked, form, saveForm, putConfig, putProjectConfig, SystemConfigReload,
                Install, applyTickler, buildSystemSettings, Lock, Close, Wait, StartLoop
  <2> QED BY <1>1, <2>1 DEF Alone, Saving
<1> QED BY <1>2, <1>3

\* Each step of a save that is alone brings what the file says one step further.
LEMMA StepUnderway ==
  ASSUME TypeOK, Held, Alone, NEW r \in Requests, Quiet(r) \/ Locked(r), ~raced'
  PROVE  Underway(r)' /\ (pc'[r] \in {"idle", "done"} => Settled')
<1> USE DEF files, service, Go, At
<1>0. Underway(r) /\ ((\A q \in Requests : ~Saving(q)) => Settled)
  BY OthersRest DEF Alone
<1>1. CASE Arrive(r)
  <2>1. \A q \in Requests : ~Saving(q)
    BY <1>1 DEF Arrive
  <2>2. pc'[r] \in {"form", "put", "project"}
    BY <1>1, Asked DEF TypeOK, Arrive
  <2> QED BY <1>0, <1>1, <2>1, <2>2 DEF Arrive, Settled, Effective, Underway, Applying
<1>2. CASE form(r)
  <2>1. Settled /\ Settled'
    BY <1>0, <1>2 DEF form, Underway, Settled, Effective
  <2>2. CASE ask[r].interval = Bad
    BY <1>2, <2>1, <2>2 DEF TypeOK, form, Underway, Applying
  <2>3. CASE ask[r].interval # Bad
    <3>1. pc'[r] = "save" /\ sys' = sys
      BY <1>2, <2>3 DEF TypeOK, form
    <3>2. raw'[r] = [sys EXCEPT !["interval"] = ask[r].interval,
                                !["count"] = IF ask[r].count = Absent THEN @ ELSE ask[r].count]
      BY <1>2, <2>3 DEF TypeOK, form
    <3>3. \A k \in Keys \ {"interval", "count"} : raw'[r][k] = sys'[k]
      BY <3>1, <3>2 DEF TypeOK, Documents
    <3> QED BY <2>1, <3>1, <3>3 DEF Underway, Applying
  <2> QED BY <2>2, <2>3
<1>3. CASE saveForm(r)
  BY <1>3 DEF TypeOK, saveForm, Underway, Applying
<1>4. CASE putConfig(r)
  BY <1>0, <1>4 DEF TypeOK, putConfig, Settled, Effective, Underway, Applying
<1>5. CASE putProjectConfig(r)
  BY <1>0, <1>5 DEF TypeOK, putProjectConfig, Settled, Effective, Underway, Applying
<1>6. CASE SystemConfigReload(r)
  BY <1>6 DEF TypeOK, SystemConfigReload, Underway, Applying
<1>7. CASE Install(r)
  <2>1. raw[r] = sys
    BY <1>0, <1>7 DEF Install, Underway
  <2> QED BY <1>7, <2>1 DEF TypeOK, Install, Reloaded, Underway, Applying
<1>8. CASE applyTickler(r)
  <2>1. opts = MergeConfig(sys, Empty)
    BY <1>0, <1>8 DEF applyTickler, Underway
  <2>2. UNCHANGED <<sys, opts>> /\ pc'[r] = "lock" /\ raw'[r]["interval"] = ticklerInterval(opts)
    BY <1>8, QuietMoves DEF TypeOK, applyTickler, Quiet
  <2> QED BY <2>1, <2>2 DEF Underway, Effective, Applying
<1>9. CASE buildSystemSettings(r)
  BY <1>0, <1>9 DEF TypeOK, buildSystemSettings, Settled, Effective, Underway, Applying
<1>10. CASE Lock(r)
  <2>1. opts = MergeConfig(sys, Empty) /\ raw[r]["interval"] = Effective
    BY <1>0, <1>10 DEF Lock, Underway
  <2>2. UNCHANGED <<sys, opts, interval>> /\ Effective' = Effective
    BY <1>10 DEF Lock, Effective
  <2>3. \/ pc'[r] = "status" /\ interval = Effective
        \/ pc'[r] \in {"close", "start"} /\ holder'[2] = Effective
    BY <1>10, <2>1 DEF TypeOK, Lock
  <2> QED BY <2>1, <2>2, <2>3 DEF Underway, Settled, Applying
<1>11. CASE Close(r) \/ Wait(r)
  BY <1>0, <1>11 DEF TypeOK, Close, Wait, Underway, Effective, Applying
<1>12. CASE StartLoop(r)
  <2>1. opts = MergeConfig(sys, Empty) /\ holder[2] = Effective
    BY <1>0, <1>12 DEF StartLoop, Underway, Applying
  <2>2. UNCHANGED <<sys, opts>> /\ interval' = holder[2] /\ pc'[r] = "status"
    BY <1>12 DEF TypeOK, StartLoop
  <2> QED BY <2>1, <2>2 DEF Underway, Settled, Effective, Applying
<1> QED BY <1>1, <1>2, <1>3, <1>4, <1>5, <1>6, <1>7, <1>8, <1>9, <1>10, <1>11, <1>12
        DEF Quiet, Locked

\* What a save that is alone has done so far is not undone by anybody.
LEMMA NextAlone == TypeOK /\ Held /\ Alone /\ [Next]_vars => Alone'
<1> SUFFICES ASSUME TypeOK, Held, Alone, [Next]_vars, ~raced'
             PROVE  /\ \A q, r \in Requests : Saving(q)' /\ Saving(r)' => q = r
                    /\ (\A r \in Requests : ~Saving(r)') => Settled'
                    /\ \A r \in Requests : Underway(r)'
  BY DEF Alone
<1>1. ASSUME NEW r \in Requests, Quiet(r) \/ Locked(r)
      PROVE  /\ \A q, x \in Requests : Saving(q)' /\ Saving(x)' => q = x
             /\ (\A q \in Requests : ~Saving(q)') => Settled'
             /\ \A q \in Requests : Underway(q)'
  <2>1. \A q \in Requests : q # r => pc'[q] \in {"idle", "done"}
    BY <1>1, OthersRest
  <2>2. \A q, x \in Requests : Saving(q)' /\ Saving(x)' => q = x
    BY <2>1 DEF Saving
  <2>3. \A q \in Requests : q # r => Underway(q)'
    BY <2>1 DEF Underway, Applying
  <2>4. Underway(r)' /\ (pc'[r] \in {"idle", "done"} => Settled')
    BY <1>1, StepUnderway
  <2> QED BY <2>2, <2>3, <2>4 DEF Saving
<1>2. ASSUME UNCHANGED <<sys, opts, pc, raw, raced, holder, interval>>
      PROVE  /\ \A q, x \in Requests : Saving(q)' /\ Saving(x)' => q = x
             /\ (\A q \in Requests : ~Saving(q)') => Settled'
             /\ \A q \in Requests : Underway(q)'
  BY <1>2 DEF Alone, Saving, Settled, Effective, Underway
<1>3. ASSUME NEW n \in DOMAIN loops, run(n) PROVE UNCHANGED <<sys, opts, pc, raw, raced, holder, interval>>
  BY <1>3 DEF run, Pass, PassEnds, LoopEnds, files
<1>4. CASE Shutdown
  BY <1>2, <1>4 DEF Shutdown, files, service
<1>5. CASE UNCHANGED vars
  BY <1>2, <1>5 DEF vars
<1> QED BY <1>1, <1>2, <1>3, <1>4, <1>5, NextSteps

-----------------------------------------------------------------------------
(* The theorems.                                                           *)

\* The invariant holds of the initial states,
LEMMA InitInv == Init => SettingsInv
<1> SUFFICES ASSUME Init PROVE SettingsInv
  OBVIOUS
<1>1. TypeOK
  BY InitTypes
<1>2. Asking /\ Held /\ Alone
  BY DEF Init, Start, Asking, Held, Applying, Alone, Saving, Settled, Effective, Underway
<1>3. Recorded
  <2> DEFINE d == ticklerInterval(MergeConfig(InitialSys, Empty))
             first == [every |-> d, does |-> "waits", closed |-> FALSE]
  <2>1. /\ interval = d
        /\ loops = IF d > 0 THEN <<first>> ELSE <<>>
        /\ stop = IF d > 0 THEN 1 ELSE 0
    BY DEF Init, Start
  <2>2. first.every = d /\ first.closed = FALSE /\ first.does = "waits"
    OBVIOUS
  <2> HIDE DEF d, first
  <2>3. CASE d > 0
    <3>1. DOMAIN loops = {1} /\ loops[1] = first
      BY <2>1, <2>3
    <3> QED BY <2>1, <2>2, <2>3, <3>1 DEF Recorded, Alive
  <2>4. CASE ~(d > 0)
    <3>1. DOMAIN loops = {}
      BY <2>1, <2>4
    <3> QED BY <2>1, <2>4, <3>1 DEF Recorded, Alive
  <2> QED BY <2>3, <2>4
<1>4. Changing
  BY <1>3 DEF Init, Changing
<1> QED BY <1>1, <1>2, <1>4 DEF SettingsInv

\* and every step keeps it.
LEMMA NextInv == SettingsInv /\ [Next]_vars => SettingsInv'
BY NextTypes, NextAsking, NextHeld, NextChanging, NextAlone DEF SettingsInv

\* A project's document decides no key that is the system's.
LEMMA SystemOnly == ASSUME TypeOK PROVE ProjectKeepsToItself
<1> SUFFICES ASSUME NEW k \in systemOnlyKeys
             PROVE  MergeConfig(sys, proj)[k] = MergeConfig(sys, Empty)[k]
  BY DEF ProjectKeepsToItself
<1> DEFINE cfg == applyConfig(Default, sys, FALSE)
<1>1. k \in Typed /\ "count" \in Typed /\ "count" \in systemOnlyKeys
  BY DEF systemOnlyKeys, Typed, Keys
<1>2. \A doc : \A x \in systemOnlyKeys \cap Typed : applyConfig(cfg, doc, TRUE)[x] = cfg[x]
  BY DEF applyConfig
<1>3. \A doc : clampConfig(applyConfig(cfg, doc, TRUE))[k]
                 = IF k = "count" THEN IF cfg[k] > MaxCount THEN MaxCount ELSE cfg[k] ELSE cfg[k]
  <2> TAKE doc
  <2> DEFINE upper == applyConfig(cfg, doc, TRUE)
  <2>1. DOMAIN upper = Typed
    BY DEF applyConfig
  <2>2. upper[k] = cfg[k]
    BY <1>1, <1>2
  <2> SUFFICES clampConfig(upper)[k] = IF k = "count" THEN IF cfg[k] > MaxCount THEN MaxCount ELSE cfg[k] ELSE cfg[k]
    OBVIOUS
  <2>3. clampConfig(upper) = [upper EXCEPT !["count"] = IF @ > MaxCount THEN MaxCount ELSE @]
    BY DEF clampConfig
  <2> HIDE DEF upper
  <2>4. CASE k = "count"
    BY <1>1, <2>1, <2>2, <2>3, <2>4
  <2>5. CASE k # "count"
    BY <1>1, <2>1, <2>2, <2>3, <2>5
  <2> QED BY <2>4, <2>5
<1> QED BY <1>3 DEF MergeConfig

\* There is one loop at most, at every step of its replacement.
LEMMA OnlyLoop == ASSUME TypeOK, Held, Changing PROVE OneLoop
<1>1. \A m, n \in Alive : m = n
  <2>1. CASE holder = NoOne
    BY <2>1 DEF Changing, Recorded
  <2>2. CASE holder # NoOne
    <3>1. holder[1] \in Requests /\ pc[holder[1]] \in Applying
      BY <2>2 DEF TypeOK, Held
    <3> QED BY <3>1 DEF Changing, Recorded, Applying
  <2> QED BY <2>1, <2>2
<1>2. CASE Alive = {}
  BY <1>2, FS_EmptySet DEF OneLoop
<1>3. CASE Alive # {}
  <2>1. PICK n : Alive = {n}
    BY <1>1, <1>3
  <2>2. Cardinality(Alive) = 1
    BY <2>1, FS_Singleton
  <2> QED BY <2>2 DEF OneLoop
<1> QED BY <1>2, <1>3

\* Saves that do not overlap take effect, on the merged configuration and on
\* the loop of the tickler, of which there is one and which no project decides.
THEOREM SavesDoApply == Spec => []SavesApply
<1>1. SettingsInv => SavesApply
  <2> SUFFICES ASSUME SettingsInv PROVE SavesApply
    OBVIOUS
  <2>1. TypeOK /\ OneLoop /\ ProjectKeepsToItself
    BY OnlyLoop, SystemOnly DEF SettingsInv
  <2>2. SavesTakeEffect
    BY DEF SettingsInv, Alone, Settled, SavesTakeEffect
  <2>3. LoopMatches
    BY DEF SettingsInv, Changing, Recorded, LoopMatches
  <2> QED BY <2>1, <2>2, <2>3 DEF SavesApply
<1> QED BY <1>1, InitInv, NextInv, PTL DEF Spec

\* A form that is saved alone keeps the keys it does not set.
THEOREM FormsKeepTheRest == Spec => FormKeepsTheRest
<1>1. SettingsInv /\ [Next]_vars =>
        [\A r \in Requests : At(r, "save") /\ pc'[r] = "reload" /\ ~raced =>
           \A k \in Keys \ {"interval", "count"} : sys'[k] = sys[k]]_vars
  <2> SUFFICES ASSUME SettingsInv, Next, NEW r \in Requests, At(r, "save"), pc'[r] = "reload", ~raced,
                      NEW k \in Keys \ {"interval", "count"}
               PROVE  sys'[k] = sys[k]
    OBVIOUS
  <2>1. raw[r][k] = sys[k]
    BY DEF SettingsInv, Alone, Underway, At
  <2>2. ASSUME NEW q \in Requests, Quiet(q) \/ Locked(q) PROVE sys'[k] = sys[k]
    <3>1. Saving(r) /\ (Saving(q) => q = r)
      BY DEF SettingsInv, Alone, Saving, At
    <3>2. CASE q = r
      BY <2>1, <2>2, <3>2 DEF TypeOK, SettingsInv, At, Go, Quiet, Locked, Arrive, form, saveForm, Save, putConfig,
             putProjectConfig, SystemConfigReload, Install, applyTickler, buildSystemSettings, Lock, Close,
             Wait, StartLoop, files
    <3>3. CASE q # r
      <4>1. pc'[r] = pc[r]
        BY <2>2, <3>3, QuietMoves DEF TypeOK, SettingsInv, Go, Locked, Lock, Close, Wait, StartLoop
      <4> QED BY <4>1 DEF At
    <3> QED BY <3>2, <3>3
  <2>3. ASSUME NEW n \in DOMAIN loops, run(n) PROVE sys'[k] = sys[k]
    BY <2>3 DEF run, Pass, PassEnds, LoopEnds, files
  <2>4. CASE Shutdown
    BY <2>4 DEF Shutdown, files
  <2> QED BY <2>2, <2>3, <2>4, NextSteps
<1> QED BY <1>1, InitInv, NextInv, PTL DEF Spec, FormKeepsTheRest

-----------------------------------------------------------------------------
(* The walk of the roots.                                                  *)

Frame == [dir : Dirs, depth : Nat, left : Seq(Discovery!Entry)]

Reads(d) == Discovery!ToSet(world.entries[d])

\* The file system has the layers that only links cross.
Ranks(rank) == \A d \in Dirs : \A e \in Reads(d) : e.link \/ rank[d] < rank[e.to]

\* The roots still to be walked are of the configuration, and what is found is
\* found once.
Scanning ==
  /\ world \in Worlds /\ scan \in Options
  /\ roots \in Seq(Discovery!ToSet(world.roots))
  /\ found \in Seq(Dirs) /\ Discovery!IsInjective(found)
  /\ skipped \in SUBSET Dirs /\ partial \in BOOLEAN /\ late \in BOOLEAN

\* The calls of walk() are at different directories, each one level deeper.
Chain(st) ==
  /\ st \in Seq(Frame)
  /\ \A i \in DOMAIN st :
       /\ st[i].depth = i - 1 /\ st[i].dir \notin world.unreadable
       /\ Discovery!ToSet(st[i].left) \subseteq Reads(st[i].dir)
       /\ scan.depth > 0 => i - 1 <= scan.depth
  /\ \A i, j \in DOMAIN st : i < j =>
       /\ st[i].dir # st[j].dir
       /\ ~scan.follow => \A rank \in [Dirs -> Nat] : Ranks(rank) => rank[st[i].dir] < rank[st[j].dir]

\* Levels that hold what the roots lead to.
Levels == {W \in [0..Discovery!Bound -> SUBSET Dirs] :
  /\ Discovery!RootWalks \subseteq W[0]
  /\ \A n \in 0..Discovery!Bound : W[n] \subseteq W[Discovery!Bound]
  /\ \A n \in 0..(Discovery!Bound - 1) : \A d \in W[n] \ world.unreadable : \A e \in Reads(d) :
       Discovery!Eligible(e) /\ ~e.name.named => e.to \in W[n + 1]}

\* The walk is within them.
Inside(W, st) == \A i \in DOMAIN st : st[i].dir \in W[i - 1]

Seen(W) == {e.to : e \in {x \in UNION {Reads(d) : d \in W[Discovery!Bound] \ world.unreadable} :
                            Discovery!Eligible(x) /\ x.name.named}}

Sound(W) ==
  /\ Inside(W, stack)
  /\ skipped \subseteq W[Discovery!Bound] \cap world.unreadable
  /\ Discovery!ToSet(found) \subseteq Discovery!RootMatches \cup (Seen(W) \cap world.board)

\* An entry that has been dealt with, in a directory at a depth: where it leads
\* to has been opened no deeper than it is.
Met(e, k, V, matched) ==
  Discovery!Eligible(e) =>
    IF e.name.named THEN e.to \in world.board => e.to \in matched
    ELSE scan.depth = 0 \/ k < scan.depth => \E j \in 0..(k + 1) : <<e.to, j>> \in V

\* An entry that a call has still to come to.
Ahead(d, k, e, st) ==
  k + 1 \in DOMAIN st /\ st[k + 1].dir = d /\ e \in Discovery!ToSet(st[k + 1].left)

RootMet(r, V, matched) ==
  IF r.named /\ r.dir \in world.board THEN r.dir \in matched ELSE <<r.dir, 0>> \in V

\* Every directory opened so far, with its depth, is counted if it cannot be
\* read, and of the others each entry is dealt with or still ahead.
Covers(V, st, counted, matched, rest) ==
  /\ V \in SUBSET (Dirs \X Nat)
  /\ \A i \in DOMAIN st : <<st[i].dir, i - 1>> \in V
  /\ \A d \in Dirs, k \in Nat : <<d, k>> \in V =>
       IF d \in world.unreadable THEN d \in counted
       ELSE \A e \in Reads(d) : Met(e, k, V, matched) \/ Ahead(d, k, e, st)
  /\ \A r \in Discovery!ToSet(world.roots) : RootMet(r, V, matched) \/ r \in rest

WalkInv ==
  /\ Scanning /\ Chain(stack)
  /\ \A W \in Levels : Sound(W)
  /\ ~partial => \E V : Covers(V, stack, skipped, Discovery!ToSet(found), Discovery!ToSet(roots))

\* What the run assumes of each file system and of the options.
LEMMA WorldIs ==
  ASSUME NEW w \in Worlds
  PROVE  /\ w.board \subseteq Dirs /\ w.unreadable \subseteq Dirs
         /\ w.entries \in [Dirs -> Seq(Discovery!Entry)]
         /\ w.roots \in Seq([dir : Dirs, named : BOOLEAN])
         /\ \E rank \in [Dirs -> Nat] :
              \A d \in Dirs : \A e \in Discovery!ToSet(w.entries[d]) : e.link \/ rank[d] < rank[e.to]
<1>1. w \in Discovery!World /\ Discovery!Layered(w)
  BY ScanAssumption DEF Discovery!DiscoveryAssumption
<1>2. PICK rank \in [Dirs -> 0..Discovery!Cardinality(Dirs)] :
        \A d \in Dirs : \A e \in Discovery!ToSet(w.entries[d]) : e.link \/ rank[d] < rank[e.to]
  BY <1>1 DEF Discovery!Layered
<1>3. rank \in [Dirs -> Nat]
  BY <1>2
<1> QED
  BY <1>1, <1>2, <1>3 DEF Discovery!World

LEMMA OptionIs ==
  ASSUME scan \in Options
  PROVE  /\ scan.depth \in Nat /\ scan.follow \in BOOLEAN /\ scan.hidden \in BOOLEAN
         /\ Discovery!Bound \in Nat
         /\ Discovery!Bound = IF scan.depth = 0 THEN Cardinality(Dirs) ELSE scan.depth
         /\ IsFiniteSet(Dirs) /\ Cardinality(Dirs) \in Nat
<1>1. scan \in Discovery!Option /\ IsFiniteSet(Dirs)
  BY ScanAssumption DEF Discovery!DiscoveryAssumption, Discovery!IsFiniteSet, IsFiniteSet
<1>2. Cardinality(Dirs) \in Nat
  BY <1>1, FS_CardinalityType
<1>3. Discovery!Bound = IF scan.depth = 0 THEN Cardinality(Dirs) ELSE scan.depth
  BY DEF Discovery!Bound, Discovery!Cardinality, Cardinality
<1> QED
  BY <1>1, <1>2, <1>3 DEF Discovery!Option

\* Induction up to a number, from the well-foundedness of the order.
LEMMA UpTo ==
  ASSUME NEW N \in Nat, NEW T,
         0 \in T,
         \A n \in 0..(N - 1) : n \in T => n + 1 \in T
  PROVE  \A n \in 0..N : n \in T
<1> SUFFICES ASSUME NEW k \in 0..N, k \notin T
             PROVE  FALSE
  OBVIOUS
<1> DEFINE R    == {pair \in Nat \X Nat : pair[1] < pair[2]}
           Rest == {n \in 0..N : n \notin T}
<1>1. IsWellFoundedOn(R, Nat)
  BY NatLessThanWellFounded DEF OpToRel
<1>2. \A x, y : <<x, y>> \in R <=> x \in Nat /\ y \in Nat /\ x < y
  OBVIOUS
<1>3. Rest \in SUBSET Nat /\ Rest # {} /\ \A n : n \in Rest <=> n \in 0..N /\ n \notin T
  OBVIOUS
<1> HIDE DEF R, Rest
<1>4. PICK n \in Rest : \A m \in Rest : ~ (<<m, n>> \in R)
  BY <1>1, <1>3, WFMin
<1>5. n \in 0..N /\ n \notin T /\ n # 0
  BY <1>3, <1>4
<1>6. n - 1 \in 0..(N - 1) /\ (n - 1) + 1 = n
  BY <1>5
<1>7. n - 1 \in T
  <2>1. n - 1 \in 0..N /\ n - 1 \in Nat /\ n \in Nat /\ n - 1 < n
    BY <1>5
  <2>2. <<n - 1, n>> \in R
    BY <1>2, <2>1
  <2> QED
    BY <1>3, <1>4, <2>1, <2>2
<1> QED
  BY <1>5, <1>6, <1>7

\* The directories within a distance of the roots, unfolded.
LEMMA WithinIs ==
  ASSUME scan \in Options
  PROVE  /\ Discovery!Within[0] = Discovery!RootWalks
         /\ \A n \in 1..Discovery!Bound :
              Discovery!Within[n] = Discovery!Within[n - 1]
                \cup {e.to : e \in Discovery!From(Discovery!Within[n - 1], FALSE)}
<1> DEFINE N == Discovery!Bound
           b == Discovery!RootWalks
           step(s) == s \cup {e.to : e \in Discovery!From(s, FALSE)}
           f == Discovery!Within
           T == {k \in 0..N : \E g : g = [n \in 0..k |-> IF n = 0 THEN b ELSE step(g[n - 1])]}
<1>1. f = CHOOSE g : g = [n \in 0..N |-> IF n = 0 THEN b ELSE step(g[n - 1])]
  BY DEF Discovery!Within
<1>2. N \in Nat
  BY OptionIs
<1> HIDE DEF f, step, N, b
<1>3. 0 \in T
  <2> DEFINE g == [n \in 0..0 |-> b]
  <2>1. g = [n \in 0..0 |-> IF n = 0 THEN b ELSE step(g[n - 1])]
    OBVIOUS
  <2> HIDE DEF g
  <2> QED
    BY <1>2, <2>1
<1>4. ASSUME NEW k \in 0..(N - 1), k \in T
      PROVE  k + 1 \in T
  <2>1. PICK g : g = [n \in 0..k |-> IF n = 0 THEN b ELSE step(g[n - 1])]
    BY <1>4
  <2> DEFINE h == [n \in 0..(k + 1) |-> IF n = k + 1 THEN step(g[k]) ELSE g[n]]
  <2>2. \A n \in 0..(k + 1) : h[n] = IF n = 0 THEN b ELSE step(h[n - 1])
    <3> SUFFICES ASSUME NEW n \in 0..(k + 1)
                 PROVE  h[n] = IF n = 0 THEN b ELSE step(h[n - 1])
      OBVIOUS
    <3>0. k \in Nat
      BY <1>2
    <3>1. CASE n = k + 1
      <4>1. h[n] = step(g[k]) /\ n - 1 = k /\ n # 0
        BY <3>0, <3>1
      <4>2. h[k] = g[k]
        BY <3>0
      <4> QED
        BY <3>1, <4>1, <4>2
    <3>2. CASE n # k + 1
      <4>1. n \in 0..k /\ h[n] = g[n]
        BY <3>0, <3>2
      <4>2. g[n] = IF n = 0 THEN b ELSE step(g[n - 1])
        BY <2>1, <4>1
      <4>3. n # 0 => h[n - 1] = g[n - 1]
        BY <3>0, <4>1
      <4> QED
        BY <4>1, <4>2, <4>3
    <3> QED
      BY <3>1, <3>2
  <2>3. h = [n \in 0..(k + 1) |-> h[n]]
    OBVIOUS
  <2> HIDE DEF h
  <2>4. h = [n \in 0..(k + 1) |-> IF n = 0 THEN b ELSE step(h[n - 1])]
    BY <2>2, <2>3
  <2>5. k + 1 \in 0..N
    BY <1>2
  <2> QED
    BY <2>4, <2>5
<1>5. N \in T
  <2> HIDE DEF T
  <2>1. \A n \in 0..N : n \in T
    BY <1>2, <1>3, <1>4, UpTo
  <2> QED
    BY <1>2, <2>1
<1>6. \E g : g = [n \in 0..N |-> IF n = 0 THEN b ELSE step(g[n - 1])]
  BY <1>5
<1>7. f = [n \in 0..N |-> IF n = 0 THEN b ELSE step(f[n - 1])]
  BY <1>1, <1>6
<1>8. \A n \in 0..N : f[n] = IF n = 0 THEN b ELSE step(f[n - 1])
  BY <1>7
<1>9. f[0] = b /\ \A n \in 1..N : f[n] = step(f[n - 1])
  BY <1>2, <1>8
<1> QED
  BY <1>9 DEF f, step, N, b

LEMMA AppendIs ==
  ASSUME NEW S, NEW s \in Seq(S), NEW x \in S
  PROVE  /\ Append(s, x) \in Seq(S) /\ Len(s) \in Nat
         /\ Len(Append(s, x)) = Len(s) + 1 /\ DOMAIN Append(s, x) = 1..(Len(s) + 1)
         /\ Append(s, x)[Len(s) + 1] = x /\ \A i \in 1..Len(s) : Append(s, x)[i] = s[i]
OBVIOUS

LEMMA HeadAndTail ==
  ASSUME NEW S, NEW s \in Seq(S), s # <<>>
  PROVE  Discovery!ToSet(s) = {Head(s)} \cup Discovery!ToSet(Tail(s))
<1>1. s \in Seq(S) /\ Len(s) \in Nat /\ Len(s) > 0 /\ DOMAIN s = 1..Len(s)
  OBVIOUS
<1>2. Tail(s) \in Seq(S) /\ DOMAIN Tail(s) = 1..(Len(s) - 1)
      /\ \A i \in 1..(Len(s) - 1) : Tail(s)[i] = s[i + 1]
  BY <1>1
<1>3. Head(s) = s[1]
  BY <1>1
<1>4. ASSUME NEW x
      PROVE  x \in Discovery!ToSet(s) <=> x = Head(s) \/ x \in Discovery!ToSet(Tail(s))
  <2>1. x \in Discovery!ToSet(s) <=> \E i \in 1..Len(s) : s[i] = x
    BY <1>1 DEF Discovery!ToSet
  <2>2. x \in Discovery!ToSet(Tail(s)) <=> \E i \in 1..(Len(s) - 1) : s[i + 1] = x
    BY <1>2 DEF Discovery!ToSet
  <2>3. (\E i \in 1..Len(s) : s[i] = x) => x = s[1] \/ \E i \in 1..(Len(s) - 1) : s[i + 1] = x
    <3> SUFFICES ASSUME NEW i \in 1..Len(s), s[i] = x, i # 1
                 PROVE  \E j \in 1..(Len(s) - 1) : s[j + 1] = x
      OBVIOUS
    <3>1. i - 1 \in 1..(Len(s) - 1) /\ (i - 1) + 1 = i
      BY <1>1
    <3> QED
      BY <3>1
  <2>4. 1 \in 1..Len(s) /\ \A i \in 1..(Len(s) - 1) : i + 1 \in 1..Len(s)
    BY <1>1
  <2> QED
    BY <1>3, <2>1, <2>2, <2>3, <2>4
<1> QED
  BY <1>4

\* Matching a directory adds it to what is found, if it is a board and new.
LEMMA MatchIs ==
  ASSUME found \in Seq(Dirs), Discovery!IsInjective(found), NEW dir \in Dirs, Discovery!Match(dir)
  PROVE  /\ found' \in Seq(Dirs) /\ Discovery!IsInjective(found')
         /\ Discovery!ToSet(found') =
              IF dir \in world.board THEN Discovery!ToSet(found) \cup {dir} ELSE Discovery!ToSet(found)
<1>1. CASE dir \in world.board /\ dir \notin Discovery!ToSet(found)
  <2>1. found' = Append(found, dir)
    BY <1>1 DEF Discovery!Match
  <2>2. found' \in Seq(Dirs) /\ DOMAIN found' = 1..(Len(found) + 1) /\ DOMAIN found = 1..Len(found)
        /\ found'[Len(found) + 1] = dir /\ \A i \in DOMAIN found : found'[i] = found[i]
    BY <2>1
  <2>3. Len(found) \in Nat
    OBVIOUS
  <2>4. Discovery!IsInjective(found')
    <3> SUFFICES ASSUME NEW i \in DOMAIN found', NEW j \in DOMAIN found', found'[i] = found'[j]
                 PROVE  i = j
      BY DEF Discovery!IsInjective
    <3>1. \A k \in DOMAIN found : found[k] # dir
      BY <1>1 DEF Discovery!ToSet
    <3> QED
      BY <2>2, <2>3, <3>1 DEF Discovery!IsInjective
  <2>5. Discovery!ToSet(found') = Discovery!ToSet(found) \cup {dir}
    BY <2>2, <2>3 DEF Discovery!ToSet
  <2> QED
    BY <1>1, <2>2, <2>4, <2>5
<1>2. CASE ~ (dir \in world.board /\ dir \notin Discovery!ToSet(found))
  <2>1. found' = found
    BY <1>2 DEF Discovery!Match
  <2>2. dir \in world.board => Discovery!ToSet(found) \cup {dir} = Discovery!ToSet(found)
    BY <1>2
  <2> QED
    BY <2>1, <2>2
<1> QED
  BY <1>1, <1>2

\* A call, and the calls of a chain.
LEMMA FrameIs ==
  ASSUME NEW st, Chain(st)
  PROVE  /\ st \in Seq(Frame) /\ Len(st) \in Nat /\ DOMAIN st = 1..Len(st)
         /\ \A i \in 1..Len(st) :
              /\ st[i] \in Frame
              /\ st[i].dir \in Dirs /\ st[i].depth \in Nat /\ st[i].left \in Seq(Discovery!Entry)
<1>1. st \in Seq(Frame) /\ Len(st) \in Nat /\ DOMAIN st = 1..Len(st)
  BY DEF Chain
<1>2. ASSUME NEW i \in 1..Len(st)
      PROVE  st[i] \in Frame
  BY <1>1
<1>3. \A f \in Frame : f.dir \in Dirs /\ f.depth \in Nat /\ f.left \in Seq(Discovery!Entry)
  BY DEF Frame
<1> QED
  BY <1>1, <1>2, <1>3

\* No more calls are open than there are directories.
LEMMA ChainBounded ==
  ASSUME scan \in Options, NEW st, Chain(st)
  PROVE  Len(st) \in Nat /\ Len(st) <= Cardinality(Dirs) /\ Len(st) <= Discovery!Bound + 1
<1>1. /\ st \in Seq(Frame) /\ Len(st) \in Nat /\ DOMAIN st = 1..Len(st)
      /\ \A i \in 1..Len(st) : st[i].dir \in Dirs
  BY FrameIs
<1> DEFINE f == [i \in 1..Len(st) |-> st[i].dir]
<1>2. f \in [1..Len(st) -> Dirs]
  BY <1>1
<1>3. IsFiniteSet(1..Len(st)) /\ Cardinality(1..Len(st)) = Len(st)
  BY <1>1, FS_Interval
<1>4. Len(st) <= Cardinality(Dirs)
  <2> SUFFICES ASSUME Cardinality(Dirs) < Len(st)
               PROVE  FALSE
    BY <1>1, OptionIs
  <2>1. Cardinality(Dirs) < Cardinality(1..Len(st))
    BY <1>3
  <2> HIDE DEF f
  <2>2. PICK x, y \in 1..Len(st) : x # y /\ f[x] = f[y]
    BY <1>2, <1>3, <2>1, OptionIs, FS_PigeonHole
  <2>3. st[x].dir = st[y].dir
    BY <2>2 DEF f
  <2>4. x < y \/ y < x
    BY <2>2
  <2> QED
    BY <1>1, <2>2, <2>3, <2>4 DEF Chain
<1>5. scan.depth > 0 /\ Len(st) > 0 => Len(st) - 1 <= scan.depth
  <2> SUFFICES ASSUME scan.depth > 0, Len(st) > 0
               PROVE  Len(st) - 1 <= scan.depth
    OBVIOUS
  <2>1. Len(st) \in DOMAIN st
    BY <1>1
  <2> QED
    BY <2>1 DEF Chain
<1> QED
  BY <1>1, <1>4, <1>5, OptionIs

\* The call in progress with one entry less ahead of it.
LEMMA RestIs ==
  ASSUME Chain(stack), stack # <<>>,
         NEW rest, rest = Append(Discovery!Front(stack), Discovery!Passed(Discovery!Last(stack))),
         Discovery!Last(stack).left # <<>>
  PROVE  /\ Chain(rest) /\ Len(rest) = Len(stack) /\ Len(stack) \in Nat /\ Len(stack) > 0
         /\ \A i \in 1..Len(stack) : rest[i].dir = stack[i].dir
         /\ \A i \in 1..(Len(stack) - 1) : rest[i] = stack[i]
         /\ Discovery!ToSet(stack[Len(stack)].left) =
              {Head(stack[Len(stack)].left)} \cup Discovery!ToSet(rest[Len(stack)].left)
<1> DEFINE n   == Len(stack)
           top == stack[n]
           new == [top EXCEPT !.left = Tail(@)]
<1>1. stack \in Seq(Frame) /\ n \in Nat /\ n > 0 /\ DOMAIN stack = 1..n
  <2>1. stack \in Seq(Frame) /\ Len(stack) \in Nat /\ DOMAIN stack = 1..Len(stack)
    BY FrameIs
  <2> QED
    BY <2>1
<1>2. top \in Frame /\ top.left \in Seq(Discovery!Entry) /\ top.left # <<>>
  <2>1. n \in 1..Len(stack)
    BY <1>1
  <2>2. top.left # <<>>
    BY DEF Discovery!Last
  <2> QED
    BY <2>1, <2>2, FrameIs
<1>3. new \in Frame /\ new.dir = top.dir /\ new.depth = top.depth /\ new.left = Tail(top.left)
  <2> HIDE DEF top
  <2>1. Tail(top.left) \in Seq(Discovery!Entry)
    BY <1>2
  <2>2. \A f \in Frame : \A l \in Seq(Discovery!Entry) :
          LET g == [f EXCEPT !.left = l]
          IN  g \in Frame /\ g.dir = f.dir /\ g.depth = f.depth /\ g.left = l
    BY DEF Frame
  <2>3. new = [top EXCEPT !.left = Tail(top.left)]
    BY DEF new
  <2> HIDE DEF new
  <2> QED
    BY <1>2, <2>1, <2>2, <2>3
<1>4. rest = Append(SubSeq(stack, 1, n - 1), new)
  BY DEF Discovery!Front, Discovery!Last, Discovery!Passed
<1>5. Discovery!ToSet(top.left) = {Head(top.left)} \cup Discovery!ToSet(Tail(top.left))
  BY <1>2, HeadAndTail
<1> HIDE DEF new, top
<1>6. /\ rest \in Seq(Frame) /\ Len(rest) = n /\ DOMAIN rest = 1..n /\ rest[n] = new
      /\ \A i \in 1..(n - 1) : rest[i] = stack[i]
  <2>1. SubSeq(stack, 1, n - 1) \in Seq(Frame) /\ Len(SubSeq(stack, 1, n - 1)) = n - 1
        /\ \A i \in 1..(n - 1) : SubSeq(stack, 1, n - 1)[i] = stack[i]
    BY <1>1
  <2> DEFINE t == SubSeq(stack, 1, n - 1)
  <2>2. t \in Seq(Frame) /\ Len(t) = n - 1 /\ rest = Append(t, new)
    BY <1>4, <2>1
  <2>3. \A i \in 1..(n - 1) : t[i] = stack[i]
    BY <2>1
  <2> HIDE DEF t
  <2>4. /\ rest \in Seq(Frame) /\ Len(rest) = n /\ DOMAIN rest = 1..n /\ rest[n] = new
        /\ \A i \in 1..(n - 1) : rest[i] = t[i]
    <3>1. new \in Frame
      BY <1>3
    <3>2. (n - 1) + 1 = n
      BY <1>1
    <3> QED
      BY <2>2, <3>1, <3>2, AppendIs
  <2> QED
    BY <2>3, <2>4
<1>7. \A i \in 1..n : rest[i].dir = stack[i].dir /\ rest[i].depth = stack[i].depth
  BY <1>3, <1>6 DEF top
<1>8. \A i \in 1..n : Discovery!ToSet(rest[i].left) \subseteq Discovery!ToSet(stack[i].left)
  BY <1>3, <1>5, <1>6 DEF top
<1>9. Chain(rest)
  <2>1. \A i \in 1..n : Discovery!ToSet(rest[i].left) \subseteq Reads(rest[i].dir)
    BY <1>1, <1>7, <1>8 DEF Chain
  <2>2. \A i \in 1..n : /\ rest[i].depth = i - 1 /\ rest[i].dir \notin world.unreadable
                        /\ scan.depth > 0 => i - 1 <= scan.depth
    BY <1>1, <1>7 DEF Chain
  <2>3. ASSUME NEW i \in 1..n, NEW j \in 1..n, i < j
        PROVE  /\ rest[i].dir # rest[j].dir
               /\ ~scan.follow => \A rank \in [Dirs -> Nat] : Ranks(rank) => rank[rest[i].dir] < rank[rest[j].dir]
    <3>1. rest[i].dir = stack[i].dir /\ rest[j].dir = stack[j].dir
      BY <1>7
    <3>2. /\ stack[i].dir # stack[j].dir
          /\ ~scan.follow => \A rank \in [Dirs -> Nat] : Ranks(rank) => rank[stack[i].dir] < rank[stack[j].dir]
      BY <1>1, <2>3 DEF Chain
    <3> QED
      BY <3>1, <3>2
  <2> QED
    BY <1>6, <2>1, <2>2, <2>3 DEF Chain
<1> QED
  BY <1>1, <1>3, <1>5, <1>6, <1>7, <1>9 DEF top

\* What a directory holds.
LEMMA ReadsIs ==
  ASSUME world \in Worlds, NEW d \in Dirs, NEW e \in Reads(d)
  PROVE  e \in Discovery!Entry /\ e.to \in Dirs
<1>1. world.entries[d] \in Seq(Discovery!Entry)
  BY WorldIs
<1>2. e \in Discovery!Entry
  BY <1>1 DEF Reads, Discovery!ToSet
<1> QED
  BY <1>2 DEF Discovery!Entry

\* Without links an entry leads further down than all the calls above it.
LEMMA EntryGoesDown ==
  ASSUME world \in Worlds, NEW st, Chain(st), Len(st) > 0, NEW e \in Reads(st[Len(st)].dir),
         Discovery!Eligible(e), ~scan.follow
  PROVE  \A rank \in [Dirs -> Nat] : Ranks(rank) => \A i \in 1..Len(st) : rank[st[i].dir] < rank[e.to]
<1> SUFFICES ASSUME NEW rank \in [Dirs -> Nat], Ranks(rank), NEW i \in 1..Len(st)
             PROVE  rank[st[i].dir] < rank[e.to]
  OBVIOUS
<1> DEFINE n == Len(st)
<1>1. /\ st \in Seq(Frame) /\ n \in Nat /\ DOMAIN st = 1..n
      /\ \A k \in 1..n : st[k].dir \in Dirs
  BY FrameIs
<1>2. n \in 1..n /\ (i = n \/ i < n)
  <2>1. n > 0 /\ i \in 1..n
    OBVIOUS
  <2> HIDE DEF n
  <2> QED
    BY <1>1, <2>1
<1>3. e.to \in Dirs
  BY <1>1, <1>2, ReadsIs
<1>4. ~e.link
  BY DEF Discovery!Eligible
<1>5. rank[st[n].dir] < rank[e.to]
  BY <1>1, <1>2, <1>4 DEF Ranks
<1>6. i < n => rank[st[i].dir] < rank[st[n].dir]
  BY <1>1, <1>2 DEF Chain
<1>7. rank[st[i].dir] \in Nat /\ rank[st[n].dir] \in Nat /\ rank[e.to] \in Nat
  BY <1>1, <1>2, <1>3
<1> QED
  BY <1>2, <1>5, <1>6, <1>7

\* A call below a chain of others.
LEMMA CallIs ==
  ASSUME world \in Worlds, scan \in Options, NEW st, Chain(st), NEW dir \in Dirs,
         dir \notin world.unreadable, scan.depth > 0 => Len(st) <= scan.depth,
         \A i \in 1..Len(st) : st[i].dir # dir,
         ~scan.follow => \A rank \in [Dirs -> Nat] : Ranks(rank) => \A i \in 1..Len(st) : rank[st[i].dir] < rank[dir],
         NEW call, call = [dir |-> dir, depth |-> Len(st), left |-> world.entries[dir]]
  PROVE  Chain(Append(st, call))
<1> DEFINE n == Len(st)
           t == Append(st, call)
<1>1. /\ st \in Seq(Frame) /\ n \in Nat /\ DOMAIN st = 1..n
  BY FrameIs
<1>2. call \in Frame /\ call.dir = dir /\ call.depth = n /\ Discovery!ToSet(call.left) = Reads(dir)
  <2>1. world.entries[dir] \in Seq(Discovery!Entry)
    BY WorldIs
  <2> QED
    BY <1>1, <2>1 DEF Frame, Reads
<1>3. /\ t \in Seq(Frame) /\ Len(t) = n + 1 /\ DOMAIN t = 1..(n + 1)
      /\ t[n + 1] = call /\ \A i \in 1..n : t[i] = st[i]
  BY <1>1, <1>2, AppendIs
<1> HIDE DEF t
<1>4. ASSUME NEW i \in 1..(n + 1)
      PROVE  /\ t[i].depth = i - 1 /\ t[i].dir \notin world.unreadable
             /\ Discovery!ToSet(t[i].left) \subseteq Reads(t[i].dir)
             /\ scan.depth > 0 => i - 1 <= scan.depth
  <2>1. CASE i = n + 1
    BY <1>1, <1>2, <1>3, <2>1
  <2>2. CASE i # n + 1
    <3>1. i \in 1..n
      BY <1>1, <2>2
    <3> QED
      BY <1>1, <1>3, <3>1 DEF Chain
  <2> QED
    BY <2>1, <2>2
<1>5. ASSUME NEW i \in 1..(n + 1), NEW j \in 1..(n + 1), i < j
      PROVE  /\ t[i].dir # t[j].dir
             /\ ~scan.follow => \A rank \in [Dirs -> Nat] : Ranks(rank) => rank[t[i].dir] < rank[t[j].dir]
  <2>1. i \in 1..n /\ t[i] = st[i]
    BY <1>1, <1>3, <1>5
  <2>2. CASE j = n + 1
    BY <1>2, <1>3, <2>1, <2>2
  <2>3. CASE j # n + 1
    <3>1. j \in 1..n
      BY <1>1, <2>3
    <3>2. t[j] = st[j] /\ i \in DOMAIN st /\ j \in DOMAIN st
      BY <1>1, <1>3, <2>1, <3>1
    <3>3. /\ st[i].dir # st[j].dir
          /\ ~scan.follow => \A rank \in [Dirs -> Nat] : Ranks(rank) => rank[st[i].dir] < rank[st[j].dir]
      BY <1>5, <3>2 DEF Chain
    <3> QED
      BY <2>1, <3>2, <3>3
  <2> QED
    BY <2>2, <2>3
<1> QED
  BY <1>3, <1>4, <1>5 DEF Chain, t

\* What becomes of a directory that walk() is called with: it is passed over,
\* counted, or opened, no deeper than the bound.
LEMMA DescendIs ==
  ASSUME world \in Worlds, scan \in Options, NEW above, Chain(above), NEW dir \in Dirs,
         Discovery!Descend(dir, Len(above), above), partial \in BOOLEAN,
         ~scan.follow => \A rank \in [Dirs -> Nat] :
           Ranks(rank) => \A i \in 1..Len(above) : rank[above[i].dir] < rank[dir],
         NEW call, call = [dir |-> dir, depth |-> Len(above), left |-> world.entries[dir]]
  PROVE  /\ Chain(stack') /\ partial' \in BOOLEAN /\ (partial => partial')
         /\ \/ /\ stack' = above /\ skipped' = skipped
               /\ ~partial' => (scan.depth > 0 /\ Len(above) > scan.depth) \/ \E i \in 1..Len(above) : above[i].dir = dir
            \/ /\ Len(above) <= Discovery!Bound /\ dir \in world.unreadable
               /\ stack' = above /\ skipped' = skipped \cup {dir}
            \/ /\ Len(above) <= Discovery!Bound /\ dir \notin world.unreadable
               /\ stack' = Append(above, call) /\ skipped' = skipped
<1> DEFINE n == Len(above)
<1>1. /\ above \in Seq(Frame) /\ n \in Nat /\ DOMAIN above = 1..n
      /\ \A i \in 1..n : above[i].dir \in Dirs
  BY FrameIs
<1>2. Discovery!TooDeep(n) <=> scan.depth > 0 /\ n > scan.depth
  BY DEF Discovery!TooDeep
<1>3. Discovery!Cycle(dir, above) <=> \E i \in 1..n : above[i].dir = dir
  BY <1>1 DEF Discovery!Cycle
<1>4. Discovery!Stop \in BOOLEAN
  BY DEF Discovery!Stop
<1>5. CASE Discovery!Stop \/ Discovery!TooDeep(n) \/ (scan.follow /\ Discovery!Cycle(dir, above))
  <2>1. stack' = above /\ skipped' = skipped /\ partial' = (partial \/ Discovery!Stop)
    BY <1>5 DEF Discovery!Descend
  <2> HIDE DEF n
  <2> QED
    BY <1>2, <1>3, <1>4, <1>5, <2>1 DEF n
<1>6. CASE ~ (Discovery!Stop \/ Discovery!TooDeep(n) \/ (scan.follow /\ Discovery!Cycle(dir, above)))
  <2>1. n <= Discovery!Bound /\ (scan.depth > 0 => n <= scan.depth)
    BY <1>1, <1>2, <1>6, ChainBounded, OptionIs
  <2>2. CASE dir \in world.unreadable
    <3>1. stack' = above /\ skipped' = skipped \cup {dir} /\ partial' = partial
      BY <1>6, <2>2 DEF Discovery!Descend, Discovery!Counted
    <3> QED
      BY <2>1, <2>2, <3>1
  <2>3. CASE dir \notin world.unreadable
    <3>1. stack' = Append(above, call) /\ skipped' = skipped /\ partial' = partial
      BY <1>6, <2>3 DEF Discovery!Descend
    <3>2. \A i \in 1..n : above[i].dir # dir
      <4>1. CASE scan.follow
        BY <1>3, <1>6, <4>1
      <4>2. CASE ~scan.follow
        <5>1. PICK rank \in [Dirs -> Nat] : Ranks(rank)
          BY WorldIs DEF Ranks, Reads
        <5>2. \A i \in 1..n : rank[above[i].dir] < rank[dir]
          BY <4>2, <5>1
        <5> QED
          BY <1>1, <5>1, <5>2
      <4> QED
        BY <4>1, <4>2
    <3>3. Chain(Append(above, call))
      BY <2>1, <2>3, <3>2, CallIs
    <3> QED
      BY <2>1, <2>3, <3>1, <3>3
  <2> QED
    BY <2>2, <2>3
<1> QED
  BY <1>5, <1>6

-----------------------------------------------------------------------------
(* The steps of the walk.                                                  *)

Halts == UNCHANGED <<stack, found, skipped>> /\ roots' \in {roots, <<>>} /\ (partial' = TRUE \/ UNCHANGED <<roots, partial>>)

TakesRoot(r) ==
  /\ stack = <<>> /\ roots # <<>> /\ r = Head(roots) /\ roots' = Tail(roots)
  /\ IF r.named /\ r.dir \in world.board
     THEN Discovery!Match(r.dir) /\ UNCHANGED <<stack, skipped, partial>>
     ELSE Discovery!Descend(r.dir, Len(stack), stack) /\ UNCHANGED found

Top == stack[Len(stack)]

Returns ==
  /\ stack # <<>> /\ stack' = Discovery!Front(stack) /\ UNCHANGED <<roots, found, skipped>>
  /\ partial' = TRUE \/ (Top.left = <<>> /\ UNCHANGED partial)

TakesEntry(e, rest) ==
  /\ stack # <<>> /\ Top.left # <<>> /\ e = Head(Top.left) /\ UNCHANGED roots
  /\ rest = Append(Discovery!Front(stack), Discovery!Passed(Discovery!Last(stack)))
  /\ \/ ~Discovery!Eligible(e) /\ stack' = rest /\ UNCHANGED <<found, skipped, partial>>
     \/ /\ Discovery!Eligible(e) /\ e.name.named /\ Discovery!Match(e.to)
        /\ stack' = rest /\ UNCHANGED <<skipped, partial>>
     \/ /\ Discovery!Eligible(e) /\ ~e.name.named /\ Discovery!Descend(e.to, Len(rest), rest)
        /\ UNCHANGED found

Steps == Halts \/ (\E r : TakesRoot(r)) \/ Returns \/ (\E e, rest : TakesEntry(e, rest))

LEMMA StepIs ==
  ASSUME Scanning, Chain(stack), [Discovery!Next]_walk
  PROVE  UNCHANGED <<world, scan>> /\ late' \in BOOLEAN /\ Steps
<1>1. /\ stack \in Seq(Frame) /\ Len(stack) \in Nat /\ DOMAIN stack = 1..Len(stack)
      /\ \A i \in 1..Len(stack) : stack[i].depth \in Nat
  BY FrameIs
<1>2. CASE UNCHANGED walk
  BY <1>2 DEF walk, Scanning, Steps, Halts
<1>3. CASE Discovery!Deadline
  BY <1>3 DEF Discovery!Deadline, Steps, Halts
<1>4. CASE Discovery!Root
  <2>1. UNCHANGED <<world, scan, late>> /\ stack = <<>> /\ roots # <<>>
    BY <1>4 DEF Discovery!Root
  <2>2. CASE Discovery!Stop
    BY <1>4, <2>1, <2>2 DEF Discovery!Root, Scanning, Steps, Halts
  <2>3. CASE ~Discovery!Stop
    <3>1. Len(stack) = 0
      BY <2>1
    <3>2. TakesRoot(Head(roots))
      <4>1. CASE Head(roots).named /\ Head(roots).dir \in world.board
        BY <1>4, <2>1, <2>3, <4>1 DEF Discovery!Root, TakesRoot
      <4>2. CASE ~ (Head(roots).named /\ Head(roots).dir \in world.board)
        <5>1. Discovery!Descend(Head(roots).dir, 0, <<>>) /\ UNCHANGED found /\ roots' = Tail(roots)
          BY <1>4, <2>3, <4>2 DEF Discovery!Root
        <5>2. Discovery!Descend(Head(roots).dir, Len(stack), stack)
          BY <2>1, <3>1, <5>1
        <5> QED
          BY <2>1, <4>2, <5>1, <5>2 DEF TakesRoot
      <4> QED
        BY <4>1, <4>2
    <3> QED
      BY <2>1, <3>2 DEF Scanning, Steps
  <2> QED
    BY <2>2, <2>3
<1>5. CASE Discovery!Walk
  <2>1. UNCHANGED <<world, scan, late, roots>> /\ stack # <<>>
    BY <1>5 DEF Discovery!Walk
  <2>2. Discovery!Last(stack) = Top /\ Len(stack) \in 1..Len(stack)
    BY <1>1, <2>1 DEF Discovery!Last, Top
  <2>3. CASE Top.left = <<>>
    <3>1. stack' = Discovery!Front(stack) /\ UNCHANGED <<found, skipped, partial>>
      BY <1>5, <2>2, <2>3 DEF Discovery!Walk, Discovery!Leave
    <3> QED
      BY <2>1, <2>3, <3>1 DEF Scanning, Steps, Returns
  <2>4. CASE Top.left # <<>> /\ Discovery!Stop
    <3>1. stack' = Discovery!Front(stack) /\ UNCHANGED <<found, skipped>> /\ partial' = TRUE
      BY <1>5, <2>2, <2>4 DEF Discovery!Walk, Discovery!Leave
    <3> QED
      BY <2>1, <3>1 DEF Scanning, Steps, Returns
  <2>5. CASE Top.left # <<>> /\ ~Discovery!Stop
    <3> DEFINE e    == Head(Top.left)
               rest == Append(Discovery!Front(stack), Discovery!Passed(Discovery!Last(stack)))
    <3>1. Len(rest) = Top.depth + 1
      <4>1. Len(rest) = Len(stack)
        BY <2>1, <2>2, <2>5, RestIs
      <4>2. Top.depth = Len(stack) - 1
        BY <1>1, <2>2 DEF Chain, Top
      <4> HIDE DEF rest
      <4> QED
        BY <1>1, <4>1, <4>2
    <3>2. TakesEntry(e, rest)
      <4>1. CASE ~Discovery!Eligible(e)
        <5>1. stack' = rest /\ UNCHANGED <<found, skipped, partial>>
          BY <1>5, <2>2, <2>5, <4>1 DEF Discovery!Walk
        <5> QED
          BY <2>1, <2>5, <4>1, <5>1 DEF TakesEntry
      <4>2. CASE Discovery!Eligible(e) /\ e.name.named
        <5>1. Discovery!Match(e.to) /\ stack' = rest /\ UNCHANGED <<skipped, partial>>
          BY <1>5, <2>2, <2>5, <4>2 DEF Discovery!Walk
        <5> QED
          BY <2>1, <2>5, <4>2, <5>1 DEF TakesEntry
      <4>3. CASE Discovery!Eligible(e) /\ ~e.name.named
        <5>1. Discovery!Descend(e.to, Top.depth + 1, rest) /\ UNCHANGED found
          BY <1>5, <2>2, <2>5, <4>3 DEF Discovery!Walk
        <5>2. Discovery!Descend(e.to, Len(rest), rest)
          BY <3>1, <5>1
        <5> QED
          BY <2>1, <2>5, <4>3, <5>1, <5>2 DEF TakesEntry
      <4> QED
        BY <4>1, <4>2, <4>3
    <3> HIDE DEF e, rest
    <3> QED
      BY <2>1, <3>2 DEF Scanning, Steps
  <2> QED
    BY <2>3, <2>4, <2>5
<1> QED
  BY <1>2, <1>3, <1>4, <1>5 DEF Discovery!Next

\* The root that is taken, and what is left of them.
LEMMA RootIs ==
  ASSUME Scanning, NEW r, TakesRoot(r)
  PROVE  /\ r \in Discovery!ToSet(world.roots) /\ r.dir \in Dirs /\ r.named \in BOOLEAN
         /\ roots' \in Seq(Discovery!ToSet(world.roots))
         /\ Discovery!ToSet(roots) = {r} \cup Discovery!ToSet(roots')
<1> DEFINE S == Discovery!ToSet(world.roots)
<1>1. roots \in Seq(S) /\ roots # <<>> /\ r = Head(roots) /\ roots' = Tail(roots) /\ world.roots \in Seq([dir : Dirs, named : BOOLEAN])
  BY WorldIs DEF Scanning, TakesRoot
<1>2. S \subseteq [dir : Dirs, named : BOOLEAN]
  <2> DEFINE R == [dir : Dirs, named : BOOLEAN]
             s == world.roots
  <2>1. s \in Seq(R)
    BY <1>1
  <2> HIDE DEF R, s
  <2>2. \A i \in DOMAIN s : s[i] \in R
    BY <2>1
  <2>3. \A i \in DOMAIN world.roots : world.roots[i] \in [dir : Dirs, named : BOOLEAN]
    BY <2>2 DEF R, s
  <2> QED
    BY <2>3, Zenon DEF Discovery!ToSet
<1> HIDE DEF S
<1>3. /\ r \in S /\ Tail(roots) \in Seq(S) /\ Len(roots) \in Nat /\ Len(roots) > 0 /\ r = roots[1]
      /\ DOMAIN roots = 1..Len(roots) /\ DOMAIN Tail(roots) = 1..(Len(roots) - 1)
      /\ \A i \in 1..(Len(roots) - 1) : Tail(roots)[i] = roots[i + 1]
  BY <1>1
<1>4. Discovery!ToSet(roots) = {r} \cup Discovery!ToSet(Tail(roots))
  BY <1>1, HeadAndTail DEF S
<1> QED
  BY <1>1, <1>2, <1>3, <1>4 DEF S

\* The chain of calls is one at every step, and what it finds is found once.
LEMMA SameChain ==
  ASSUME UNCHANGED <<world, scan>>, Chain(stack')
  PROVE  Chain(stack)'
<1>1. \A rank : Ranks(rank)' <=> Ranks(rank)
  BY DEF Ranks, Reads
<1>2. \A d : Reads(d)' = Reads(d)
  BY DEF Reads
<1> QED
  BY <1>1, <1>2 DEF Chain

LEMMA FrontIs ==
  ASSUME NEW st, Chain(st), st # <<>>
  PROVE  /\ Chain(Discovery!Front(st)) /\ Len(st) \in Nat /\ Len(st) > 0
         /\ DOMAIN Discovery!Front(st) = 1..(Len(st) - 1)
         /\ \A i \in 1..(Len(st) - 1) : Discovery!Front(st)[i] = st[i]
<1> DEFINE n == Len(st)
           t == Discovery!Front(st)
<1>1. st \in Seq(Frame) /\ n \in Nat /\ DOMAIN st = 1..n /\ n > 0
  <2>1. st \in Seq(Frame) /\ Len(st) \in Nat /\ DOMAIN st = 1..Len(st)
    BY FrameIs
  <2> QED
    BY <2>1
<1>2. t \in Seq(Frame) /\ DOMAIN t = 1..(n - 1) /\ \A i \in 1..(n - 1) : t[i] = st[i]
  BY <1>1 DEF Discovery!Front
<1> HIDE DEF t
<1>3. \A i \in 1..(n - 1) : i \in DOMAIN st
  BY <1>1
<1>4. Chain(t)
  BY <1>2, <1>3 DEF Chain
<1> QED
  BY <1>1, <1>2, <1>4 DEF t

\* The entry that is taken, and the calls with it taken.
LEMMA EntryIs ==
  ASSUME Scanning, Chain(stack), NEW e, NEW rest, TakesEntry(e, rest)
  PROVE  /\ Chain(rest) /\ Len(rest) = Len(stack) /\ Len(stack) \in Nat /\ Len(stack) > 0
         /\ rest # <<>> /\ DOMAIN rest = 1..Len(stack) /\ DOMAIN stack = 1..Len(stack)
         /\ \A i \in 1..Len(stack) : rest[i].dir = stack[i].dir
         /\ \A i \in 1..(Len(stack) - 1) : rest[i] = stack[i]
         /\ Discovery!ToSet(Top.left) = {e} \cup Discovery!ToSet(rest[Len(stack)].left)
         /\ Top.dir \in Dirs \ world.unreadable /\ e \in Reads(Top.dir) /\ e.to \in Dirs
         /\ Discovery!Eligible(e) /\ ~scan.follow => \A rank \in [Dirs -> Nat] :
              Ranks(rank) => \A i \in 1..Len(rest) : rank[rest[i].dir] < rank[e.to]
<1>1. /\ stack # <<>> /\ Top.left # <<>> /\ e = Head(Top.left)
      /\ rest = Append(Discovery!Front(stack), Discovery!Passed(Discovery!Last(stack)))
  BY DEF TakesEntry
<1>2. Discovery!Last(stack).left # <<>>
  BY <1>1 DEF Top, Discovery!Last
<1>3. /\ Chain(rest) /\ Len(rest) = Len(stack) /\ Len(stack) \in Nat /\ Len(stack) > 0
      /\ \A i \in 1..Len(stack) : rest[i].dir = stack[i].dir
      /\ \A i \in 1..(Len(stack) - 1) : rest[i] = stack[i]
      /\ Discovery!ToSet(stack[Len(stack)].left) =
           {Head(stack[Len(stack)].left)} \cup Discovery!ToSet(rest[Len(stack)].left)
  BY <1>1, <1>2, RestIs
<1>4. /\ DOMAIN rest = 1..Len(rest) /\ rest \in Seq(Frame) /\ DOMAIN stack = 1..Len(stack)
      /\ \A i \in 1..Len(stack) : stack[i].dir \in Dirs
  BY <1>3, FrameIs
<1>5. Len(stack) \in 1..Len(stack)
  BY <1>3
<1>6. /\ Top.dir \in Dirs /\ Top.dir \notin world.unreadable
      /\ Discovery!ToSet(Top.left) \subseteq Reads(Top.dir)
  BY <1>4, <1>5 DEF Chain, Top
<1>7. Discovery!ToSet(Top.left) = {e} \cup Discovery!ToSet(rest[Len(stack)].left)
  BY <1>1, <1>3 DEF Top
<1>8. e \in Reads(Top.dir)
  BY <1>6, <1>7
<1>9. e.to \in Dirs
  BY <1>6, <1>8, ReadsIs DEF Scanning
<1>10. e \in Reads(rest[Len(rest)].dir)
  BY <1>3, <1>5, <1>8 DEF Top
<1>11. Discovery!Eligible(e) /\ ~scan.follow => \A rank \in [Dirs -> Nat] :
         Ranks(rank) => \A i \in 1..Len(rest) : rank[rest[i].dir] < rank[e.to]
  BY <1>3, <1>10, EntryGoesDown DEF Scanning
<1>12. rest # <<>>
  BY <1>3
<1> QED
  BY <1>3, <1>4, <1>6, <1>7, <1>8, <1>9, <1>11, <1>12

LEMMA NextScanning ==
  ASSUME Scanning, Chain(stack), [Discovery!Next]_walk
  PROVE  Scanning' /\ Chain(stack)' /\ (partial => partial')
<1>1. UNCHANGED <<world, scan>> /\ late' \in BOOLEAN /\ Steps
  BY StepIs
<1>2. /\ world \in Worlds /\ scan \in Options /\ partial \in BOOLEAN
      /\ found \in Seq(Dirs) /\ Discovery!IsInjective(found) /\ skipped \in SUBSET Dirs
      /\ roots \in Seq(Discovery!ToSet(world.roots))
  BY DEF Scanning
<1> DEFINE Kept ==
      /\ roots' \in Seq(Discovery!ToSet(world.roots)) /\ partial' \in BOOLEAN
      /\ found' \in Seq(Dirs) /\ Discovery!IsInjective(found') /\ skipped' \in SUBSET Dirs
      /\ Chain(stack') /\ (partial => partial')
<1>3. ASSUME Halts
      PROVE  Kept
  <2>1. roots' = roots \/ roots' = <<>>
    BY <1>3 DEF Halts
  <2>2. roots' \in Seq(Discovery!ToSet(world.roots))
    <3>1. \A S : <<>> \in Seq(S)
      OBVIOUS
    <3> QED
      BY <1>2, <2>1, <3>1, Zenon
  <2>3. stack' = stack /\ found' = found /\ skipped' = skipped /\ (partial' = TRUE \/ partial' = partial)
    BY <1>3, Zenon DEF Halts
  <2>4. partial' \in BOOLEAN
    BY <1>2, <2>3
  <2>5. Chain(stack')
    BY <2>3
  <2> QED
    BY <1>2, <2>2, <2>3, <2>4, <2>5
<1>4. ASSUME NEW r, TakesRoot(r)
      PROVE  Kept
  <2>1. r.dir \in Dirs /\ roots' \in Seq(Discovery!ToSet(world.roots))
    BY <1>4, RootIs
  <2>2. CASE r.named /\ r.dir \in world.board
    <3>1. Discovery!Match(r.dir) /\ UNCHANGED <<stack, skipped, partial>>
      BY <1>4, <2>2 DEF TakesRoot
    <3>2. found' \in Seq(Dirs) /\ Discovery!IsInjective(found')
      BY <1>2, <2>1, <3>1, MatchIs
    <3> QED
      BY <1>2, <2>1, <3>1, <3>2
  <2>3. CASE ~ (r.named /\ r.dir \in world.board)
    <3>1. Discovery!Descend(r.dir, Len(stack), stack) /\ UNCHANGED found /\ stack = <<>>
      BY <1>4, <2>3 DEF TakesRoot
    <3>2. \A rank : \A i \in 1..Len(stack) : rank[stack[i].dir] < rank[r.dir]
      BY <3>1
    <3>3. Chain(stack') /\ partial' \in BOOLEAN /\ (partial => partial') /\ (skipped' = skipped \/ skipped' = skipped \cup {r.dir})
      BY <1>2, <2>1, <3>1, <3>2, DescendIs
    <3> QED
      BY <1>2, <2>1, <3>1, <3>3
  <2> QED
    BY <2>2, <2>3
<1>5. ASSUME Returns
      PROVE  Kept
  <2>1. Chain(Discovery!Front(stack))
    BY <1>5, FrontIs DEF Returns
  <2>2. /\ stack' = Discovery!Front(stack) /\ roots' = roots /\ found' = found /\ skipped' = skipped
        /\ partial' = TRUE \/ partial' = partial
    BY <1>5, Zenon DEF Returns
  <2>3. partial' \in BOOLEAN
    BY <1>2, <2>2
  <2> QED
    BY <1>2, <2>1, <2>2, <2>3
<1>6. ASSUME NEW e, NEW rest, TakesEntry(e, rest)
      PROVE  Kept
  <2>1. /\ Chain(rest) /\ e.to \in Dirs
        /\ Discovery!Eligible(e) /\ ~scan.follow => \A rank \in [Dirs -> Nat] :
             Ranks(rank) => \A i \in 1..Len(rest) : rank[rest[i].dir] < rank[e.to]
    BY <1>6, EntryIs
  <2>2. CASE ~Discovery!Eligible(e) /\ stack' = rest /\ UNCHANGED <<found, skipped, partial>>
    BY <1>2, <1>6, <2>1, <2>2 DEF TakesEntry
  <2>3. CASE Discovery!Match(e.to) /\ stack' = rest /\ UNCHANGED <<skipped, partial>>
    <3>1. found' \in Seq(Dirs) /\ Discovery!IsInjective(found')
      BY <1>2, <2>1, <2>3, MatchIs
    <3> QED
      BY <1>2, <1>6, <2>1, <2>3, <3>1 DEF TakesEntry
  <2>4. CASE Discovery!Eligible(e) /\ Discovery!Descend(e.to, Len(rest), rest) /\ UNCHANGED found
    <3>1. Chain(stack') /\ partial' \in BOOLEAN /\ (partial => partial') /\ (skipped' = skipped \/ skipped' = skipped \cup {e.to})
      BY <1>2, <2>1, <2>4, DescendIs
    <3> QED
      BY <1>2, <1>6, <2>1, <2>4, <3>1 DEF TakesEntry
  <2> QED
    BY <1>6, <2>2, <2>3, <2>4 DEF TakesEntry
<1> HIDE DEF Kept
<1>7. Kept
  <2>1. Halts \/ (\E r : TakesRoot(r)) \/ Returns \/ \E e, rest : TakesEntry(e, rest)
    BY <1>1 DEF Steps
  <2> QED
    BY <1>3, <1>4, <1>5, <1>6, <2>1
<1> USE DEF Kept
<1>8. Scanning'
  BY <1>1, <1>2, <1>7 DEF Scanning
<1> QED
  BY <1>1, <1>7, <1>8, SameChain

-----------------------------------------------------------------------------
(* Nothing is found that is not within the bounds.                         *)

LEMMA SameWorld ==
  ASSUME UNCHANGED <<world, scan>>
  PROVE  /\ Levels' = Levels /\ Discovery!Bound' = Discovery!Bound
         /\ Discovery!RootMatches' = Discovery!RootMatches
         /\ \A e : Discovery!Eligible(e)' <=> Discovery!Eligible(e)
         /\ \A W : Seen(W)' = Seen(W)
<1>1. Discovery!Bound' = Discovery!Bound
  BY DEF Discovery!Bound
<1>2. \A e : Discovery!Eligible(e)' <=> Discovery!Eligible(e)
  BY DEF Discovery!Eligible
<1>3. Discovery!RootWalks' = Discovery!RootWalks /\ Discovery!RootMatches' = Discovery!RootMatches
  BY DEF Discovery!RootWalks, Discovery!RootMatches
<1>4. \A d : Reads(d)' = Reads(d)
  BY DEF Reads
<1>5. Levels' = Levels
  BY <1>1, <1>2, <1>3, <1>4 DEF Levels
<1>6. \A W : Seen(W)' = Seen(W)
  BY <1>1, <1>2, <1>4 DEF Seen
<1> QED
  BY <1>1, <1>2, <1>3, <1>5, <1>6

\* A root is matched or walked.
LEMMA RootsAre ==
  ASSUME world \in Worlds, NEW r \in Discovery!ToSet(world.roots)
  PROVE  IF r.named /\ r.dir \in world.board
         THEN r.dir \in Discovery!RootMatches
         ELSE r.dir \in Discovery!RootWalks
<1>1. PICK i \in DOMAIN world.roots : world.roots[i] = r
  BY DEF Discovery!ToSet
<1> QED
  BY <1>1 DEF Discovery!RootMatches, Discovery!RootWalks

LEMMA LevelsAre ==
  ASSUME scan \in Options, NEW W \in Levels, NEW n \in 0..Discovery!Bound,
         NEW d \in W[n], d \notin world.unreadable, NEW e \in Reads(d), Discovery!Eligible(e)
  PROVE  IF e.name.named THEN e.to \in Seen(W) ELSE n < Discovery!Bound => e.to \in W[n + 1]
<1>1. Discovery!Bound \in Nat
  BY OptionIs
<1>2. CASE e.name.named
  <2>1. d \in W[Discovery!Bound] \ world.unreadable
    BY DEF Levels
  <2> QED
    BY <1>2, <2>1 DEF Seen
<1>3. CASE ~e.name.named
  <2>1. n < Discovery!Bound => n \in 0..(Discovery!Bound - 1)
    BY <1>1
  <2> QED
    BY <1>3, <2>1 DEF Levels
<1> QED
  BY <1>2, <1>3

\* A directory at its level is opened, or counted, within the levels.
LEMMA DescendSound ==
  ASSUME Scanning, NEW above, Chain(above), NEW dir \in Dirs,
         Discovery!Descend(dir, Len(above), above),
         ~scan.follow => \A rank \in [Dirs -> Nat] :
           Ranks(rank) => \A i \in 1..Len(above) : rank[above[i].dir] < rank[dir],
         NEW W \in Levels, Inside(W, above), Len(above) <= Discovery!Bound => dir \in W[Len(above)],
         skipped \subseteq W[Discovery!Bound] \cap world.unreadable
  PROVE  Inside(W, stack') /\ skipped' \subseteq W[Discovery!Bound] \cap world.unreadable
<1> DEFINE call == [dir |-> dir, depth |-> Len(above), left |-> world.entries[dir]]
           n == Len(above)
<1>1. /\ above \in Seq(Frame) /\ n \in Nat /\ DOMAIN above = 1..n
  BY FrameIs
<1>2. \/ stack' = above /\ skipped' = skipped
      \/ n <= Discovery!Bound /\ dir \in world.unreadable /\ stack' = above /\ skipped' = skipped \cup {dir}
      \/ n <= Discovery!Bound /\ dir \notin world.unreadable /\ stack' = Append(above, call) /\ skipped' = skipped
  BY DescendIs DEF Scanning
<1>3. n <= Discovery!Bound => W[n] \subseteq W[Discovery!Bound]
  BY <1>1, OptionIs DEF Levels, Scanning
<1>4. CASE stack' = above /\ skipped' = skipped
  BY <1>4
<1>5. CASE n <= Discovery!Bound /\ dir \in world.unreadable /\ stack' = above /\ skipped' = skipped \cup {dir}
  BY <1>3, <1>5
<1>6. CASE n <= Discovery!Bound /\ dir \notin world.unreadable /\ stack' = Append(above, call) /\ skipped' = skipped
  <2>1. call \in Frame /\ call.dir = dir
    <3>1. world.entries[dir] \in Seq(Discovery!Entry)
      BY WorldIs DEF Scanning
    <3> QED
      BY <1>1, <3>1 DEF Frame
  <2>2. DOMAIN stack' = 1..(n + 1) /\ stack'[n + 1] = call /\ \A i \in 1..n : stack'[i] = above[i]
    <3> HIDE DEF call
    <3> QED
      BY <1>1, <1>6, <2>1, AppendIs
  <2>3. ASSUME NEW i \in 1..(n + 1)
        PROVE  stack'[i].dir \in W[i - 1]
    <3>1. CASE i = n + 1
      <4>1. i - 1 = n
        BY <1>1, <3>1
      <4> QED
        BY <1>6, <2>1, <2>2, <3>1, <4>1
    <3>2. CASE i # n + 1
      <4>1. i \in 1..n
        BY <1>1, <3>2
      <4> QED
        BY <1>1, <2>2, <4>1 DEF Inside
    <3> QED
      BY <3>1, <3>2
  <2> QED
    BY <1>6, <2>2, <2>3 DEF Inside
<1> QED
  BY <1>2, <1>4, <1>5, <1>6

LEMMA NextSound ==
  ASSUME Scanning, Chain(stack), [Discovery!Next]_walk, NEW W \in Levels, Sound(W)
  PROVE  Sound(W)'
<1>1. UNCHANGED <<world, scan>> /\ Steps
  BY StepIs
<1>2. /\ world \in Worlds /\ scan \in Options /\ partial \in BOOLEAN
      /\ found \in Seq(Dirs) /\ Discovery!IsInjective(found)
  BY DEF Scanning
<1>3. /\ Inside(W, stack) /\ skipped \subseteq W[Discovery!Bound] \cap world.unreadable
      /\ Discovery!ToSet(found) \subseteq Discovery!RootMatches \cup (Seen(W) \cap world.board)
  BY DEF Sound
<1> DEFINE Kept ==
      /\ Inside(W, stack') /\ skipped' \subseteq W[Discovery!Bound] \cap world.unreadable
      /\ Discovery!ToSet(found') \subseteq Discovery!RootMatches \cup (Seen(W) \cap world.board)
<1>4. ASSUME Halts
      PROVE  Kept
  <2>1. stack' = stack /\ found' = found /\ skipped' = skipped
    BY <1>4 DEF Halts
  <2> QED
    BY <1>3, <2>1
<1>5. ASSUME NEW r, TakesRoot(r)
      PROVE  Kept
  <2>1. r \in Discovery!ToSet(world.roots) /\ r.dir \in Dirs
    BY <1>5, RootIs
  <2>2. CASE r.named /\ r.dir \in world.board
    <3>1. Discovery!Match(r.dir) /\ stack' = stack /\ skipped' = skipped
      BY <1>5, <2>2 DEF TakesRoot
    <3>2. Discovery!ToSet(found') = Discovery!ToSet(found) \cup {r.dir}
      BY <1>2, <2>1, <2>2, <3>1, MatchIs
    <3>3. r.dir \in Discovery!RootMatches
      BY <1>2, <2>1, <2>2, RootsAre
    <3> QED
      BY <1>3, <3>1, <3>2, <3>3
  <2>3. CASE ~ (r.named /\ r.dir \in world.board)
    <3>1. Discovery!Descend(r.dir, Len(stack), stack) /\ found' = found /\ stack = <<>>
      BY <1>5, <2>3 DEF TakesRoot
    <3>2. Len(stack) = 0 /\ \A rank : \A i \in 1..Len(stack) : rank[stack[i].dir] < rank[r.dir]
      BY <3>1
    <3>3. r.dir \in W[0]
      BY <1>2, <2>1, <2>3, RootsAre DEF Levels
    <3>4. Inside(W, stack') /\ skipped' \subseteq W[Discovery!Bound] \cap world.unreadable
      BY <1>3, <2>1, <3>1, <3>2, <3>3, DescendSound
    <3> QED
      BY <1>3, <3>1, <3>4
  <2> QED
    BY <2>2, <2>3
<1>6. ASSUME Returns
      PROVE  Kept
  <2>1. stack' = Discovery!Front(stack) /\ found' = found /\ skipped' = skipped /\ stack # <<>>
    BY <1>6 DEF Returns
  <2>2. /\ DOMAIN stack' = 1..(Len(stack) - 1) /\ Len(stack) \in Nat
        /\ \A i \in 1..(Len(stack) - 1) : stack'[i] = stack[i] /\ i \in DOMAIN stack
    <3>1. Len(stack) \in Nat /\ DOMAIN stack = 1..Len(stack)
      BY FrameIs
    <3> QED
      BY <2>1, <3>1, FrontIs
  <2>3. Inside(W, stack')
    BY <1>3, <2>2 DEF Inside
  <2> QED
    BY <1>3, <2>1, <2>3
<1>7. ASSUME NEW e, NEW rest, TakesEntry(e, rest)
      PROVE  Kept
  <2> DEFINE n == Len(stack)
  <2>1. /\ Chain(rest) /\ Len(rest) = n /\ n \in Nat /\ n > 0
        /\ DOMAIN rest = 1..n /\ DOMAIN stack = 1..n
        /\ \A i \in 1..n : rest[i].dir = stack[i].dir
        /\ Top.dir \in Dirs \ world.unreadable /\ e \in Reads(Top.dir) /\ e.to \in Dirs
        /\ Discovery!Eligible(e) /\ ~scan.follow => \A rank \in [Dirs -> Nat] :
             Ranks(rank) => \A i \in 1..Len(rest) : rank[rest[i].dir] < rank[e.to]
    BY <1>7, EntryIs
  <2>2. Inside(W, rest)
    BY <1>3, <2>1 DEF Inside
  <2>3. n - 1 \in 0..Discovery!Bound /\ (n - 1) + 1 = n
    BY <1>2, <2>1, ChainBounded, OptionIs
  <2>4. Top.dir \in W[n - 1]
    BY <1>3, <2>1 DEF Inside, Top
  <2>5. Discovery!Eligible(e) =>
          IF e.name.named THEN e.to \in Seen(W) ELSE n - 1 < Discovery!Bound => e.to \in W[n]
    BY <1>2, <2>1, <2>3, <2>4, LevelsAre
  <2>6. CASE stack' = rest /\ UNCHANGED <<found, skipped, partial>>
    BY <1>3, <2>2, <2>6
  <2>7. CASE Discovery!Eligible(e) /\ e.name.named /\ Discovery!Match(e.to) /\ stack' = rest /\ UNCHANGED <<skipped, partial>>
    <3>1. Discovery!ToSet(found') =
            IF e.to \in world.board THEN Discovery!ToSet(found) \cup {e.to} ELSE Discovery!ToSet(found)
      BY <1>2, <2>1, <2>7, MatchIs
    <3> QED
      BY <1>3, <2>2, <2>5, <2>7, <3>1
  <2>8. CASE Discovery!Eligible(e) /\ ~e.name.named /\ Discovery!Descend(e.to, Len(rest), rest) /\ UNCHANGED found
    <3>1. Len(rest) <= Discovery!Bound => e.to \in W[Len(rest)]
      <4>1. n <= Discovery!Bound => n - 1 < Discovery!Bound
        BY <2>1, <1>2, OptionIs
      <4> QED
        BY <2>1, <2>5, <2>8, <4>1
    <3>2. Inside(W, stack') /\ skipped' \subseteq W[Discovery!Bound] \cap world.unreadable
      BY <1>3, <2>1, <2>2, <2>8, <3>1, DescendSound
    <3> QED
      BY <1>3, <2>8, <3>2
  <2> QED
    BY <1>7, <2>6, <2>7, <2>8 DEF TakesEntry
<1>8. Kept
  <2>1. Halts \/ (\E r : TakesRoot(r)) \/ Returns \/ \E e, rest : TakesEntry(e, rest)
    BY <1>1 DEF Steps
  <2> HIDE DEF Kept
  <2> QED
    BY <1>4, <1>5, <1>6, <1>7, <2>1
<1> QED
  BY <1>1, <1>8, SameWorld DEF Sound, Inside

-----------------------------------------------------------------------------
(* Nothing within the bounds is missed.                                    *)

\* More directories opened, entries dealt with and roots walked.
LEMMA CoversMore ==
  ASSUME NEW V, NEW st, NEW counted, NEW matched, NEW rest, Covers(V, st, counted, matched, rest),
         NEW V2 \in SUBSET (Dirs \X Nat), V \subseteq V2,
         NEW st2, NEW counted2, counted \subseteq counted2, NEW matched2, matched \subseteq matched2, NEW rest2,
         \A i \in DOMAIN st2 : <<st2[i].dir, i - 1>> \in V2,
         \A d \in Dirs \ world.unreadable, k \in Nat : \A e \in Reads(d) :
           Ahead(d, k, e, st) => Ahead(d, k, e, st2) \/ Met(e, k, V2, matched2),
         \A d \in Dirs, k \in Nat : <<d, k>> \in V2 /\ <<d, k>> \notin V =>
           IF d \in world.unreadable THEN d \in counted2 ELSE \A e \in Reads(d) : Ahead(d, k, e, st2),
         \A r \in rest : r \in rest2 \/ RootMet(r, V2, matched2)
  PROVE  Covers(V2, st2, counted2, matched2, rest2)
<1>1. ASSUME NEW e, NEW k, Met(e, k, V, matched)
      PROVE  Met(e, k, V2, matched2)
  BY <1>1 DEF Met
<1>2. ASSUME NEW r, RootMet(r, V, matched)
      PROVE  RootMet(r, V2, matched2)
  BY <1>2 DEF RootMet
<1>3. ASSUME NEW d \in Dirs, NEW k \in Nat, <<d, k>> \in V2
      PROVE  IF d \in world.unreadable THEN d \in counted2
             ELSE \A e \in Reads(d) : Met(e, k, V2, matched2) \/ Ahead(d, k, e, st2)
  <2>1. CASE <<d, k>> \in V
    <3>1. IF d \in world.unreadable THEN d \in counted
          ELSE \A e \in Reads(d) : Met(e, k, V, matched) \/ Ahead(d, k, e, st)
      BY <2>1 DEF Covers
    <3> QED
      BY <1>1, <3>1
  <2>2. CASE <<d, k>> \notin V
    BY <1>3, <2>2
  <2> QED
    BY <2>1, <2>2
<1>4. \A r \in Discovery!ToSet(world.roots) : RootMet(r, V2, matched2) \/ r \in rest2
  BY <1>2 DEF Covers
<1> QED
  BY <1>3, <1>4 DEF Covers

\* A directory that walk() is called with has then been opened, no deeper, or is
\* too deep.
LEMMA DescendCovers ==
  ASSUME Scanning, NEW above, Chain(above), NEW dir \in Dirs,
         Discovery!Descend(dir, Len(above), above), ~partial',
         ~scan.follow => \A rank \in [Dirs -> Nat] :
           Ranks(rank) => \A i \in 1..Len(above) : rank[above[i].dir] < rank[dir],
         NEW V \in SUBSET (Dirs \X Nat), \A i \in DOMAIN above : <<above[i].dir, i - 1>> \in V
  PROVE  \E V2 \in SUBSET (Dirs \X Nat) :
           /\ V \subseteq V2 /\ skipped \subseteq skipped'
           /\ scan.depth = 0 \/ Len(above) <= scan.depth => \E j \in 0..Len(above) : <<dir, j>> \in V2
           /\ \A i \in DOMAIN stack' : <<stack'[i].dir, i - 1>> \in V2
           /\ \A d \in Dirs, k \in Nat : <<d, k>> \in V2 /\ <<d, k>> \notin V =>
                IF d \in world.unreadable THEN d \in skipped' ELSE \A e \in Reads(d) : Ahead(d, k, e, stack')
           /\ \A d, e : \A k \in Nat : Ahead(d, k, e, above) => Ahead(d, k, e, stack')
<1> DEFINE call == [dir |-> dir, depth |-> Len(above), left |-> world.entries[dir]]
           n == Len(above)
           more == V \cup {<<dir, n>>}
<1>1. /\ above \in Seq(Frame) /\ n \in Nat /\ DOMAIN above = 1..n
  BY FrameIs
<1>2. \/ /\ stack' = above /\ skipped' = skipped
         /\ (scan.depth > 0 /\ n > scan.depth) \/ \E i \in 1..n : above[i].dir = dir
      \/ dir \in world.unreadable /\ stack' = above /\ skipped' = skipped \cup {dir}
      \/ dir \notin world.unreadable /\ stack' = Append(above, call) /\ skipped' = skipped
  BY DescendIs DEF Scanning
<1>3. scan.depth \in Nat
  BY OptionIs DEF Scanning
<1>4. CASE /\ stack' = above /\ skipped' = skipped
           /\ (scan.depth > 0 /\ n > scan.depth) \/ \E i \in 1..n : above[i].dir = dir
  <2>1. scan.depth = 0 \/ n <= scan.depth => \E j \in 0..n : <<dir, j>> \in V
    <3> SUFFICES ASSUME scan.depth = 0 \/ n <= scan.depth
                 PROVE  \E j \in 0..n : <<dir, j>> \in V
      OBVIOUS
    <3>1. PICK i \in 1..n : above[i].dir = dir
      BY <1>1, <1>3, <1>4
    <3>2. i \in DOMAIN above
      BY <1>1, <3>1
    <3>3. <<dir, i - 1>> \in V
      BY <3>1, <3>2
    <3> HIDE DEF n
    <3>4. i - 1 \in 0..n
      BY <1>1, <3>1
    <3> QED
      BY <3>3, <3>4
  <2> QED
    BY <1>4, <2>1
<1>5. more \in SUBSET (Dirs \X Nat) /\ V \subseteq more /\ (\E j \in 0..n : <<dir, j>> \in more)
      /\ \A d, k : <<d, k>> \in more /\ <<d, k>> \notin V => d = dir /\ k = n
  <2>1. n \in Nat /\ <<dir, n>> \in Dirs \X Nat
    BY <1>1
  <2> HIDE DEF n
  <2>2. n \in 0..n
    BY <2>1
  <2>3. more \in SUBSET (Dirs \X Nat) /\ V \subseteq more /\ <<dir, n>> \in more
    BY <2>1
  <2>4. \A d, k : <<d, k>> \in more /\ <<d, k>> \notin V => d = dir /\ k = n
    OBVIOUS
  <2> HIDE DEF more
  <2> QED
    BY <2>2, <2>3, <2>4
<1>6. CASE dir \in world.unreadable /\ stack' = above /\ skipped' = skipped \cup {dir}
  <2> HIDE DEF more
  <2>1. \A i \in DOMAIN stack' : <<stack'[i].dir, i - 1>> \in more
    BY <1>5, <1>6
  <2>2. \A d \in Dirs, k \in Nat : <<d, k>> \in more /\ <<d, k>> \notin V =>
          IF d \in world.unreadable THEN d \in skipped' ELSE \A e \in Reads(d) : Ahead(d, k, e, stack')
    BY <1>5, <1>6
  <2> QED
    BY <1>5, <1>6, <2>1, <2>2
<1>7. CASE dir \notin world.unreadable /\ stack' = Append(above, call) /\ skipped' = skipped
  <2>1. call \in Frame /\ call.dir = dir /\ Discovery!ToSet(call.left) = Reads(dir)
    <3>1. world.entries[dir] \in Seq(Discovery!Entry)
      BY WorldIs DEF Scanning
    <3> QED
      BY <1>1, <3>1 DEF Frame, Reads
  <2>2. DOMAIN stack' = 1..(n + 1) /\ stack'[n + 1] = call /\ \A i \in 1..n : stack'[i] = above[i]
    <3> HIDE DEF call
    <3> QED
      BY <1>1, <1>7, <2>1, AppendIs
  <2>3. <<dir, n>> \in more
    OBVIOUS
  <2> HIDE DEF more, call
  <2>4. ASSUME NEW i \in DOMAIN stack'
        PROVE  <<stack'[i].dir, i - 1>> \in more
    <3>1. CASE i = n + 1
      <4>1. i - 1 = n
        BY <1>1, <3>1
      <4> QED
        BY <2>1, <2>2, <2>3, <3>1, <4>1
    <3>2. CASE i # n + 1
      <4>1. i \in 1..n
        BY <1>1, <2>2, <3>2
      <4> QED
        BY <1>1, <1>5, <2>2, <4>1
    <3> QED
      BY <3>1, <3>2
  <2>5. \A e \in Reads(dir) : Ahead(dir, n, e, stack')
    <3>1. n + 1 \in DOMAIN stack'
      BY <1>1, <2>2
    <3> QED
      BY <2>1, <2>2, <3>1 DEF Ahead
  <2>6. \A d \in Dirs, k \in Nat : <<d, k>> \in more /\ <<d, k>> \notin V =>
          IF d \in world.unreadable THEN d \in skipped' ELSE \A e \in Reads(d) : Ahead(d, k, e, stack')
    BY <1>5, <1>7, <2>5
  <2>7. \A d, e : \A k \in Nat : Ahead(d, k, e, above) => Ahead(d, k, e, stack')
    <3> SUFFICES ASSUME NEW d, NEW e, NEW k \in Nat, Ahead(d, k, e, above)
                 PROVE  Ahead(d, k, e, stack')
      OBVIOUS
    <3>1. k + 1 \in 1..n
      BY <1>1 DEF Ahead
    <3>2. k + 1 \in DOMAIN stack' /\ stack'[k + 1] = above[k + 1]
      BY <1>1, <2>2, <3>1
    <3> QED
      BY <3>2 DEF Ahead
  <2> QED
    BY <1>5, <1>7, <2>4, <2>6, <2>7
<1> QED
  BY <1>2, <1>4, <1>6, <1>7

LEMMA NextCovers ==
  ASSUME Scanning, Chain(stack), [Discovery!Next]_walk, ~partial',
         NEW V, Covers(V, stack, skipped, Discovery!ToSet(found), Discovery!ToSet(roots))
  PROVE  \E V2 : Covers(V2, stack', skipped', Discovery!ToSet(found'), Discovery!ToSet(roots'))
<1> DEFINE F == Discovery!ToSet(found)
           G == Discovery!ToSet(found')
           R == Discovery!ToSet(roots)
           Q == Discovery!ToSet(roots')
           n == Len(stack)
<1>1. UNCHANGED <<world, scan>> /\ (Halts \/ (\E r : TakesRoot(r)) \/ Returns \/ \E e, rest : TakesEntry(e, rest))
  BY StepIs DEF Steps
<1>2. /\ world \in Worlds /\ scan \in Options /\ partial \in BOOLEAN /\ skipped \in SUBSET Dirs
      /\ found \in Seq(Dirs) /\ Discovery!IsInjective(found)
  BY DEF Scanning
<1>3. /\ n \in Nat /\ DOMAIN stack = 1..n /\ scan.depth \in Nat
  BY <1>2, FrameIs, OptionIs
<1>4. V \in SUBSET (Dirs \X Nat) /\ \A i \in DOMAIN stack : <<stack[i].dir, i - 1>> \in V
  BY DEF Covers
<1>5. ASSUME Halts
      PROVE  Covers(V, stack', skipped', G, Q)
  BY <1>5 DEF Halts
<1>6. ASSUME NEW r, TakesRoot(r)
      PROVE  \E V2 : Covers(V2, stack', skipped', G, Q)
  <2>1. r \in Discovery!ToSet(world.roots) /\ r.dir \in Dirs /\ R = {r} \cup Q
    BY <1>6, RootIs
  <2>2. CASE r.named /\ r.dir \in world.board
    <3>1. Discovery!Match(r.dir) /\ stack' = stack /\ skipped' = skipped
      BY <1>6, <2>2 DEF TakesRoot
    <3>2. G = F \cup {r.dir}
      BY <1>2, <2>1, <2>2, <3>1, MatchIs
    <3>3. F \subseteq G /\ \A x \in R : x \in Q \/ RootMet(x, V, G)
      BY <2>1, <2>2, <3>2 DEF RootMet
    <3> HIDE DEF F, G, R, Q
    <3>4. Covers(V, stack, skipped, F, R)
      BY DEF F, R
    <3>5. Covers(V, stack, skipped, G, Q)
      BY <1>4, <3>3, <3>4, CoversMore
    <3> QED
      BY <3>1, <3>5
  <2>3. CASE ~ (r.named /\ r.dir \in world.board)
    <3>1. Discovery!Descend(r.dir, n, stack) /\ found' = found /\ stack = <<>>
      BY <1>6, <2>3 DEF TakesRoot
    <3>2. n = 0 /\ \A rank : \A i \in 1..n : rank[stack[i].dir] < rank[r.dir]
      BY <3>1
    <3>3. PICK V2 \in SUBSET (Dirs \X Nat) :
            /\ V \subseteq V2 /\ skipped \subseteq skipped'
            /\ scan.depth = 0 \/ n <= scan.depth => \E j \in 0..n : <<r.dir, j>> \in V2
            /\ \A i \in DOMAIN stack' : <<stack'[i].dir, i - 1>> \in V2
            /\ \A d \in Dirs, k \in Nat : <<d, k>> \in V2 /\ <<d, k>> \notin V =>
                 IF d \in world.unreadable THEN d \in skipped' ELSE \A e \in Reads(d) : Ahead(d, k, e, stack')
            /\ \A d, e : \A k \in Nat : Ahead(d, k, e, stack) => Ahead(d, k, e, stack')
      <4>1. ~scan.follow => \A rank \in [Dirs -> Nat] :
              Ranks(rank) => \A i \in 1..Len(stack) : rank[stack[i].dir] < rank[r.dir]
        BY <3>2
      <4>2. r.dir \in Dirs /\ Discovery!Descend(r.dir, Len(stack), stack)
        BY <2>1, <3>1
      <4> QED
        BY <1>4, <4>1, <4>2, DescendCovers
    <3>4. <<r.dir, 0>> \in V2
      BY <1>3, <3>2, <3>3
    <3>5. F = G /\ \A x \in R : x \in Q \/ RootMet(x, V2, G)
      BY <2>1, <2>3, <3>1, <3>4 DEF RootMet
    <3> HIDE DEF F, G, R, Q
    <3>6. Covers(V, stack, skipped, F, R)
      BY DEF F, R
    <3>7. F \subseteq G
      BY <3>5
    <3>8. Covers(V2, stack', skipped', G, Q)
      BY <3>3, <3>5, <3>6, <3>7, CoversMore
    <3> QED
      BY <3>8
  <2> QED
    BY <2>2, <2>3
<1>7. ASSUME Returns
      PROVE  Covers(V, stack', skipped', G, Q)
  <2>1. /\ stack' = Discovery!Front(stack) /\ G = F /\ Q = R /\ skipped' = skipped
        /\ stack # <<>> /\ Top.left = <<>>
    BY <1>7 DEF Returns
  <2>2. /\ DOMAIN stack' = 1..(n - 1) /\ n > 0 /\ \A i \in 1..(n - 1) : stack'[i] = stack[i]
    BY <2>1, FrontIs
  <2>3. \A i \in DOMAIN stack' : <<stack'[i].dir, i - 1>> \in V
    BY <1>3, <1>4, <2>2
  <2>4. ASSUME NEW d \in Dirs, NEW k \in Nat, NEW e, Ahead(d, k, e, stack)
        PROVE  Ahead(d, k, e, stack')
    <3>1. k + 1 \in 1..n /\ e \in Discovery!ToSet(stack[k + 1].left)
      BY <1>3, <2>4 DEF Ahead
    <3>2. k + 1 # n
      <4>1. e \notin Discovery!ToSet(<<>>)
        BY DEF Discovery!ToSet
      <4> QED
        BY <2>1, <3>1, <4>1 DEF Top
    <3>3. k + 1 \in 1..(n - 1)
      <4> HIDE DEF n
      <4> QED
        BY <1>3, <3>1, <3>2
    <3> QED
      BY <2>2, <2>4, <3>3 DEF Ahead
  <2> HIDE DEF F, G, R, Q
  <2>5. Covers(V, stack, skipped, F, R)
    BY DEF F, R
  <2>6. \A r \in R : r \in R
    OBVIOUS
  <2>7. Covers(V, stack', skipped, F, R)
    BY <1>4, <2>3, <2>4, <2>5, <2>6, CoversMore
  <2> QED
    BY <2>1, <2>7
<1>8. ASSUME NEW e, NEW rest, TakesEntry(e, rest)
      PROVE  \E V2 : Covers(V2, stack', skipped', G, Q)
  <2>1. /\ Chain(rest) /\ Len(rest) = n /\ n > 0 /\ DOMAIN rest = 1..n
        /\ \A i \in 1..n : rest[i].dir = stack[i].dir
        /\ \A i \in 1..(n - 1) : rest[i] = stack[i]
        /\ Discovery!ToSet(Top.left) = {e} \cup Discovery!ToSet(rest[n].left)
        /\ e.to \in Dirs
        /\ Discovery!Eligible(e) /\ ~scan.follow => \A rank \in [Dirs -> Nat] :
             Ranks(rank) => \A i \in 1..Len(rest) : rank[rest[i].dir] < rank[e.to]
    BY <1>8, EntryIs
  <2>2. ASSUME NEW d \in Dirs, NEW k \in Nat, NEW x, Ahead(d, k, x, stack), ~Ahead(d, k, x, rest)
        PROVE  x = e /\ k = n - 1
    <3>1. k + 1 \in 1..n /\ stack[k + 1].dir = d /\ x \in Discovery!ToSet(stack[k + 1].left)
      BY <1>3, <2>2 DEF Ahead
    <3>2. k + 1 = n
      <4> SUFFICES ASSUME k + 1 # n
                   PROVE  FALSE
        OBVIOUS
      <4>1. k + 1 \in 1..(n - 1)
        <5> HIDE DEF n
        <5> QED
          BY <1>3, <3>1
      <4> QED
        BY <2>1, <2>2, <3>1, <4>1 DEF Ahead
    <3>3. x = e \/ x \in Discovery!ToSet(rest[n].left)
      BY <2>1, <3>1, <3>2 DEF Top
    <3>4. x \notin Discovery!ToSet(rest[n].left)
      BY <2>1, <2>2, <3>1, <3>2 DEF Ahead
    <3>5. k = n - 1
      <4> HIDE DEF n
      <4> QED
        BY <1>3, <3>2
    <3> QED
      BY <3>3, <3>4, <3>5
  <2>3. \A i \in DOMAIN rest : <<rest[i].dir, i - 1>> \in V
    BY <1>3, <1>4, <2>1
  <2>4. roots' = roots
    BY <1>8 DEF TakesEntry
  <2>5. Covers(V, stack, skipped, F, R)
    OBVIOUS
  <2>6. ASSUME stack' = rest, skipped' = skipped, F \subseteq G, Met(e, n - 1, V, G)
        PROVE  Covers(V, stack', skipped', G, Q)
    <3> HIDE DEF F, G
    <3>1. \A d \in Dirs \ world.unreadable, k \in Nat : \A x \in Reads(d) :
            Ahead(d, k, x, stack) => Ahead(d, k, x, rest) \/ Met(x, k, V, G)
      BY <2>2, <2>6
    <3> HIDE DEF R
    <3>2. \A r \in R : r \in R
      OBVIOUS
    <3>3. Covers(V, rest, skipped, G, R)
      BY <1>4, <2>3, <2>5, <2>6, <3>1, <3>2, CoversMore
    <3>4. Q = R
      BY <2>4 DEF R
    <3> QED
      BY <2>6, <3>3, <3>4
  <2>7. CASE ~Discovery!Eligible(e) /\ stack' = rest /\ UNCHANGED <<found, skipped, partial>>
    <3>1. Met(e, n - 1, V, G)
      BY <2>7 DEF Met
    <3>2. F \subseteq G
      BY <2>7
    <3> HIDE DEF F, G, Q
    <3> QED
      BY <2>6, <2>7, <3>1, <3>2
  <2>8. CASE Discovery!Eligible(e) /\ e.name.named /\ Discovery!Match(e.to) /\ stack' = rest /\ UNCHANGED <<skipped, partial>>
    <3>1. G = IF e.to \in world.board THEN F \cup {e.to} ELSE F
      BY <1>2, <2>1, <2>8, MatchIs
    <3> HIDE DEF F, G, Q
    <3>2. Met(e, n - 1, V, G) /\ F \subseteq G
      BY <2>8, <3>1 DEF Met
    <3> QED
      BY <2>6, <2>8, <3>2
  <2>9. CASE Discovery!Eligible(e) /\ ~e.name.named /\ Discovery!Descend(e.to, Len(rest), rest) /\ UNCHANGED found
    <3>1. PICK V2 \in SUBSET (Dirs \X Nat) :
            /\ V \subseteq V2 /\ skipped \subseteq skipped'
            /\ scan.depth = 0 \/ Len(rest) <= scan.depth => \E j \in 0..Len(rest) : <<e.to, j>> \in V2
            /\ \A i \in DOMAIN stack' : <<stack'[i].dir, i - 1>> \in V2
            /\ \A d \in Dirs, k \in Nat : <<d, k>> \in V2 /\ <<d, k>> \notin V =>
                 IF d \in world.unreadable THEN d \in skipped' ELSE \A x \in Reads(d) : Ahead(d, k, x, stack')
            /\ \A d, x : \A k \in Nat : Ahead(d, k, x, rest) => Ahead(d, k, x, stack')
      BY <1>4, <2>1, <2>3, <2>9, DescendCovers
    <3>2. Met(e, n - 1, V2, G)
      <4>1. (n - 1) + 1 = n /\ (n - 1 < scan.depth => n <= scan.depth)
        BY <1>3
      <4>2. scan.depth = 0 \/ n - 1 < scan.depth => \E j \in 0..n : <<e.to, j>> \in V2
        BY <2>1, <3>1, <4>1
      <4> QED
        BY <2>9, <4>1, <4>2 DEF Met
    <3>3. \A d \in Dirs \ world.unreadable, k \in Nat : \A x \in Reads(d) :
            Ahead(d, k, x, stack) => Ahead(d, k, x, stack') \/ Met(x, k, V2, G)
      <4> HIDE DEF G
      <4> QED
        BY <2>2, <3>1, <3>2
    <3>4. F \subseteq G
      BY <2>9
    <3> HIDE DEF F, G, R
    <3>5. \A r \in R : r \in R
      OBVIOUS
    <3>6. Covers(V2, stack', skipped', G, R)
      BY <2>5, <3>1, <3>3, <3>4, <3>5, CoversMore
    <3>7. Q = R
      BY <2>4 DEF R
    <3> QED
      BY <3>6, <3>7
  <2> QED
    BY <1>8, <2>6, <2>7, <2>8, <2>9 DEF TakesEntry
<1>9. \E V2 : Covers(V2, stack', skipped', G, Q)
  <2> HIDE DEF G, Q
  <2> QED
    BY <1>1, <1>5, <1>6, <1>7, <1>8
<1> QED
  BY <1>9

-----------------------------------------------------------------------------
(* The walk as a whole.                                                    *)

LEMMA SameCovers ==
  ASSUME UNCHANGED <<world, scan>>,
         NEW V, Covers(V, stack', skipped', Discovery!ToSet(found'), Discovery!ToSet(roots'))
  PROVE  Covers(V, stack, skipped, Discovery!ToSet(found), Discovery!ToSet(roots))'
<1>1. \A e : Discovery!Eligible(e)' <=> Discovery!Eligible(e)
  BY SameWorld
<1>2. \A d : Reads(d)' = Reads(d)
  BY DEF Reads
<1>3. \A e, k, matched : Met(e, k, V, matched)' <=> Met(e, k, V, matched)
  BY <1>1 DEF Met
<1>4. \A r, matched : RootMet(r, V, matched)' <=> RootMet(r, V, matched)
  BY DEF RootMet
<1> QED
  BY <1>2, <1>3, <1>4 DEF Covers

LEMMA NextWalk == WalkInv /\ [Discovery!Next]_walk => WalkInv'
<1> SUFFICES ASSUME WalkInv, [Discovery!Next]_walk
             PROVE  WalkInv'
  OBVIOUS
<1>1. Scanning /\ Chain(stack) /\ (\A W \in Levels : Sound(W))
      /\ (~partial => \E V : Covers(V, stack, skipped, Discovery!ToSet(found), Discovery!ToSet(roots)))
  BY DEF WalkInv
<1>2. Scanning' /\ Chain(stack)' /\ (partial => partial')
  BY <1>1, NextScanning
<1>3. UNCHANGED <<world, scan>>
  BY <1>1, StepIs
<1>4. \A W \in Levels' : Sound(W)'
  BY <1>1, <1>3, SameWorld, NextSound
<1>5. ASSUME ~partial'
      PROVE  \E V : Covers(V, stack, skipped, Discovery!ToSet(found), Discovery!ToSet(roots))'
  <2>1. PICK V : Covers(V, stack, skipped, Discovery!ToSet(found), Discovery!ToSet(roots))
    BY <1>1, <1>2, <1>5
  <2>2. PICK V2 : Covers(V2, stack', skipped', Discovery!ToSet(found'), Discovery!ToSet(roots'))
    BY <1>1, <1>5, <2>1, NextCovers
  <2>3. Covers(V2, stack, skipped, Discovery!ToSet(found), Discovery!ToSet(roots))'
    BY <1>3, <2>2, SameCovers
  <2> QED
    BY <2>3
<1> QED
  BY <1>2, <1>4, <1>5 DEF WalkInv

LEMMA InitWalk == Discovery!Init => WalkInv
<1> SUFFICES ASSUME Discovery!Init
             PROVE  WalkInv
  OBVIOUS
<1>1. /\ world \in Worlds /\ scan \in Options /\ roots = world.roots
      /\ stack = <<>> /\ found = <<>> /\ skipped = {} /\ partial = FALSE /\ late = FALSE
  BY DEF Discovery!Init
<1>2. world.roots \in Seq(Discovery!ToSet(world.roots))
  <2> DEFINE s == world.roots
  <2>1. s \in Seq([dir : Dirs, named : BOOLEAN])
    BY <1>1, WorldIs
  <2> HIDE DEF s
  <2>2. s = [i \in 1..Len(s) |-> s[i]] /\ Len(s) \in Nat /\ \A i \in 1..Len(s) : s[i] \in Discovery!ToSet(s)
    BY <2>1 DEF Discovery!ToSet
  <2>3. s \in Seq(Discovery!ToSet(s))
    BY <2>2
  <2> QED
    BY <2>3 DEF s
<1>3. Scanning
  <2>1. roots \in Seq(Discovery!ToSet(world.roots))
    BY <1>1, <1>2
  <2>2. found \in Seq(Dirs) /\ Discovery!IsInjective(found)
    BY <1>1 DEF Discovery!IsInjective
  <2>3. skipped \in SUBSET Dirs /\ partial \in BOOLEAN /\ late \in BOOLEAN
    BY <1>1
  <2> QED
    BY <1>1, <2>1, <2>2, <2>3 DEF Scanning
<1>4. Chain(stack)
  BY <1>1 DEF Chain
<1>5. Discovery!ToSet(<<>>) = {}
  BY DEF Discovery!ToSet
<1>6. \A W \in Levels : Sound(W)
  BY <1>1, <1>5 DEF Sound, Inside
<1>7. Covers({}, stack, skipped, Discovery!ToSet(found), Discovery!ToSet(roots))
  BY <1>1 DEF Covers
<1> QED
  BY <1>3, <1>4, <1>6, <1>7 DEF WalkInv

\* The levels by distance from the roots are levels.
LEMMA WithinLevels ==
  ASSUME world \in Worlds, scan \in Options,
         NEW W, W = [n \in 0..Discovery!Bound |-> Discovery!Within[n]]
  PROVE  W \in Levels /\ W[Discovery!Bound] = Discovery!Reached
<1> DEFINE B == Discovery!Bound
           f == Discovery!Within
           T == {n \in 0..B : f[n] \subseteq Dirs /\ \A m \in 0..n : f[m] \subseteq f[n]}
<1>1. B \in Nat /\ f[0] = Discovery!RootWalks
      /\ \A n \in 1..B : f[n] = f[n - 1] \cup {e.to : e \in Discovery!From(f[n - 1], FALSE)}
  BY WithinIs, OptionIs
<1>2. Discovery!RootWalks \subseteq Dirs
  <2>1. \A i \in DOMAIN world.roots : world.roots[i].dir \in Dirs
    <3> DEFINE s == world.roots
               X == [dir : Dirs, named : BOOLEAN]
    <3>1. s \in Seq(X)
      BY WorldIs
    <3> HIDE DEF s, X
    <3>2. \A i \in DOMAIN s : s[i] \in X
      BY <3>1
    <3> QED
      BY <3>2 DEF s, X
  <2> QED
    BY <2>1 DEF Discovery!RootWalks
<1>3. \A S \in SUBSET Dirs : \A e \in Discovery!From(S, FALSE) : e.to \in Dirs
  <2> SUFFICES ASSUME NEW S \in SUBSET Dirs, NEW e \in Discovery!From(S, FALSE)
               PROVE  e.to \in Dirs
    OBVIOUS
  <2>1. PICK d \in S : e \in Reads(d)
    BY DEF Discovery!From, Reads
  <2> QED
    BY <2>1, ReadsIs
<1> HIDE DEF B, f
<1>4. 0 \in T
  BY <1>1, <1>2
<1>5. ASSUME NEW n \in 0..(B - 1), n \in T
      PROVE  n + 1 \in T
  <2>1. n + 1 \in 1..B /\ (n + 1) - 1 = n /\ \A m \in 0..(n + 1) : m = n + 1 \/ m \in 0..n
    BY <1>1
  <2>2. f[n + 1] = f[n] \cup {e.to : e \in Discovery!From(f[n], FALSE)}
    BY <1>1, <2>1
  <2>3. f[n] \subseteq Dirs /\ \A m \in 0..n : f[m] \subseteq f[n]
    BY <1>5
  <2>4. f[n + 1] \subseteq Dirs
    BY <1>3, <2>2, <2>3
  <2>5. \A m \in 0..(n + 1) : f[m] \subseteq f[n + 1]
    BY <2>1, <2>2, <2>3
  <2> QED
    BY <2>1, <2>4, <2>5
<1>6. \A n \in 0..B : n \in T
  <2> HIDE DEF T
  <2> QED
    BY <1>1, <1>4, <1>5, UpTo
<1>7. W \in [0..B -> SUBSET Dirs] /\ Discovery!RootWalks \subseteq W[0] /\ \A n \in 0..B : W[n] = f[n] /\ W[n] \subseteq W[B]
  <2>1. W = [n \in 0..B |-> f[n]]
    BY DEF B, f
  <2>2. 0 \in 0..B /\ B \in 0..B
    BY <1>1
  <2> QED
    BY <1>1, <1>6, <2>1, <2>2
<1>8. ASSUME NEW n \in 0..(B - 1), NEW d \in W[n] \ world.unreadable, NEW e \in Reads(d),
             Discovery!Eligible(e), ~e.name.named
      PROVE  e.to \in W[n + 1]
  <2>1. n \in 0..B /\ n + 1 \in 0..B /\ n + 1 \in 1..B /\ (n + 1) - 1 = n
    BY <1>1
  <2>2. d \in Dirs
    BY <1>7, <2>1
  <2>3. e.name.named = FALSE
    BY <1>8, <2>2, ReadsIs DEF Discovery!Entry, Discovery!Name
  <2>4. e \in Discovery!From(f[n], FALSE)
    BY <1>7, <1>8, <2>1, <2>3 DEF Discovery!From, Reads
  <2>5. f[n + 1] = f[n] \cup {x.to : x \in Discovery!From(f[n], FALSE)}
    BY <1>1, <2>1
  <2>6. e.to \in f[n + 1]
    BY <2>4, <2>5
  <2> QED
    BY <1>7, <2>1, <2>6
<1>9. W \in Levels
  BY <1>7, <1>8 DEF Levels, B
<1>10. W[B] = Discovery!Reached
  BY <1>1, <1>7 DEF Discovery!Reached, B, f
<1> QED
  BY <1>9, <1>10 DEF B

\* When nothing is ahead, whatever is within a distance has been opened no
\* deeper.
LEMMA AllOpened ==
  ASSUME world \in Worlds, scan \in Options, stack = <<>>, NEW counted, NEW matched,
         NEW V, Covers(V, <<>>, counted, matched, {}),
         NEW n \in 0..Discovery!Bound, NEW d \in Discovery!Within[n]
  PROVE  d \in Dirs /\ \E j \in 0..n : <<d, j>> \in V
<1> DEFINE B == Discovery!Bound
           f == Discovery!Within
           T == {k \in 0..B : \A x \in f[k] : x \in Dirs /\ \E j \in 0..k : <<x, j>> \in V}
<1>1. /\ B \in Nat /\ f[0] = Discovery!RootWalks /\ scan.depth \in Nat /\ (scan.depth > 0 => B = scan.depth)
      /\ \A k \in 1..B : f[k] = f[k - 1] \cup {e.to : e \in Discovery!From(f[k - 1], FALSE)}
  <2>1. B \in Nat /\ scan.depth \in Nat /\ (scan.depth > 0 => B = scan.depth)
    BY OptionIs
  <2>2. f[0] = Discovery!RootWalks
        /\ \A k \in 1..B : f[k] = f[k - 1] \cup {e.to : e \in Discovery!From(f[k - 1], FALSE)}
    BY WithinIs
  <2> QED
    BY <2>1, <2>2
<1>2. V \in SUBSET (Dirs \X Nat)
      /\ \A r \in Discovery!ToSet(world.roots) : RootMet(r, V, matched)
  BY DEF Covers
<1>3. ASSUME NEW x \in Dirs, NEW k \in Nat, <<x, k>> \in V, x \notin world.unreadable, NEW e \in Reads(x)
      PROVE  Met(e, k, V, matched)
  <2>1. ~Ahead(x, k, e, <<>>)
    BY DEF Ahead
  <2> QED
    BY <1>3, <2>1 DEF Covers
<1> HIDE DEF B, f
<1>4. 0 \in T
  <2>0. 0 \in 0..B
    BY <1>1
  <2> SUFFICES \A x \in f[0] : x \in Dirs /\ \E j \in 0..0 : <<x, j>> \in V
    BY <2>0, Zenon
  <2> TAKE x \in f[0]
  <2>1. PICK i \in DOMAIN world.roots :
          ~ (world.roots[i].named /\ world.roots[i].dir \in world.board) /\ x = world.roots[i].dir
    BY <1>1 DEF Discovery!RootWalks
  <2>2. world.roots[i] \in Discovery!ToSet(world.roots)
    BY DEF Discovery!ToSet
  <2>3. <<x, 0>> \in V
    BY <1>2, <2>1, <2>2 DEF RootMet
  <2>4. x \in Dirs
    BY <1>2, <2>3
  <2> QED
    BY <2>3, <2>4
<1>5. ASSUME NEW k \in 0..(B - 1), k \in T
      PROVE  k + 1 \in T
  <2>1. k + 1 \in 1..B /\ (k + 1) - 1 = k /\ k \in Nat
    BY <1>1
  <2>2. f[k + 1] = f[k] \cup {e.to : e \in Discovery!From(f[k], FALSE)}
    BY <1>1, <2>1
  <2>3. ASSUME NEW x \in f[k]
        PROVE  x \in Dirs /\ \E j \in 0..k : <<x, j>> \in V
    BY <1>5
  <2>4. ASSUME NEW e \in Discovery!From(f[k], FALSE)
        PROVE  e.to \in Dirs /\ \E j \in 0..(k + 1) : <<e.to, j>> \in V
    <3>1. PICK x \in f[k] : x \notin world.unreadable /\ e \in Reads(x)
      BY DEF Discovery!From, Reads
    <3>2. Discovery!Eligible(e) /\ e.name.named = FALSE
      BY DEF Discovery!From
    <3>3. PICK j \in 0..k : <<x, j>> \in V /\ x \in Dirs
      BY <2>3
    <3>4. j \in Nat /\ j <= k
      BY <2>1
    <3>5. Met(e, j, V, matched)
      BY <1>3, <3>1, <3>3, <3>4
    <3>6. scan.depth = 0 \/ j < scan.depth
      BY <1>1, <2>1, <3>4
    <3>7. PICK i \in 0..(j + 1) : <<e.to, i>> \in V
      BY <3>2, <3>5, <3>6 DEF Met
    <3>8. i \in 0..(k + 1)
      BY <2>1, <3>4
    <3>9. e.to \in Dirs
      BY <1>2, <3>7
    <3> QED
      BY <3>7, <3>8, <3>9
  <2>5. ASSUME NEW x \in f[k + 1]
        PROVE  x \in Dirs /\ \E j \in 0..(k + 1) : <<x, j>> \in V
    <3>1. CASE x \in f[k]
      <4>1. PICK j \in 0..k : <<x, j>> \in V /\ x \in Dirs
        BY <2>3, <3>1
      <4>2. j \in 0..(k + 1)
        BY <2>1
      <4> QED
        BY <4>1, <4>2
    <3>2. CASE x \notin f[k]
      <4>1. PICK e \in Discovery!From(f[k], FALSE) : x = e.to
        BY <2>2, <3>2
      <4> QED
        BY <2>4, <4>1
    <3> QED
      BY <3>1, <3>2
  <2>6. k + 1 \in 0..B
    BY <2>1
  <2> QED
    BY <2>5, <2>6
<1>6. \A k \in 0..B : k \in T
  <2> HIDE DEF T
  <2> QED
    BY <1>1, <1>4, <1>5, UpTo
<1>7. n \in T
  BY <1>6 DEF B
<1> QED
  BY <1>7 DEF f

LEMMA WalkComplete ==
  ASSUME WalkInv
  PROVE  /\ Discovery!TypeOK /\ Discovery!ListedOnce
         /\ Discovery!PartialIsSaid /\ Discovery!UnreadableIsCounted
<1> DEFINE W == [n \in 0..Discovery!Bound |-> Discovery!Within[n]]
           F == Discovery!ToSet(found)
<1>1. /\ world \in Worlds /\ scan \in Options /\ Chain(stack)
      /\ found \in Seq(Dirs) /\ Discovery!IsInjective(found)
      /\ skipped \in SUBSET Dirs /\ partial \in BOOLEAN /\ late \in BOOLEAN
  BY DEF WalkInv, Scanning
<1>2. Discovery!TypeOK
  <2>1. Len(stack) \in Nat /\ Len(stack) <= Cardinality(Dirs) /\ Cardinality(Dirs) \in Nat
    BY <1>1, ChainBounded, OptionIs
  <2>2. Len(stack) <= 1 + Discovery!Cardinality(Dirs)
    <3>1. Discovery!Cardinality(Dirs) = Cardinality(Dirs)
      BY DEF Discovery!Cardinality, Cardinality
    <3> QED
      BY <2>1, <3>1
  <2> QED
    BY <1>1, <2>2 DEF Discovery!TypeOK
<1>3. W \in Levels /\ W[Discovery!Bound] = Discovery!Reached
  BY <1>1, WithinLevels
<1>4. Discovery!Reached = Discovery!Within[Discovery!Bound] /\ Discovery!Bound \in Nat
  BY <1>1, OptionIs DEF Discovery!Reached
<1> HIDE DEF W
<1>5. /\ skipped \subseteq Discovery!Reached \cap world.unreadable
      /\ F \subseteq Discovery!RootMatches \cup (Seen(W) \cap world.board)
  BY <1>3 DEF WalkInv, Sound
<1>6. Seen(W) = {e.to : e \in Discovery!From(Discovery!Reached, TRUE)}
  <2>1. \A d \in Discovery!Reached : d \in Dirs
    BY <1>1, <1>3, OptionIs DEF Levels
  <2>2. ASSUME NEW e
        PROVE  e \in Discovery!From(Discovery!Reached, TRUE) <=>
                 e \in UNION {Reads(d) : d \in Discovery!Reached \ world.unreadable}
                 /\ Discovery!Eligible(e) /\ e.name.named
    <3>1. e \in UNION {Reads(d) : d \in Discovery!Reached \ world.unreadable} => e.name.named \in BOOLEAN
      BY <1>1, <2>1, ReadsIs DEF Discovery!Entry, Discovery!Name
    <3> QED
      BY <3>1 DEF Discovery!From, Reads
  <2> QED
    BY <1>3, <2>2 DEF Seen
<1>7. F \subseteq Discovery!Boards
  BY <1>5, <1>6 DEF Discovery!Boards
<1>8. ASSUME Discovery!Done, ~partial
      PROVE  Discovery!Boards \subseteq F /\ Discovery!Reached \cap world.unreadable \subseteq skipped
  <2>1. stack = <<>> /\ roots = <<>>
    BY <1>8 DEF Discovery!Done
  <2>2. Discovery!ToSet(<<>>) = {}
    BY DEF Discovery!ToSet
  <2>3. PICK V : Covers(V, <<>>, skipped, F, {})
    BY <1>8, <2>1, <2>2 DEF WalkInv
  <2>4. ASSUME NEW d \in Discovery!Reached
        PROVE  d \in Dirs /\ \E j \in Nat : <<d, j>> \in V /\ j <= Discovery!Bound
    <3>1. Discovery!Bound \in 0..Discovery!Bound
      BY <1>4
    <3>2. d \in Dirs /\ \E j \in 0..Discovery!Bound : <<d, j>> \in V
      BY <1>1, <1>4, <2>1, <2>3, <3>1, AllOpened
    <3> QED
      BY <1>4, <3>2
  <2>5. ASSUME NEW d \in Discovery!Reached, d \in world.unreadable
        PROVE  d \in skipped
    BY <2>3, <2>4, <2>5 DEF Covers
  <2>6. ASSUME NEW e \in Discovery!From(Discovery!Reached, TRUE), e.to \in world.board
        PROVE  e.to \in F
    <3>1. PICK d \in Discovery!Reached : d \notin world.unreadable /\ e \in Reads(d)
      BY DEF Discovery!From, Reads
    <3>2. Discovery!Eligible(e) /\ e.name.named = TRUE
      BY DEF Discovery!From
    <3>3. PICK j \in Nat : <<d, j>> \in V /\ d \in Dirs
      BY <2>4
    <3>4. ~Ahead(d, j, e, <<>>)
      BY DEF Ahead
    <3>5. Met(e, j, V, F)
      BY <2>3, <3>1, <3>3, <3>4 DEF Covers
    <3> QED
      BY <2>6, <3>2, <3>5 DEF Met
  <2>7. ASSUME NEW x \in Discovery!RootMatches
        PROVE  x \in F
    <3>1. PICK i \in DOMAIN world.roots :
            world.roots[i].named /\ world.roots[i].dir \in world.board /\ x = world.roots[i].dir
      BY DEF Discovery!RootMatches
    <3>2. world.roots[i] \in Discovery!ToSet(world.roots)
      BY DEF Discovery!ToSet
    <3>3. RootMet(world.roots[i], V, F)
      BY <2>3, <3>2 DEF Covers
    <3> QED
      BY <3>1, <3>3 DEF RootMet
  <2> QED
    BY <2>5, <2>6, <2>7 DEF Discovery!Boards
<1>9. Discovery!PartialIsSaid
  BY <1>7, <1>8 DEF Discovery!PartialIsSaid
<1>10. Discovery!UnreadableIsCounted
  BY <1>5, <1>8 DEF Discovery!UnreadableIsCounted
<1>11. Discovery!ListedOnce
  BY <1>1 DEF Discovery!ListedOnce
<1> QED
  BY <1>2, <1>9, <1>10, <1>11

\* A scan lists each board within its bounds once, unless it says that it is
\* partial, and counts every directory that it could not read: whatever the
\* directories are, however links lead about them and whatever the bounds.
THEOREM ScansAreComplete == ConfigurationSpec => []ScanIsComplete
<1> DEFINE Inv == part = "discovery" => WalkInv
<1>1. ConfigurationInit => Inv
  BY InitWalk DEF ConfigurationInit
<1>2. Inv /\ [ConfigurationNext]_<<part, vars, walk>> => Inv'
  <2> SUFFICES ASSUME Inv, [ConfigurationNext]_<<part, vars, walk>>, part' = "discovery"
               PROVE  WalkInv'
    OBVIOUS
  <2>1. part = "discovery" /\ [Discovery!Next]_walk
    <3>1. CASE ConfigurationNext
      BY <3>1 DEF ConfigurationNext
    <3>2. CASE UNCHANGED <<part, vars, walk>>
      BY <3>2
    <3> QED
      BY <3>1, <3>2
  <2> QED
    BY <2>1, NextWalk
<1>3. Inv => ScanIsComplete
  BY WalkComplete DEF ScanIsComplete
<1> QED
  BY <1>1, <1>2, <1>3, PTL DEF ConfigurationSpec

=============================================================================
