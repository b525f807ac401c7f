------------------------------ MODULE Registry -------------------------------
(***************************************************************************)
(* The project registry of the web service: the cache of what discovery    *)
(* found, the open Stores, and the requests that read and fill both.       *)
(*                                                                         *)
(* Each section under r.mu is one action; the walk of the file system and  *)
(* mm.Open run without the lock.  A scan configuration is the number of    *)
(* times it has been replaced (r.scanGen), and what its roots reach is a   *)
(* constant.  A Store is the number of times its project has been opened.  *)
(***************************************************************************)
EXTENDS Integers, FiniteSets

CONSTANTS
  Projects,
  Requests,
  Reach,     \* Reach[g]: the projects below the roots of configuration g
  Explicit,  \* the projects named on the command line
  Listed,    \* the projects in the recent and favorites lists
  Asks,      \* the kinds of request: see Kinds
  MaxConfig, \* bound: replacements of the configuration
  MaxMoves   \* bound: directories that appear or go away

Kinds   == {"resolve", "discovery", "rescan", "lists"}
Configs == 0..MaxConfig

\* ASSUMEd in MCRequests.
RegistryAssumption ==
  /\ MaxConfig \in Nat
  /\ Reach \in [Configs -> SUBSET Projects]
  /\ Explicit \subseteq Projects /\ Listed \subseteq Projects
  /\ Asks \subseteq Kinds /\ MaxMoves \in Nat

VARIABLES
  disk,     \* the projects whose directory is there
  moves,    \* appearances and disappearances so far
  scanGen,  \* r.scanGen: the configuration in force
  scanned,  \* r.scanned
  result,   \* r.result: the projects listed
  walked,   \* the configuration that result was walked under
  stores,   \* r.stores: the Store registered for each project, 0 for none
  known,    \* r.known
  opened,   \* how often each project has been opened
  pc,       \* where each request is
  ask,      \* its kind, and the project it is about
  gen,      \* the configuration its walk was started under
  found,    \* what its walk found
  answer,   \* what it was answered
  sure      \* its project has been there to be found since it came in

vars    == <<disk, moves, scanGen, scanned, result, walked, stores, known, opened,
             pc, ask, gen, found, answer, sure>>
cache   == <<scanGen, scanned, result, walked>>
table   == <<stores, known, opened>>
request == <<ask, gen, found>>

Init ==
  /\ disk \in SUBSET Projects
  /\ moves = 0
  /\ scanGen = 0 /\ scanned = FALSE /\ result = {} /\ walked = 0
  /\ stores = [p \in Projects |-> 0]
  /\ known = {}
  /\ opened = [p \in Projects |-> 0]
  /\ pc = [r \in Requests |-> "idle"]
  /\ ask \in [Requests -> Asks \X Projects]
  /\ gen = [r \in Requests |-> 0]
  /\ found = [r \in Requests |-> {}]
  /\ answer = [r \in Requests |-> "none"]
  /\ sure = [r \in Requests |-> FALSE]

At(r, from) == pc[r] = from
Go(r, to)   == pc' = [pc EXCEPT ![r] = to]
Reply(r, what) == pc' = [pc EXCEPT ![r] = "done"] /\ answer' = [answer EXCEPT ![r] = what]
About(r)    == ask[r][2]

\* mm.Open succeeds on each of ps that is there; r.stores gets the new Store.
Opens(ps) ==
  /\ stores' = [p \in Projects |-> IF p \in ps THEN opened[p] + 1 ELSE stores[p]]
  /\ opened' = [p \in Projects |-> IF p \in ps THEN opened[p] + 1 ELSE opened[p]]

\* What rememberPath() and remember() record, present or not.
Remember(ps) == known' = known \cup ps

-----------------------------------------------------------------------------
(* The file system and the settings.                                       *)

Move(p) ==
  /\ moves < MaxMoves
  /\ moves' = moves + 1
  /\ disk' = IF p \in disk THEN disk \ {p} ELSE disk \cup {p}
  /\ sure' = [r \in Requests |-> sure[r] /\ About(r) # p]
  /\ UNCHANGED <<cache, table, pc, request, answer>>

\* The projects that a walk, or the command line, leads to under a configuration.
Findable(g) == disk \cap (Reach[g] \cup Explicit)

\* Bug: the cache is not invalidated.
replaceScanBug ==
  /\ scanGen + 1 \in Configs
  /\ scanGen' = scanGen + 1
  /\ UNCHANGED <<disk, moves, scanned, result, walked, table, pc, request, answer, sure>>

replaceScan ==
  /\ scanGen + 1 \in Configs
  /\ scanGen' = scanGen + 1
  /\ scanned' = FALSE /\ result' = {}
  /\ sure' = [r \in Requests |-> sure[r] /\ (About(r) \in known \/ About(r) \in Findable(scanGen + 1))]
  /\ UNCHANGED <<disk, moves, walked, table, pc, request, answer>>

-----------------------------------------------------------------------------
(* Requests.                                                               *)

\* A request is sure of its project when that is known, or there to be found by
\* the first walk, and by those that are about to end.
Arrive(r) ==
  /\ At(r, "idle")
  /\ Go(r, CASE ask[r][1] = "resolve"   -> "look"
             [] ask[r][1] = "discovery" -> "check"
             [] ask[r][1] = "rescan"    -> "snapshot"
             [] ask[r][1] = "lists"     -> "lists")
  /\ sure' = [sure EXCEPT ![r] =
                \/ About(r) \in known
                \/ /\ ~scanned /\ About(r) \in Findable(scanGen)
                   /\ \A q \in Requests : At(q, "install") => About(r) \in found[q] \cup Explicit]
  /\ UNCHANGED <<disk, moves, cache, table, request, answer>>

Look(r) ==
  /\ At(r, "look")
  /\ \/ stores[About(r)] # 0 /\ Reply(r, "store")
     \/ stores[About(r)] = 0 /\ Go(r, IF scanned THEN "known" ELSE "snapshot") /\ UNCHANGED answer
  /\ UNCHANGED <<disk, moves, cache, table, request, sure>>

Check(r) ==
  /\ At(r, "check")
  /\ Go(r, IF scanned THEN "view" ELSE "snapshot")
  /\ UNCHANGED <<disk, moves, cache, table, request, answer, sure>>

Snapshot(r) ==
  /\ At(r, "snapshot")
  /\ Go(r, "walk")
  /\ gen' = [gen EXCEPT ![r] = scanGen]
  /\ UNCHANGED <<disk, moves, cache, table, ask, found, answer, sure>>

Discover(r) ==
  /\ At(r, "walk")
  /\ Go(r, "install")
  /\ found' = [found EXCEPT ![r] = Reach[gen[r]] \cap disk]
  /\ UNCHANGED <<disk, moves, cache, table, ask, gen, answer, sure>>

\* A configuration was installed during the walk: start over.
Retry == "snapshot"

Stale(r) == gen[r] # scanGen

\* rememberPath() of every explicit directory, each time.
Named == Explicit

rescanRaw(r) ==
  /\ At(r, "install")
  /\ IF Stale(r)
     THEN /\ Go(r, Retry)
          /\ UNCHANGED <<cache, table, answer>>
     ELSE /\ scanned' = TRUE
          /\ walked' = gen[r]
          /\ result' = found[r] \cup (Named \cap disk)
          /\ Remember(found[r] \cup Named)
          /\ Opens({p \in found[r] \cap disk : stores[p] = 0} \cup (Named \cap disk))
          /\ Go(r, IF ask[r][1] = "resolve" THEN "look_again" ELSE "view")
          /\ UNCHANGED <<scanGen, answer>>
  /\ UNCHANGED <<disk, moves, request, sure>>

LookAgain(r) ==
  /\ At(r, "look_again")
  /\ \/ stores[About(r)] # 0 /\ Reply(r, "store")
     \/ stores[About(r)] = 0 /\ Go(r, "known") /\ UNCHANGED answer
  /\ UNCHANGED <<disk, moves, cache, table, request, sure>>

Known(r) ==
  /\ At(r, "known")
  /\ \/ About(r) \in known /\ Go(r, "open") /\ UNCHANGED answer
     \/ About(r) \notin known /\ Reply(r, "not_found")
  /\ UNCHANGED <<disk, moves, cache, table, request, sure>>

\* mm.Open and Directory() of a directory that may have gone away.
Open(r) ==
  /\ At(r, "open")
  /\ \/ About(r) \in disk /\ Go(r, "register") /\ UNCHANGED answer
     \/ About(r) \notin disk /\ Reply(r, "no_directory")
  /\ UNCHANGED <<disk, moves, cache, table, request, sure>>

Register(r) ==
  /\ At(r, "register")
  /\ Opens({About(r)})
  /\ Remember({About(r)})
  /\ Reply(r, "store")
  /\ UNCHANGED <<disk, moves, cache, request, sure>>

\* A list of projects, or of the settings' roots, is rendered.
View(r) ==
  /\ At(r, "view")
  /\ Reply(r, IF scanned THEN "list" ELSE "nothing")
  /\ UNCHANGED <<disk, moves, cache, table, request, sure>>

\* The lists' projects that are not known yet are remembered by path, present
\* or not.
lists(r) ==
  /\ At(r, "lists")
  /\ LET new == Listed \ known
     IN /\ Opens(new \cap disk)
        /\ Remember(new)
        /\ result' = result \cup (new \cap disk)
  /\ Reply(r, "lists")
  /\ UNCHANGED <<disk, moves, scanGen, scanned, walked, request, sure>>

Serve(r) == \/ Look(r) \/ Check(r) \/ Snapshot(r) \/ Discover(r) \/ rescanRaw(r)
            \/ LookAgain(r) \/ Known(r) \/ Open(r) \/ Register(r) \/ View(r) \/ lists(r)

Next ==
  \/ \E p \in Projects : Move(p)
  \/ replaceScan
  \/ \E r \in Requests : Arrive(r) \/ Serve(r)

\* Handlers are goroutines of a live process; a walk is bounded by maxResults
\* and timeoutMs.
Spec == Init /\ [][Next]_vars /\ \A r \in Requests : WF_vars(Serve(r))

-----------------------------------------------------------------------------
TypeOK ==
  /\ disk \subseteq Projects /\ known \subseteq Projects /\ result \subseteq Projects
  /\ moves \in 0..MaxMoves
  /\ scanGen \in Configs /\ walked \in Configs
  /\ scanned \in BOOLEAN
  /\ opened \in [Projects -> Nat]
  /\ \A p \in Projects : stores[p] \in 0..opened[p] /\ (stores[p] # 0 => p \in known)
  /\ pc \in [Requests -> {"idle", "look", "check", "snapshot", "walk", "install", "look_again",
                          "known", "open", "register", "view", "lists", "done"}]
  /\ gen \in [Requests -> Configs] /\ found \in [Requests -> SUBSET Projects]
  /\ answer \in [Requests -> {"none", "store", "not_found", "no_directory", "list",
                              "nothing", "lists"}]

\* A walk of roots that have been replaced meanwhile never becomes the cached
\* result: no lister sees projects of a configuration that is gone.
CacheIsCurrent == scanned => walked = scanGen

\* The first requests of the process race over the first walk, and over
\* changes of the roots: none is told "no project" of a directory that was
\* known, or there to be found, all the while.
NoFalseNotFound ==
  \A r \in Requests : sure[r] => /\ answer[r] # "not_found"
                               /\ (answer[r] = "no_directory" => About(r) \notin disk)

=============================================================================
