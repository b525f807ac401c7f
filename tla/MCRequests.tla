------------------------------ MODULE MCRequests ------------------------------
(***************************************************************************)
(* Requests that overlap, two at a time, over what they read before they   *)
(* write: the theme files, the lists of projects, the registry of open     *)
(* stores and the forms of an item.  They share no state; a behaviour of   *)
(* the run is one of one of them, while the others rest in an initial      *)
(* state.                                                                  *)
(***************************************************************************)
EXTENDS MCThemes

CONSTANTS
  None,
  Projects, Reach, Explicit, Listed, MaxConfig, MaxMoves,            \* Registry
  People, Stages, WakeTo, NeedsReason, Prios, Texts, MaxWrites,     \* Forms
  Alpha, Beta, Gamma                                                 \* the projects of Lists

VARIABLES
  about,  \* what the requests are about
  disk, moves, scanGen, scanned, result, walked, stores, known, opened, at, want, gen, found, told,
  sure,                                                       \* Registry
  item, form, saving, moved, writes,                          \* Forms
  file, clock, where, wish, stamp, held, over, raced          \* Lists

registry == <<disk, moves, scanGen, scanned, result, walked, stores, known, opened, at, want, gen,
              found, told, sure>>
forms    == <<item, form, saving, moved, writes>>
lists    == <<file, clock, where, wish, stamp, held, over, raced>>
everything == <<about, vars, registry, forms, lists>>

\* Two projects: one that the first configuration reaches and the second does
\* not, one the other way around, which the command line names.
ReachOne == 0 :> {Alpha} @@ 1 :> {Beta}

Registry == INSTANCE Registry WITH
  Asks <- {"resolve", "discovery", "rescan", "lists"}, pc <- at, ask <- want, answer <- told

\* One item on the three stages of a board, in two forms.
WakesOnce == "someday" :> "later" @@ "later" :> "blocked"

Forms == INSTANCE Forms WITH dest <- WakeTo, needs_reason <- NeedsReason

\* Three projects in a list of two; documents that name one twice, come from
\* the future, or are in no order.
E(id, time, order, extra) == [id |-> id, at |-> time, order |-> order, extra |-> extra]

Recent == INSTANCE Lists WITH
  Kind <- "recent", Projects <- {Alpha, Beta, Gamma}, Writers <- Requests,
  Asks <- {<<"touch", Alpha>>, <<"touch", Beta>>, <<"touch", Gamma>>, <<"put", Alpha>>},
  Puts <- {<<E(Alpha, 2, 0, 1), E(Beta, 1, 0, 0), E(Alpha, 0, 0, 0)>>, <<E(Beta, 1, 0, 1), E(Gamma, 2, 0, 0)>>},
  MaxStored <- 2, MaxClock <- 2, pc <- where, ask <- wish

Favorites == INSTANCE Lists WITH
  Kind <- "favorites", Projects <- {Alpha, Beta, Gamma}, Writers <- Requests,
  Asks <- {<<"toggle", Alpha>>, <<"toggle", Gamma>>, <<"reorder", Alpha, 2>>, <<"reorder", Gamma, -1>>, <<"reorder", Beta, 9>>, <<"put", Alpha>>},
  Puts <- {<<E(Beta, 0, 7, 0), E(Alpha, 0, 1, 1), E(Gamma, 0, 1, 0), E(Beta, 0, 0, 0)>>},
  MaxStored <- 2, MaxClock <- 1, pc <- where, ask <- wish

ASSUME RequestsAssumption ==
  /\ Registry!RegistryAssumption
  /\ Forms!FormsAssumption
  /\ Recent!ListsAssumption /\ Favorites!ListsAssumption

RequestsInit ==
  /\ about \in {"themes", "registry", "forms", "recent", "favorites"}
  /\ Init          /\ (about # "themes" => /\ files = [x \in Files |-> Missing] /\ projectId = Unset /\ systemId = Unset
                                          /\ ask = [x \in Requests |-> CHOOSE y \in Asks : TRUE])
  /\ Registry!Init /\ (about # "registry" => disk = {Alpha} /\ \A x \in Requests : want[x] = <<"discovery", Alpha>>)
  /\ Forms!Init    /\ (about # "forms" => item = [title |-> "a", prio |-> None, reason |-> None,
                                                 stage |-> "later", tickler |-> None, paused |-> FALSE,
                                                 dest |-> None, tickled |-> FALSE, body |-> None])
  /\ about = "forms" =>  \* bound: a body, or a schedule and what belongs to it
       /\ item.body = None \/ item.tickler = None
       /\ item.body # None => item.stage = "later"
       /\ item.tickler # None => item.stage = "someday"
       /\ item.paused <=> item.dest # None
  /\ Recent!Init

RequestsNext ==
  /\ UNCHANGED about
  /\ IF about = "themes"   THEN Next          ELSE UNCHANGED vars
  /\ IF about = "registry" THEN Registry!Next ELSE UNCHANGED registry
  /\ IF about = "forms"    THEN Forms!Next    ELSE UNCHANGED forms
  /\ CASE about = "recent"    -> Recent!Next
       [] about = "favorites" -> Favorites!Next
       [] OTHER               -> UNCHANGED lists

RequestsSpec == RequestsInit /\ [][RequestsNext]_everything

Symmetry == Permutations(People) \cup Permutations(Requests)

-----------------------------------------------------------------------------
\* Registry: no result of replaced roots is kept, and no project is denied
\* that was there to be found.
NoFalseNotFound == Registry!TypeOK /\ Registry!CacheIsCurrent /\ Registry!NoFalseNotFound

\* Forms: a save changes what its person changed, on the item its form shows.
EditKeepsTheRest == Forms!EditKeepsTheRest /\ [](about = "forms" => Forms!TypeOK)

\* Lists: two writers lose no more than one edit, and keep the list a list.
OldEntriesSurvive ==
  /\ [][\A w \in Requests :
       /\ about = "recent" /\ Recent!Saves(w) =>
            Recent!Survive(w) /\ Recent!OnceEach(w) /\ Recent!OpenedIsFirst(w)
       /\ about = "favorites" /\ Favorites!Saves(w) =>
            Favorites!Survive(w) /\ Favorites!OnceEach(w) /\ Favorites!DragMovesOne(w)]_lists
  /\ [](/\ about = "recent" => Recent!TypeOK
        /\ about = "favorites" => Favorites!TypeOK)

=============================================================================
