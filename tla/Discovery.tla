------------------------------- MODULE Discovery -------------------------------
(***************************************************************************)
(* The walk that finds the boards below the configured roots: a descent    *)
(* with bounds on depth, results and time, over directories that may be    *)
(* unreadable, linked to one another, or reached more than once.           *)
(*                                                                         *)
(* A directory is known by its canonical path.  Its entries are the        *)
(* directories in it, each by a name (conventional, hidden, excluded) and  *)
(* maybe by a symbolic link.                                               *)
(***************************************************************************)
EXTENDS Integers, Sequences, FiniteSets, SequencesExt

CONSTANTS
  Dirs,
  Worlds,  \* file systems and roots: see World
  Options  \* scan options: see Option

Name   == [named : BOOLEAN, hidden : BOOLEAN, excluded : BOOLEAN]
Entry  == [to : Dirs, link : BOOLEAN, name : Name]
World  == [board : SUBSET Dirs, unreadable : SUBSET Dirs, entries : [Dirs -> Seq(Entry)],
           roots : Seq([dir : Dirs, named : BOOLEAN])]
Option == [depth : Nat, follow : BOOLEAN, hidden : BOOLEAN, results : Nat \ {0}]

\* Only links form cycles: a directory is further down than the one that holds it.
Layered(w) ==
  \E rank \in [Dirs -> 0..Cardinality(Dirs)] :
    \A d \in Dirs : \A e \in ToSet(w.entries[d]) : e.link \/ rank[d] < rank[e.to]

\* ASSUMEd in MCConfiguration.
DiscoveryAssumption ==
  /\ IsFiniteSet(Dirs)
  /\ Worlds \subseteq World /\ \A w \in Worlds : Layered(w)
  /\ Options \subseteq Option

VARIABLES
  world, opts,
  roots,   \* the roots still to be walked
  stack,   \* the calls of walk(): directory, depth, entries left
  found,   \* what has been matched, in order
  skipped, \* the directories that could not be read
  partial, \* w.partial
  late     \* the deadline has passed

vars == <<world, opts, roots, stack, found, skipped, partial, late>>

-----------------------------------------------------------------------------
Init ==
  /\ world \in Worlds /\ opts \in Options
  /\ roots = world.roots
  /\ stack = <<>> /\ found = <<>> /\ skipped = {}
  /\ partial = FALSE /\ late = FALSE

Stop == Len(found) >= opts.results \/ late

Done == roots = <<>> /\ stack = <<>>

\* Conventional names face the emptiness test; seen paths are not matched again.
Match(dir) == found' = IF dir \in world.board /\ dir \notin ToSet(found) THEN Append(found, dir) ELSE found

\* os.SameFile with the chain above.
Cycle(dir, above) == \E i \in DOMAIN above : above[i].dir = dir

Leave == stack' = Front(stack)

Counted(dir) == skipped \cup {dir}

\* Bug: the directories at the bound are not listed.
TooDeepBug(depth) == opts.depth > 0 /\ depth >= opts.depth

TooDeep(depth) == opts.depth > 0 /\ depth > opts.depth

\* walk(dir, depth, above): what is checked before the entries are read.
\* Called on the stack that is left when the entry has been taken.
Descend(dir, depth, above) ==
  IF Stop \/ TooDeep(depth) \/ (opts.follow /\ Cycle(dir, above))
  THEN /\ stack' = above /\ UNCHANGED skipped
       /\ partial' = (partial \/ Stop)
  ELSE IF dir \in world.unreadable
  THEN /\ stack' = above /\ skipped' = Counted(dir) /\ UNCHANGED partial
  ELSE /\ stack' = Append(above, [dir |-> dir, depth |-> depth, left |-> world.entries[dir]])
       /\ UNCHANGED <<skipped, partial>>

\* A root that has a conventional name is matched if it is a board, and walked
\* if it is not.
Root ==
  /\ stack = <<>> /\ roots # <<>>
  /\ IF Stop
     THEN partial' = TRUE /\ roots' = <<>> /\ UNCHANGED <<stack, found, skipped>>
     ELSE /\ roots' = Tail(roots)
          /\ LET root == Head(roots)
             IN IF root.named /\ root.dir \in world.board
                THEN Match(root.dir) /\ UNCHANGED <<stack, skipped, partial>>
                ELSE Descend(root.dir, 0, <<>>) /\ UNCHANGED found
  /\ UNCHANGED <<world, opts, late>>

\* isDir(), includeHidden and excludes.
Eligible(e) ==
  /\ e.link => opts.follow
  /\ opts.hidden \/ ~e.name.hidden \/ e.name.named
  /\ ~e.name.excluded

Passed(top) == [top EXCEPT !.left = Tail(@)]

\* One entry of the directory at the top of the stack.
Walk ==
  /\ stack # <<>>
  /\ LET top  == Last(stack)
         e    == Head(top.left)
         rest == Append(Front(stack), Passed(top))
     IN IF top.left = <<>> THEN Leave /\ UNCHANGED <<found, skipped, partial>>
        ELSE IF Stop THEN Leave /\ partial' = TRUE /\ UNCHANGED <<found, skipped>>
        ELSE IF ~Eligible(e) THEN stack' = rest /\ UNCHANGED <<found, skipped, partial>>
        ELSE IF e.name.named THEN Match(e.to) /\ stack' = rest /\ UNCHANGED <<skipped, partial>>
        ELSE Descend(e.to, top.depth + 1, rest) /\ UNCHANGED found
  /\ UNCHANGED <<world, opts, roots, late>>

Deadline ==
  /\ ~late /\ ~Done
  /\ late' = TRUE
  /\ UNCHANGED <<world, opts, roots, stack, found, skipped, partial>>

Next == Root \/ Walk \/ Deadline

Spec == Init /\ [][Next]_vars /\ WF_vars(Root \/ Walk)

-----------------------------------------------------------------------------
\* What there is to find, by distance from a root rather than by descent.
RootMatches == {world.roots[i].dir : i \in {j \in DOMAIN world.roots :
                  world.roots[j].named /\ world.roots[j].dir \in world.board}}
RootWalks   == {world.roots[i].dir : i \in {j \in DOMAIN world.roots :
                  ~(world.roots[j].named /\ world.roots[j].dir \in world.board)}}

From(ds, named) == {e \in UNION {ToSet(world.entries[d]) : d \in ds \ world.unreadable} :
                      Eligible(e) /\ e.name.named = named}

Bound == IF opts.depth = 0 THEN Cardinality(Dirs) ELSE opts.depth

Within[n \in 0..Bound] ==
  IF n = 0 THEN RootWalks
  ELSE Within[n - 1] \cup {e.to : e \in From(Within[n - 1], FALSE)}

Reached == Within[Bound]
Boards  == RootMatches \cup ({e.to : e \in From(Reached, TRUE)} \cap world.board)

TypeOK ==
  /\ found \in Seq(Dirs) /\ skipped \subseteq Dirs
  /\ partial \in BOOLEAN /\ late \in BOOLEAN
  /\ Len(stack) <= 1 + Cardinality(Dirs)

\* A board is listed once, however many roots and links lead to it.
ListedOnce == IsInjective(found)

\* Only boards within the bounds are found, and a scan that missed one says so:
\* "a silently truncated scan is indistinguishable from a missing project".
PartialIsSaid ==
  /\ ToSet(found) \subseteq Boards
  /\ Done /\ ~partial => ToSet(found) = Boards

\* A directory that cannot be read takes out no other, and is counted.
UnreadableIsCounted == Done /\ ~partial => skipped = Reached \cap world.unreadable

=============================================================================
