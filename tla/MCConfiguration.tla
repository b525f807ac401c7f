---------------------------- MODULE MCConfiguration ----------------------------
(***************************************************************************)
(* The configuration and what a service does with it: two requests over    *)
(* one file with a running tickler (MCSettings), or the walk of the        *)
(* configured roots.  The two share no state: a behaviour of the run is    *)
(* one of one of them.                                                     *)
(***************************************************************************)
EXTENDS MCSettings

CONSTANTS
  Dirs, Worlds, Options,     \* of Discovery
  home, code, deep, one, two \* three directories and two boards

VARIABLES
  part,
  world, scan, roots, stack, found, skipped, partial, late  \* Discovery

walk == <<world, scan, roots, stack, found, skipped, partial, late>>

-----------------------------------------------------------------------------
(* A plain tree two levels deep with an unreadable and a hidden directory, *)
(* the same with links that form a cycle and lead to one board twice, and  *)
(* roots that overlap.                                                     *)

Directories == {home, code, deep, one, two}

Plain    == [named |-> FALSE, hidden |-> FALSE, excluded |-> FALSE]
Named    == [Plain EXCEPT !.named = TRUE]
Dotted   == [Plain EXCEPT !.hidden = TRUE]
DotNamed == [Named EXCEPT !.hidden = TRUE]
Vendor   == [Plain EXCEPT !.excluded = TRUE]

In(dir, n)   == [to |-> dir, link |-> FALSE, name |-> n]
Link(dir, n) == [to |-> dir, link |-> TRUE, name |-> n]
Below(dir)      == [dir |-> dir, named |-> FALSE]
Itself(dir)  == [dir |-> dir, named |-> TRUE]

Entries(h, c, d) == [x \in Directories |-> CASE x = home -> h [] x = code -> c [] x = deep -> d [] OTHER -> <<>>]

Tree(n, unreadable, rs) ==
  [board |-> {one, two}, unreadable |-> unreadable, roots |-> rs,
   entries |-> Entries(<<In(code, Plain), In(one, Named)>>, <<In(deep, n)>>, <<In(two, DotNamed)>>)]

\* deep links back to home, and code to a board that has another name there.
Linked(rs) ==
  [board |-> {one, two}, unreadable |-> {}, roots |-> rs,
   entries |-> Entries(<<In(code, Plain), Link(deep, Plain)>>,
                       <<In(deep, Plain), Link(two, Named)>>,
                       <<Link(home, Plain), In(two, DotNamed), Link(one, Named)>>)]

\* A directory with a conventional name and no board in it.
Hollow == [board |-> {two}, unreadable |-> {}, roots |-> <<Itself(one), Below(code), Below(two), Itself(two)>>,
           entries |-> Entries(<<>>, <<In(one, Named), In(deep, Plain)>>, <<In(two, Named)>>)]

Trees == {Tree(n, u, rs) : n \in {Plain, Dotted, Vendor}, u \in {{}, {code}, {deep}},
                           rs \in {<<Below(home)>>, <<Below(deep), Below(home), Itself(one)>>}}
           \cup {Linked(<<Below(home)>>), Linked(<<Below(code), Below(home)>>), Hollow}

ScanOptions == {[depth |-> d, follow |-> f, hidden |-> h, results |-> n] :
                  d \in 0..2, f \in BOOLEAN, h \in BOOLEAN, n \in {1, 2, 5}}

Discovery == INSTANCE Discovery WITH opts <- scan

ASSUME ScanAssumption == Discovery!DiscoveryAssumption

-----------------------------------------------------------------------------
ConfigurationInit ==
  /\ part \in {"settings", "discovery"}
  /\ Init           /\ (part # "settings" => ask = [x \in Requests |-> Dry(Put(Broken))])
  /\ Discovery!Init /\ (part # "discovery" => <<world, scan>> = CHOOSE x \in Worlds \X Options : TRUE)

ConfigurationNext ==
  /\ UNCHANGED part
  /\ IF part = "settings"  THEN Next           ELSE UNCHANGED vars
  /\ IF part = "discovery" THEN Discovery!Next ELSE UNCHANGED walk

\* The goroutines of the settings are at rest while the roots are walked.
ConfigurationSpec == ConfigurationInit /\ [][ConfigurationNext]_<<part, vars, walk>> /\ Fairness

-----------------------------------------------------------------------------
\* A scan lists each board within its bounds once, unless it says that it is
\* partial, and counts every directory that it could not read.
ScanIsComplete ==
  part = "discovery" =>
    /\ Discovery!TypeOK /\ Discovery!ListedOnce
    /\ Discovery!PartialIsSaid /\ Discovery!UnreadableIsCounted

\* Every save is answered, though it may wait for a pass in progress, and the
\* loop stops with the service, unless a save is starting another.
ServiceSettles == SavesReturn /\ StopsWithService

=============================================================================
