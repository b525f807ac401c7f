------------------------------- MODULE MCBroker -------------------------------
(***************************************************************************)
(* The broker four times over the same variables:                          *)
(*   "opening"  one tab on a project that may not open; a change of the    *)
(*              data, which is two events, and one of the theme            *)
(*   "failing"  the same, with a read that fails instead of the theme      *)
(*   "slow"     two tabs and one poller of a project that opens, and two   *)
(*              changes of the data over channels of one                   *)
(*   "late"     the same with two pollers, and a tab that comes when the   *)
(*              channel of the other has been closed                       *)
(* A tab that may cancel what would refresh it is a only, and in "late"    *)
(* none is.  The constants of the run are those of "opening".              *)
(***************************************************************************)
EXTENDS Broker, TLC

CONSTANTS a, b  \* two tabs

VARIABLE part

BoardAndItem == <<"board", "item">>
ThemeOnly    == <<"theme">>
OneOfEach    == "data" :> 1 @@ "theme" :> 1

Failing == INSTANCE Broker WITH
  MaxChanges <- "data" :> 1 @@ "theme" :> 0, MaxFaults <- 1

Late == INSTANCE Broker WITH
  Buffer <- 1, DataEvents <- <<"board">>, MayNotOpen <- FALSE,
  MaxChanges <- "data" :> 2 @@ "theme" :> 0

Slow == INSTANCE Broker WITH
  Buffer <- 1, DataEvents <- <<"board">>, MayNotOpen <- FALSE, MaxPollers <- 1,
  MaxChanges <- "data" :> 2 @@ "theme" :> 0

ASSUME Failing!BrokerAssumption /\ Late!BrokerAssumption /\ Slow!BrokerAssumption

BrokerInit == part \in {"opening", "failing", "slow", "late"} /\ Init

BrokerNext ==
  /\ UNCHANGED part
  /\ \/ part = "opening" /\ Next /\ stream'[b] = "none"  \* b stays away
     \/ part = "failing" /\ Failing!Next /\ stream'[b] = "none"
     \/ part = "slow" /\ Slow!Next /\ b \notin deaf'
     \/ /\ part = "late"
        /\ Late!Next /\ deaf' = {}
        /\ stream[b] = "none" /\ a \notin shut => stream'[b] = "none"  \* b comes late

\* An action of the parts is enabled in one part when it is in another; where
\* they differ in what a poller does (publication, reads that fail), it comes
\* back to the steps they have in common, so that one statement serves all.
BrokerSpec == BrokerInit /\ [][BrokerNext]_<<part, vars>> /\ Fairness

=============================================================================
