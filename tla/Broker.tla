------------------------------- MODULE Broker --------------------------------
(***************************************************************************)
(* The event broker of the web service, for one project: event streams of  *)
(* browser tabs, the goroutine that polls the directory's fingerprint for  *)
(* them, publication over bounded channels, and shutdown.  The maps of the *)
(* broker are keyed by project and the entries of two projects share only  *)
(* the mutex and the closed flag, so one project's entries are the state.  *)
(*                                                                         *)
(* A critical section of b.mu is one action.  A tab shows what it last     *)
(* fetched; it fetches on an event, and on losing its stream (mm.js polls  *)
(* while the stream is down).  The script of the page cancels a refresh of *)
(* the board while an item is being moved, and for a moment after a change *)
(* of its own, whose answer it has just shown: nobody announces that       *)
(* refresh again.  A request of a page and its answer are one step.        *)
(***************************************************************************)
EXTENDS Integers, Sequences, FiniteSets

CONSTANTS
  Tabs,        \* browser tabs, one event stream each
  Buffer,      \* capacity of a subscriber's channel
  DataEvents,  \* the events one change of the data files is published as;
               \* "board" refreshes the board and its status, the others
               \* panels of their own
  ThemeEvents, \* the events one change of the theme file is published as
  MayNotOpen,  \* opening the project may fail
  MaxPollers,  \* bound: pollers started
  MaxChanges,  \* bound: changes to the data, and to the theme
  MaxFaults    \* bound: fingerprints and stats that fail

\* ASSUMEd of the other instances in MCBroker.
BrokerAssumption ==
  /\ Buffer \in Nat \ {0}
  /\ DataEvents \in Seq(STRING) /\ ThemeEvents \in Seq(STRING)
  /\ \E i \in 1..Len(DataEvents) : DataEvents[i] = "board"
  /\ Len(DataEvents) \in 1..Buffer /\ Len(ThemeEvents) \in 1..Buffer
  /\ MayNotOpen \in BOOLEAN
  /\ MaxPollers \in Nat /\ MaxFaults \in Nat /\ MaxChanges \in [{"data", "theme"} -> Nat]

ASSUME BrokerAssumption

Pollers == 1..MaxPollers
Files   == {"data", "theme"}
Names   == {DataEvents[i] : i \in 1..Len(DataEvents)}
           \cup {ThemeEvents[i] : i \in 1..Len(ThemeEvents)}

Unseen  == [f \in Files |-> 0]

VARIABLES
  disk,      \* the version of the data files, and of the theme file
  subs,      \* b.subs: the tabs registered
  cancels,   \* b.cancels: the poller it cancels, 0 for none
  started,   \* pollers started so far; their ids are 1..started
  poller,    \* where each poller is
  cancelled, \* the pollers whose context is done
  last,      \* what each poller saw last; 0 when it could not tell
  channel,   \* each tab's channel
  shut,      \* the tabs whose channel is closed
  stream,    \* where each tab's stream is
  view,      \* the versions each tab shows, on its board and of the theme
  deaf,      \* the tabs that cancel what would refresh their board
  closing,   \* how far close() has come
  faults     \* reads that have failed so far

vars == <<disk, subs, cancels, started, poller, cancelled, last, channel, shut,
          stream, view, deaf, closing, faults>>

hub  == <<subs, cancels, started>>
tabs == <<channel, shut, stream, view, deaf>>

Init ==
  /\ disk = [f \in Files |-> 1]
  /\ subs = {} /\ cancels = 0 /\ started = 0
  /\ poller = [p \in Pollers |-> "unborn"]
  /\ cancelled = {}
  /\ last = [p \in Pollers |-> Unseen]
  /\ channel = [t \in Tabs |-> <<>>]
  /\ shut = {}
  /\ stream = [t \in Tabs |-> "none"]
  /\ view = [t \in Tabs |-> Unseen]
  /\ deaf = {}
  /\ closing = "no"
  /\ faults = 0

\* Counted by b.wg.
Running == {p \in Pollers : poller[p] \notin {"unborn", "done"}}

-----------------------------------------------------------------------------
(* The world: files change, tabs load pages and go away.                   *)

Change(f) ==
  /\ disk[f] <= MaxChanges[f]
  /\ disk' = [disk EXCEPT ![f] = @ + 1]
  /\ UNCHANGED <<hub, poller, cancelled, last, tabs, closing, faults>>

\* The page is served with what the files say now.
Serve(t) ==
  /\ stream[t] = "none"
  /\ stream' = [stream EXCEPT ![t] = "page"]
  /\ view' = [view EXCEPT ![t] = disk]
  /\ UNCHANGED <<disk, hub, poller, cancelled, last, channel, shut, deaf, closing, faults>>

\* An item is picked up, or is being moved by keys.
PickUp(t) ==
  /\ stream[t] # "none"
  /\ deaf' = deaf \cup {t}
  /\ UNCHANGED <<disk, hub, poller, cancelled, last, channel, shut, stream, view, closing, faults>>

\* A change the tab makes is answered with the new board; what would refresh
\* it now is taken for the echo of that.
ChangeOwn(t) ==
  /\ stream[t] # "none" /\ disk["data"] <= MaxChanges["data"]
  /\ disk' = [disk EXCEPT !["data"] = @ + 1]
  /\ view' = [view EXCEPT ![t].data = disk["data"] + 1]
  /\ deaf' = deaf \cup {t}
  /\ UNCHANGED <<hub, poller, cancelled, last, channel, shut, stream, closing, faults>>

\* The item is put back, or the echo's time is over.
ListenAgain(t) ==
  /\ t \in deaf
  /\ deaf' = deaf \ {t}
  /\ UNCHANGED <<disk, hub, poller, cancelled, last, channel, shut, stream, view, closing, faults>>

\* What a tab shows after a refresh.  The board's is cancelled in a tab that is
\* deaf; a new theme takes the whole page along.
Fetched(t, name) ==
  IF name \in {ThemeEvents[i] : i \in 1..Len(ThemeEvents)} THEN disk
  ELSE IF name = "board" /\ t \notin deaf THEN [view[t] EXCEPT !.data = disk.data]
  ELSE view[t]

\* The stream ended: the client polls every region at once, but the shell with
\* its theme, then reconnects.
PollWhileDown(t) ==
  /\ stream[t] = "down"
  /\ stream' = [stream EXCEPT ![t] = "page"]
  /\ view' = [view EXCEPT ![t] = Fetched(t, "board")]
  /\ UNCHANGED <<disk, hub, poller, cancelled, last, channel, shut, deaf, closing, faults>>

-----------------------------------------------------------------------------
(* Event streams.                                                          *)

\* The first subscriber starts the poller.  After close() the channel handed
\* back is a closed one, and the handler returns at once.
Subscribe(t) ==
  /\ stream[t] = "page"
  /\ IF closing # "no"
     THEN /\ stream' = [stream EXCEPT ![t] = "down"]
          /\ UNCHANGED <<hub, poller>>
     ELSE /\ IF subs = {}
             THEN /\ started < MaxPollers
                  /\ started' = started + 1
                  /\ cancels' = started + 1
                  /\ poller' = [poller EXCEPT ![started + 1] = "resolving"]
             ELSE UNCHANGED <<started, cancels, poller>>
          /\ subs' = subs \cup {t}
          /\ stream' = [stream EXCEPT ![t] = "open"]
  /\ UNCHANGED <<disk, cancelled, last, channel, shut, view, deaf, closing, faults>>

\* The handler writes an event to the stream, and the client fetches.
Receive(t) ==
  /\ stream[t] = "open"
  /\ channel[t] # <<>>
  /\ channel' = [channel EXCEPT ![t] = Tail(@)]
  /\ view' = [view EXCEPT ![t] = Fetched(t, Head(channel[t]))]
  /\ UNCHANGED <<disk, hub, poller, cancelled, last, shut, stream, deaf, closing, faults>>

\* The handler returns: its channel was closed, the tab went away, or the
\* service is stopping.
EndStream(t) ==
  /\ stream[t] = "open"
  /\ stream' = [stream EXCEPT ![t] = "ending"]
  /\ UNCHANGED <<disk, hub, poller, cancelled, last, channel, shut, view, deaf, closing, faults>>

Dropped(t) == stream[t] = "open" /\ channel[t] = <<>> /\ t \in shut

\* The handler is gone, and its channel; the tab is closed, or is without a
\* stream.
Gone(t) ==
  /\ channel' = [channel EXCEPT ![t] = <<>>]
  /\ shut' = shut \ {t}
  /\ \/ /\ stream' = [stream EXCEPT ![t] = "down"]
        /\ UNCHANGED <<view, deaf>>
     \/ /\ stream' = [stream EXCEPT ![t] = "none"]
        /\ view' = [view EXCEPT ![t] = Unseen]
        /\ deaf' = deaf \ {t}

\* Bug: the poller stops with whichever stream ends first.
unsubscribeBug(t) ==
  /\ stream[t] = "ending"
  /\ subs' = subs \ {t}
  /\ cancelled' = cancelled \cup ({cancels} \ {0})
  /\ cancels' = 0
  /\ Gone(t)
  /\ UNCHANGED <<disk, started, poller, last, closing, faults>>

\* The handler's deferred call.  The last stream cancels the poller; a stream
\* that publish() has dropped is no longer registered, and still counts.
unsubscribe(t) ==
  /\ stream[t] = "ending"
  /\ subs' = subs \ {t}
  /\ IF subs \ {t} = {}
     THEN cancelled' = cancelled \cup ({cancels} \ {0}) /\ cancels' = 0
     ELSE UNCHANGED <<cancelled, cancels>>
  /\ Gone(t)
  /\ UNCHANGED <<disk, started, poller, last, closing, faults>>

-----------------------------------------------------------------------------
(* The poller.                                                             *)

Step(p, from, to) == poller[p] = from /\ poller' = [poller EXCEPT ![p] = to]

\* What a fingerprint or a stat answers: the version, or 0 when it fails.
Answers(f) == {disk[f]} \cup IF faults < MaxFaults THEN {0} ELSE {}

CountFault(answer) == faults' = IF answer = 0 THEN faults + 1 ELSE faults

\* The poller of a project the registry cannot open is over.
resolve(p) ==
  /\ \/ Step(p, "resolving", "baseline")
     \/ MayNotOpen /\ Step(p, "resolving", "done")
  /\ UNCHANGED <<disk, hub, cancelled, last, tabs, closing, faults>>

Baseline(p, f, from, to) ==
  /\ Step(p, from, to)
  /\ \E answer \in Answers(f) :
       last' = [last EXCEPT ![p][f] = answer] /\ CountFault(answer)
  /\ UNCHANGED <<disk, hub, cancelled, tabs, closing>>

BaselineData(p)  == Baseline(p, "data", "baseline", "baselineTheme")
BaselineTheme(p) == Baseline(p, "theme", "baselineTheme", "select")

\* One half of a tick: the data's, then the theme's.  An unknown answer is
\* not a change.
Tick(p, f, from, news, none) ==
  /\ poller[p] = from
  /\ \E answer \in Answers(f) :
       /\ poller' = [poller EXCEPT ![p] = IF answer \in {0, last[p][f]} THEN none ELSE news]
       /\ last' = [last EXCEPT ![p][f] = IF answer = 0 THEN @ ELSE answer]
       /\ CountFault(answer)
  /\ UNCHANGED <<disk, hub, cancelled, tabs, closing>>

TickData(p)  == Tick(p, "data", "select", "publishData", "tickTheme")
TickTheme(p) == Tick(p, "theme", "tickTheme", "publishTheme", "select")

Room(t) == Buffer - Len(channel[t])

\* A subscriber without room for all of the events gets those that fit, is
\* dropped, and has its channel closed; the poller is not cancelled with it.
publish(p, events, from, to) ==
  LET slow == {t \in subs : Room(t) < Len(events)}
  IN /\ Step(p, from, to)
     /\ channel' = [t \in Tabs |->
                      CASE t \in slow        -> channel[t] \o SubSeq(events, 1, Room(t))
                        [] t \in subs \ slow -> channel[t] \o events
                        [] OTHER             -> channel[t]]
     /\ subs' = subs \ slow
     /\ shut' = shut \cup slow
     /\ UNCHANGED <<disk, cancels, started, cancelled, last, stream, view, deaf, closing, faults>>

PublishData(p)  == publish(p, DataEvents, "publishData", "tickTheme")
PublishTheme(p) == publish(p, ThemeEvents, "publishTheme", "select")

\* ctx.Done() is looked at in the select, nowhere else.
Stop(p) ==
  /\ p \in cancelled
  /\ Step(p, "select", "done")
  /\ last' = [last EXCEPT ![p] = Unseen]
  /\ UNCHANGED <<disk, hub, cancelled, tabs, closing, faults>>

-----------------------------------------------------------------------------
(* close(): the flag goes up, the pollers' root context is cancelled, and  *)
(* the pollers are waited for.                                             *)

RaiseFlag ==
  /\ closing = "no"
  /\ closing' = "flag"
  /\ UNCHANGED <<disk, hub, poller, cancelled, last, tabs, faults>>

\* Bug: the pollers are cancelled by the handles that are kept of them.
CancelRootBug ==
  /\ closing = "flag"
  /\ closing' = "waiting"
  /\ cancelled' = cancelled \cup ({cancels} \ {0})
  /\ UNCHANGED <<disk, hub, poller, last, tabs, faults>>

CancelRoot ==
  /\ closing = "flag"
  /\ closing' = "waiting"
  /\ cancelled' = cancelled \cup Running
  /\ UNCHANGED <<disk, hub, poller, last, tabs, faults>>

Waited ==
  /\ closing = "waiting"
  /\ Running = {}
  /\ closing' = "closed"
  /\ UNCHANGED <<disk, hub, poller, cancelled, last, tabs, faults>>

Handler(t) == Receive(t) \/ (Dropped(t) /\ EndStream(t)) \/ unsubscribe(t) \/ PollWhileDown(t)

Poll(p) == \/ resolve(p) \/ BaselineData(p) \/ BaselineTheme(p) \/ TickData(p)
           \/ PublishData(p) \/ TickTheme(p) \/ PublishTheme(p)

Next ==
  \/ \E f \in Files : Change(f)
  \/ \E t \in Tabs : \/ Serve(t) \/ Subscribe(t) \/ EndStream(t) \/ Handler(t)
                     \/ PickUp(t) \/ ChangeOwn(t) \/ ListenAgain(t)
  \/ \E p \in Pollers : Poll(p) \/ Stop(p)
  \/ RaiseFlag \/ CancelRoot \/ Waited

\* Goroutines in live processes; the ticker ticks.  A select with two ready
\* cases chooses at random, so a context that is done is not passed over for
\* ever.  A tab reads its stream, or its connection ends.
Fairness ==
  /\ \A t \in Tabs : WF_vars(Handler(t))
  /\ \A p \in Pollers : WF_vars(Poll(p)) /\ SF_vars(Stop(p))
  /\ WF_vars(CancelRoot) /\ WF_vars(Waited)

Spec == Init /\ [][Next]_vars /\ Fairness

-----------------------------------------------------------------------------
TypeOK ==
  /\ disk \in [Files -> Nat]
  /\ subs \subseteq Tabs
  /\ cancels \in 0..MaxPollers
  /\ started \in 0..MaxPollers
  /\ poller \in [Pollers -> {"unborn", "resolving", "baseline", "baselineTheme", "select",
                             "publishData", "tickTheme", "publishTheme", "done"}]
  /\ cancelled \subseteq Pollers
  /\ last \in [Pollers -> [Files -> Nat]]
  /\ channel \in [Tabs -> Seq(Names)] /\ \A t \in Tabs : Len(channel[t]) <= Buffer
  /\ shut \subseteq Tabs
  /\ stream \in [Tabs -> {"none", "page", "open", "ending", "down"}]
  /\ view \in [Tabs -> [Files -> Nat]]
  /\ deaf \subseteq Tabs
  /\ closing \in {"no", "flag", "waiting", "closed"}
  /\ faults \in Nat

\* publish() sends to, and closes, channels that are open: a second close, or
\* a send after one, would take the process down.
ChannelsAreSound == \A t \in subs : t \notin shut /\ stream[t] \in {"open", "ending"}

\* Whoever is registered has a poller that will go on ("starting the project's
\* poller on the first subscriber", broker.go): a stream that ends, a slow one
\* that is dropped and their late unsubscribes never stop the poller of the
\* others.  The poller of a project that does not open is over without anybody
\* having stopped it, with its subscribers registered.
SubscribersArePolled ==
  subs # {} /\ closing \in {"no", "flag"} =>
    \E p \in Running \cup {q \in Pollers : MayNotOpen /\ poller[q] = "done"} : p \notin cancelled

\* When close() returns no poller runs, and none is ever started again.
CloseIsFinal == closing = "closed" => Running = {}

\* What holds at every moment: the channels are used as Go allows, whoever is
\* registered is polled for, and close() leaves nothing behind.
BrokerSound == TypeOK /\ ChannelsAreSound /\ SubscribersArePolled /\ CloseIsFinal

\* A tab shows what a poller has seen of the data, or is about to be told.
Told(t, p) ==
  \/ view[t].data >= last[p].data \/ poller[p] = "publishData"
  \/ \E i \in 1..Len(channel[t]) : channel[t][i] = "board"

\* The tab takes an event and cancels the refresh.
Swallows(t) == t \in deaf /\ channel'[t] # channel[t] /\ view'[t] = view[t] /\ stream'[t] = "open"

\* No step but the tab's own filter takes that away from a registered tab, once
\* the poller has its baseline: not a full channel, a failed read, another
\* tab's coming and going, or another poller.  (What changes between a page and
\* the baseline of its poller is told to nobody.)
NoEventLost ==
  [][\A t \in subs \cap subs' : \A p \in Running :
       poller[p] \notin {"resolving", "baseline"} /\ Told(t, p) => Told(t, p)' \/ Swallows(t)]_vars

\* close() returns, whatever the pollers are at.
CloseReturns == closing = "flag" ~> closing = "closed"

\* A tab is behind, and a poller has still to see that.
Behind(t) ==
  /\ t \in subs /\ view[t].data < disk.data
  /\ \E p \in Running : p \notin cancelled /\ last[p].data \in 1..(disk.data - 1)

CaughtUp(t) == view[t].data = disk.data \/ stream[t] # "open" \/ closing # "no"

\* A tab that is behind, under a poller that has not seen all of the data, comes
\* to show what has changed: it is told, or its stream ends and it fetches.  No
\* event is lost for a full channel, a failed read, or another tab's coming and
\* going; and what the tab itself did not listen to comes with the next change.
ChangesArrive == \A t \in Tabs : Behind(t) ~> CaughtUp(t) \/ t \in deaf

=============================================================================
