----------------------------- MODULE BrokerProofs -----------------------------
(***************************************************************************)
(* What the broker promises at every moment, for any number of tabs and    *)
(* pollers, any capacity of the channels and any events: TLC checks two    *)
(* tabs and two pollers over channels of one and two.                      *)
(*                                                                         *)
(* The argument.  A tab without a handler is not registered and its        *)
(* channel is open (Streams), so a new registration never takes over a     *)
(* closed channel, and publish() closes one only as it takes it out of     *)
(* the registry.  Pollers are born in the order of their ids (Births), so  *)
(* the one the first subscriber starts has been cancelled by nobody; and   *)
(* the handle that is kept is of the poller of those who are registered    *)
(* (Handled), because whoever cancels it leaves nobody registered.         *)
(***************************************************************************)
EXTENDS Broker, TLAPS

\* Only a tab whose handler runs is registered or has a channel that is closed,
\* and never both.
Streams ==
  /\ \A t \in Tabs : stream[t] \in {"open", "ending"} \/ (t \notin subs /\ t \notin shut)
  /\ subs \cap shut = {}

\* The pollers born are those with the first ids, and only they are cancelled.
Births ==
  /\ \A p \in Pollers : poller[p] = "unborn" <=> p > started
  /\ cancels <= started
  /\ \A p \in cancelled : p <= started

\* Until the service stops, the handle kept is of a poller nobody has
\* cancelled; a poller is over when it was cancelled or its project did not open.
Handled ==
  /\ subs # {} => cancels # 0 /\ (closing \in {"no", "flag"} => cancels \notin cancelled)
  /\ \A p \in Pollers : poller[p] = "done" => p \in cancelled \/ MayNotOpen

\* Nobody has seen data that was never there.
Seen == \A p \in Pollers : last[p].data <= disk.data

BrokerInv == TypeOK /\ Streams /\ Births /\ Handled /\ CloseIsFinal

\* The steps of the registry, of a tab's handler and of a poller, one by one.
TabStep(t)    == \/ Serve(t) \/ Subscribe(t) \/ EndStream(t) \/ Receive(t)
                 \/ unsubscribe(t) \/ PollWhileDown(t)
                 \/ PickUp(t) \/ ChangeOwn(t) \/ ListenAgain(t)
PollerStep(p) == Poll(p) \/ Stop(p)
CloseStep     == RaiseFlag \/ CancelRoot \/ Waited

-----------------------------------------------------------------------------
(* Facts about the constants and the helpers.                              *)

\* Both kinds of publication are sequences of names that fit into a channel.
LEMMA Events ==
  /\ DataEvents \in Seq(Names) /\ Len(DataEvents) \in 1..Buffer
  /\ ThemeEvents \in Seq(Names) /\ Len(ThemeEvents) \in 1..Buffer
<1>1. /\ DataEvents \in [1..Len(DataEvents) -> STRING] /\ Len(DataEvents) \in Nat
      /\ ThemeEvents \in [1..Len(ThemeEvents) -> STRING] /\ Len(ThemeEvents) \in Nat
  BY BrokerAssumption DEF BrokerAssumption
<1>2. DataEvents \in [1..Len(DataEvents) -> Names] /\ ThemeEvents \in [1..Len(ThemeEvents) -> Names]
  BY <1>1 DEF Names
<1>3. DataEvents \in Seq(Names) /\ ThemeEvents \in Seq(Names)
  BY <1>1, <1>2
<1> QED BY <1>3, BrokerAssumption DEF BrokerAssumption

\* The next state is reached by a change of the files or one of the steps.
LEMMA NextSteps ==
  Next => \/ \E f \in Files : Change(f)
          \/ \E t \in Tabs : TabStep(t)
          \/ \E p \in Pollers : PollerStep(p)
          \/ CloseStep
BY DEF Next, Handler, TabStep, PollerStep, CloseStep

\* What is answered is a version, or 0.
LEMMA AnswersNat == ASSUME TypeOK, NEW f \in Files PROVE Answers(f) \subseteq Nat
BY DEF TypeOK, Answers

\* A subscriber gets what fits, and no more.
LEMMA Published ==
  ASSUME NEW c \in Seq(Names), Len(c) <= Buffer,
         NEW events \in Seq(Names), Len(events) \in 1..Buffer
  PROVE  /\ Buffer - Len(c) < Len(events) =>
              /\ c \o SubSeq(events, 1, Buffer - Len(c)) \in Seq(Names)
              /\ Len(c \o SubSeq(events, 1, Buffer - Len(c))) <= Buffer
         /\ Buffer - Len(c) >= Len(events) =>
              c \o events \in Seq(Names) /\ Len(c \o events) <= Buffer
<1>1. Len(c) \in Nat /\ Buffer \in Nat /\ Len(events) \in Nat
  BY BrokerAssumption DEF BrokerAssumption
<1>2. CASE Buffer - Len(c) < Len(events)
  <2>1. Buffer - Len(c) \in 0..Len(events)
    BY <1>1, <1>2
  <2>2. SubSeq(events, 1, Buffer - Len(c)) \in Seq(Names)
    BY <2>1
  <2>3. Len(SubSeq(events, 1, Buffer - Len(c))) = Buffer - Len(c)
    BY <2>1
  <2> QED BY <1>1, <1>2, <2>1, <2>2, <2>3
<1>3. CASE Buffer - Len(c) >= Len(events)
  BY <1>1, <1>3
<1> QED BY <1>1, <1>2, <1>3

-----------------------------------------------------------------------------
(* Type correctness.                                                       *)

\* The initial states are well typed.
LEMMA InitTypes == Init => TypeOK
<1> SUFFICES ASSUME Init PROVE TypeOK
  OBVIOUS
<1> USE DEF Init
<1>1. MaxPollers \in Nat /\ Buffer \in Nat
  BY BrokerAssumption DEF BrokerAssumption
<1>2. <<>> \in Seq(Names) /\ Len(<<>>) = 0
  OBVIOUS
<1>3. channel \in [Tabs -> Seq(Names)] /\ \A t \in Tabs : Len(channel[t]) <= Buffer
  BY <1>1, <1>2
<1>4. disk \in [Files -> Nat] /\ Unseen \in [Files -> Nat]
  BY DEF Unseen
<1> QED BY <1>1, <1>3, <1>4 DEF TypeOK

\* The handler that is gone leaves its tab well typed.
LEMMA GoneTypes ==
  ASSUME TypeOK, NEW t \in Tabs, Gone(t)
  PROVE  /\ channel' \in [Tabs -> Seq(Names)] /\ \A x \in Tabs : Len(channel'[x]) <= Buffer
         /\ shut' \subseteq Tabs
         /\ stream' \in [Tabs -> {"none", "page", "open", "ending", "down"}]
         /\ view' \in [Tabs -> [Files -> Nat]]
         /\ deaf' \subseteq Tabs
<1>1. <<>> \in Seq(Names) /\ Len(<<>>) = 0 /\ Buffer \in Nat
  BY BrokerAssumption DEF BrokerAssumption
<1>2. channel' \in [Tabs -> Seq(Names)] /\ \A x \in Tabs : Len(channel'[x]) <= Buffer
  BY <1>1 DEF TypeOK, Gone
<1>3. Unseen \in [Files -> Nat]
  BY DEF Unseen
<1>4. view' \in [Tabs -> [Files -> Nat]]
  BY <1>3 DEF TypeOK, Gone
<1> QED BY <1>2, <1>4 DEF TypeOK, Gone

\* What a tab shows after a refresh is a version of each of the files.
LEMMA FetchedTypes ==
  ASSUME TypeOK, NEW t \in Tabs, NEW name
  PROVE  Fetched(t, name) \in [Files -> Nat]
BY DEF TypeOK, Fetched, Files

\* A step of a tab or its handler keeps the types.
LEMMA TabTypes == ASSUME TypeOK, NEW t \in Tabs, TabStep(t) PROVE TypeOK'
<1> USE DEF hub, tabs
<1>1. CASE Serve(t)
  BY <1>1 DEF TypeOK, Serve
<1>2. CASE Subscribe(t)
  <2>1. MaxPollers \in Nat
    BY BrokerAssumption DEF BrokerAssumption
  <2>2. started' \in 0..MaxPollers /\ cancels' \in 0..MaxPollers
    BY <1>2, <2>1 DEF TypeOK, Subscribe
  <2>3. poller' \in [Pollers -> {"unborn", "resolving", "baseline", "baselineTheme", "select",
                                 "publishData", "tickTheme", "publishTheme", "done"}]
    BY <1>2 DEF TypeOK, Subscribe
  <2>4. subs' \subseteq Tabs /\ stream' \in [Tabs -> {"none", "page", "open", "ending", "down"}]
    BY <1>2 DEF TypeOK, Subscribe
  <2> QED BY <1>2, <2>2, <2>3, <2>4 DEF TypeOK, Subscribe
<1>3. CASE EndStream(t)
  BY <1>3 DEF TypeOK, EndStream
<1>4. CASE Receive(t)
  <2>1. channel[t] \in Seq(Names) /\ channel[t] # <<>> /\ Len(channel[t]) <= Buffer
    BY <1>4 DEF TypeOK, Receive
  <2>2. Tail(channel[t]) \in Seq(Names) /\ Len(Tail(channel[t])) <= Buffer
    BY <2>1, BrokerAssumption DEF BrokerAssumption
  <2>3. channel' \in [Tabs -> Seq(Names)] /\ \A x \in Tabs : Len(channel'[x]) <= Buffer
    BY <1>4, <2>2 DEF TypeOK, Receive
  <2>4. Fetched(t, Head(channel[t])) \in [Files -> Nat]
    BY FetchedTypes
  <2>5. view' \in [Tabs -> [Files -> Nat]]
    BY <1>4, <2>4 DEF TypeOK, Receive
  <2> QED BY <1>4, <2>3, <2>5 DEF TypeOK, Receive
<1>5. CASE unsubscribe(t)
  <2>1. subs' \subseteq Tabs
    BY <1>5 DEF TypeOK, unsubscribe
  <2>2. cancels' \in 0..MaxPollers /\ cancelled' \subseteq Pollers
    <3>1. MaxPollers \in Nat /\ cancels \in 0..MaxPollers /\ cancelled \subseteq Pollers
      BY BrokerAssumption DEF TypeOK, BrokerAssumption
    <3>2. {cancels} \ {0} \subseteq Pollers
      BY <3>1 DEF Pollers
    <3>3. \/ cancelled' = cancelled \cup ({cancels} \ {0}) /\ cancels' = 0
          \/ UNCHANGED <<cancelled, cancels>>
      BY <1>5 DEF unsubscribe
    <3> QED BY <3>1, <3>2, <3>3
  <2> QED BY <1>5, <2>1, <2>2, GoneTypes DEF TypeOK, unsubscribe
<1>6. CASE PollWhileDown(t)
  <2>1. view' \in [Tabs -> [Files -> Nat]]
    BY <1>6, FetchedTypes DEF TypeOK, PollWhileDown
  <2> QED BY <1>6, <2>1 DEF TypeOK, PollWhileDown
<1>7. CASE PickUp(t) \/ ListenAgain(t)
  BY <1>7 DEF TypeOK, PickUp, ListenAgain
<1>8. CASE ChangeOwn(t)
  <2>1. disk["data"] + 1 \in Nat
    BY DEF TypeOK, Files
  <2>2. [view[t] EXCEPT !.data = disk["data"] + 1] \in [Files -> Nat]
    BY <2>1 DEF TypeOK
  <2>3. view' \in [Tabs -> [Files -> Nat]]
    BY <1>8, <2>2 DEF TypeOK, ChangeOwn
  <2>4. disk' \in [Files -> Nat]
    BY <1>8, <2>1 DEF TypeOK, ChangeOwn
  <2> QED BY <1>8, <2>3, <2>4 DEF TypeOK, ChangeOwn
<1> QED BY <1>1, <1>2, <1>3, <1>4, <1>5, <1>6, <1>7, <1>8 DEF TabStep

\* Both publications keep the types.
LEMMA PublishTypes ==
  ASSUME TypeOK, NEW p \in Pollers, NEW from, NEW to \in {"tickTheme", "select"},
         NEW events \in Seq(Names), Len(events) \in 1..Buffer, publish(p, events, from, to)
  PROVE  TypeOK'
<1> DEFINE slow == {t \in subs : Room(t) < Len(events)}
<1>1. \A t \in Tabs : channel[t] \in Seq(Names) /\ Len(channel[t]) <= Buffer
  BY DEF TypeOK
<1>2. /\ channel' \in [Tabs -> Seq(Names)]
      /\ \A t \in Tabs : Len(channel'[t]) <= Buffer
  <2>1. channel' = [t \in Tabs |->
                      CASE t \in slow        -> channel[t] \o SubSeq(events, 1, Room(t))
                        [] t \in subs \ slow -> channel[t] \o events
                        [] OTHER             -> channel[t]]
    BY DEF publish
  <2>2. ASSUME NEW t \in Tabs PROVE channel'[t] \in Seq(Names) /\ Len(channel'[t]) <= Buffer
    <3>1. CASE t \in slow
      <4>1. channel'[t] = channel[t] \o SubSeq(events, 1, Buffer - Len(channel[t]))
        BY <2>1, <3>1 DEF Room
      <4>2. Buffer - Len(channel[t]) < Len(events)
        BY <3>1 DEF Room
      <4> QED BY <1>1, <4>1, <4>2, Published
    <3>2. CASE t \in subs \ slow
      <4>1. channel'[t] = channel[t] \o events
        BY <2>1, <3>2
      <4>2. Buffer - Len(channel[t]) >= Len(events)
        BY <1>1, <3>2, BrokerAssumption DEF Room, BrokerAssumption
      <4> QED BY <1>1, <4>1, <4>2, Published
    <3>3. CASE t \notin subs
      <4>1. channel'[t] = channel[t]
        BY <2>1, <3>3
      <4> QED BY <1>1, <4>1
    <3> QED BY <3>1, <3>2, <3>3
  <2> QED BY <2>1, <2>2
<1>3. subs' \subseteq Tabs /\ shut' \subseteq Tabs
  BY DEF TypeOK, publish
<1>4. poller' \in [Pollers -> {"unborn", "resolving", "baseline", "baselineTheme", "select",
                               "publishData", "tickTheme", "publishTheme", "done"}]
  BY DEF TypeOK, publish, Step
<1> QED BY <1>2, <1>3, <1>4 DEF TypeOK, publish

\* A step of a poller keeps the types.
LEMMA PollerTypes == ASSUME TypeOK, NEW p \in Pollers, PollerStep(p) PROVE TypeOK'
<1> USE DEF hub, tabs, Step
<1>1. CASE resolve(p)
  BY <1>1 DEF TypeOK, resolve
<1>2. ASSUME NEW f \in Files, NEW from, NEW to \in {"baselineTheme", "select"}, Baseline(p, f, from, to)
      PROVE  TypeOK'
  <2>1. PICK answer \in Answers(f) : last' = [last EXCEPT ![p][f] = answer] /\ CountFault(answer)
    BY <1>2 DEF Baseline
  <2>2. answer \in Nat
    BY AnswersNat
  <2>3. last' \in [Pollers -> [Files -> Nat]] /\ faults' \in Nat
    BY <2>1, <2>2 DEF TypeOK, CountFault
  <2> QED BY <1>2, <2>3 DEF TypeOK, Baseline
<1>3. ASSUME NEW f \in Files, NEW from, Tick(p, f, from, "publishData", "tickTheme") \/ Tick(p, f, from, "publishTheme", "select")
      PROVE  TypeOK'
  <2>1. PICK news \in {"publishData", "publishTheme"}, none \in {"tickTheme", "select"} : Tick(p, f, from, news, none)
    BY <1>3
  <2>2. PICK answer \in Answers(f) :
          /\ poller' = [poller EXCEPT ![p] = IF answer \in {0, last[p][f]} THEN none ELSE news]
          /\ last' = [last EXCEPT ![p][f] = IF answer = 0 THEN @ ELSE answer]
          /\ CountFault(answer)
    BY <2>1 DEF Tick
  <2>3. answer \in Nat
    BY AnswersNat
  <2>4. last' \in [Pollers -> [Files -> Nat]] /\ faults' \in Nat
    BY <2>2, <2>3 DEF TypeOK, CountFault
  <2>5. poller' \in [Pollers -> {"unborn", "resolving", "baseline", "baselineTheme", "select",
                                 "publishData", "tickTheme", "publishTheme", "done"}]
    BY <2>2 DEF TypeOK
  <2> QED BY <2>1, <2>4, <2>5 DEF TypeOK, Tick
<1>4. CASE Stop(p)
  <2>1. Unseen \in [Files -> Nat]
    BY DEF Unseen
  <2> QED BY <1>4, <2>1 DEF TypeOK, Stop
<1>5. "data" \in Files /\ "theme" \in Files
  BY DEF Files
<1>6. CASE PublishData(p) \/ PublishTheme(p)
  BY <1>6, Events, PublishTypes DEF PublishData, PublishTheme
<1> QED BY <1>1, <1>2, <1>3, <1>4, <1>5, <1>6
        DEF PollerStep, Poll, BaselineData, BaselineTheme, TickData, TickTheme

\* Every step keeps the types.
LEMMA NextTypes == TypeOK /\ [Next]_vars => TypeOK'
<1> SUFFICES ASSUME TypeOK, [Next]_vars PROVE TypeOK'
  OBVIOUS
<1> USE DEF hub, tabs
<1>1. ASSUME NEW f \in Files, Change(f) PROVE TypeOK'
  BY <1>1 DEF TypeOK, Change
<1>2. CASE CloseStep
  <2>1. Running \subseteq Pollers
    BY DEF Running
  <2> QED BY <1>2, <2>1 DEF TypeOK, CloseStep, RaiseFlag, CancelRoot, Waited
<1>3. CASE UNCHANGED vars
  BY <1>3 DEF TypeOK, vars
<1> QED BY <1>1, <1>2, <1>3, NextSteps, TabTypes, PollerTypes

\* Type correctness.
THEOREM BrokerTypes == Spec => []TypeOK
BY InitTypes, NextTypes, PTL DEF Spec

-----------------------------------------------------------------------------
(* The registry, the channels and the pollers.                             *)

\* The handler that is gone has left the registry and takes its channel along.
LEMMA GoneStreams ==
  ASSUME TypeOK, Streams, NEW t \in Tabs, Gone(t), subs' = subs \ {t}
  PROVE  Streams'
<1>1. \A x \in Tabs : x # t => stream'[x] = stream[x]
  BY DEF TypeOK, Gone
<1>2. shut' = shut \ {t}
  BY DEF Gone
<1> QED BY <1>1, <1>2 DEF Streams

\* Registration, publication and the end of a handler keep the two apart.
LEMMA NextStreams == TypeOK /\ Streams /\ [Next]_vars => Streams'
<1> SUFFICES ASSUME TypeOK, Streams, [Next]_vars PROVE Streams'
  OBVIOUS
<1> USE DEF hub, tabs
<1>1. ASSUME NEW f \in Files, Change(f) PROVE Streams'
  BY <1>1 DEF Streams, Change
<1>2. ASSUME NEW t \in Tabs, TabStep(t) PROVE Streams'
  <2>1. CASE Serve(t) \/ PollWhileDown(t)
    <3>1. /\ \A x \in Tabs : x # t => stream'[x] = stream[x]
          /\ t \notin subs /\ t \notin shut
      BY <2>1 DEF TypeOK, Streams, Serve, PollWhileDown
    <3> QED BY <2>1, <3>1 DEF Streams, Serve, PollWhileDown
  <2>2. CASE Subscribe(t)
    <3>1. t \notin subs /\ t \notin shut
      BY <2>2 DEF Streams, Subscribe
    <3>2. \A x \in Tabs : x # t => stream'[x] = stream[x]
      BY <2>2 DEF TypeOK, Subscribe
    <3>3. CASE closing # "no"
      BY <2>2, <3>1, <3>2, <3>3 DEF Streams, Subscribe
    <3>4. CASE closing = "no"
      <4>1. subs' = subs \cup {t} /\ stream'[t] = "open" /\ shut' = shut
        BY <2>2, <3>4 DEF TypeOK, Subscribe
      <4> QED BY <3>1, <3>2, <4>1 DEF Streams
    <3> QED BY <3>3, <3>4
  <2>3. CASE EndStream(t)
    BY <2>3 DEF TypeOK, Streams, EndStream
  <2>4. CASE Receive(t)
    BY <2>4 DEF Streams, Receive
  <2>5. CASE unsubscribe(t)
    BY <2>5, GoneStreams DEF unsubscribe
  <2>6. CASE PickUp(t) \/ ChangeOwn(t) \/ ListenAgain(t)
    BY <2>6 DEF Streams, PickUp, ChangeOwn, ListenAgain
  <2> QED BY <1>2, <2>1, <2>2, <2>3, <2>4, <2>5, <2>6 DEF TabStep
<1>3. ASSUME NEW p \in Pollers, PollerStep(p) PROVE Streams'
  <2>1. ASSUME NEW events, NEW from, NEW to, publish(p, events, from, to) PROVE Streams'
    BY <2>1 DEF Streams, publish
  <2>2. CASE PublishData(p) \/ PublishTheme(p)
    BY <2>1, <2>2 DEF PublishData, PublishTheme
  <2>3. CASE resolve(p) \/ BaselineData(p) \/ BaselineTheme(p) \/ TickData(p) \/ TickTheme(p) \/ Stop(p)
    BY <2>3 DEF Streams, resolve, BaselineData, BaselineTheme, Baseline, TickData, TickTheme, Tick, Stop
  <2> QED BY <1>3, <2>2, <2>3 DEF PollerStep, Poll
<1>4. CASE CloseStep
  BY <1>4 DEF Streams, CloseStep, RaiseFlag, CancelRoot, Waited
<1>5. CASE UNCHANGED vars
  BY <1>5 DEF Streams, vars
<1> QED BY <1>1, <1>2, <1>3, <1>4, <1>5, NextSteps

\* A step of a poller takes it from one place in its loop to another, and it is
\* over when its project did not open or its context is done.
LEMMA PollerMoves ==
  ASSUME TypeOK, NEW p \in Pollers, PollerStep(p)
  PROVE  /\ \A q \in Pollers : q # p => poller'[q] = poller[q]
         /\ poller[p] \notin {"unborn", "done"} /\ poller'[p] # "unborn"
         /\ poller'[p] = "done" => p \in cancelled \/ MayNotOpen
         /\ subs' \subseteq subs
         /\ UNCHANGED <<cancels, started, cancelled, closing>>
<1> USE DEF hub, tabs, Step
<1>1. CASE resolve(p)
  BY <1>1 DEF TypeOK, resolve
<1>2. CASE BaselineData(p) \/ BaselineTheme(p)
  BY <1>2 DEF TypeOK, BaselineData, BaselineTheme, Baseline
<1>3. CASE TickData(p) \/ TickTheme(p)
  BY <1>3 DEF TypeOK, TickData, TickTheme, Tick
<1>4. CASE PublishData(p) \/ PublishTheme(p)
  BY <1>4 DEF TypeOK, PublishData, PublishTheme, publish
<1>5. CASE Stop(p)
  BY <1>5 DEF TypeOK, Stop
<1> QED BY <1>1, <1>2, <1>3, <1>4, <1>5 DEF PollerStep, Poll

\* Pollers are born one by one, and the handle is kept or given up with care.
LEMMA NextPollers ==
  TypeOK /\ Births /\ Handled /\ [Next]_vars => Births' /\ Handled'
<1> SUFFICES ASSUME TypeOK, Births, Handled, [Next]_vars PROVE Births' /\ Handled'
  OBVIOUS
<1> USE DEF hub, tabs
<1>1. /\ MaxPollers \in Nat /\ started \in 0..MaxPollers /\ cancels \in 0..MaxPollers
      /\ cancelled \subseteq Pollers /\ Pollers \subseteq Int
  BY BrokerAssumption DEF TypeOK, BrokerAssumption, Pollers
<1>2. ASSUME NEW f \in Files, Change(f) PROVE Births' /\ Handled'
  BY <1>2 DEF Births, Handled, Change
<1>3. ASSUME NEW t \in Tabs, TabStep(t) PROVE Births' /\ Handled'
  <2>1. CASE Serve(t) \/ PollWhileDown(t) \/ EndStream(t) \/ Receive(t)
    BY <2>1 DEF Births, Handled, Serve, PollWhileDown, EndStream, Receive
  <2>4. CASE PickUp(t) \/ ChangeOwn(t) \/ ListenAgain(t)
    BY <2>4 DEF Births, Handled, PickUp, ChangeOwn, ListenAgain
  <2>2. CASE Subscribe(t)
    <3>1. CASE closing = "no" /\ subs = {}
      <4>1. /\ started < MaxPollers /\ started' = started + 1 /\ cancels' = started + 1
            /\ poller' = [poller EXCEPT ![started + 1] = "resolving"]
            /\ UNCHANGED <<cancelled, closing>>
        BY <2>2, <3>1 DEF Subscribe
      <4>2. started + 1 \in Pollers
        BY <1>1, <4>1 DEF Pollers
      <4>3. poller'[started + 1] = "resolving" /\ \A p \in Pollers : p # started + 1 => poller'[p] = poller[p]
        BY <4>1, <4>2 DEF TypeOK
      <4>4. Births'
        BY <1>1, <4>1, <4>3 DEF Births
      <4>5. started + 1 \notin cancelled
        BY <1>1 DEF Births
      <4>6. Handled'
        BY <1>1, <4>1, <4>3, <4>5 DEF Handled
      <4> QED BY <4>4, <4>6
    <3>2. CASE closing # "no"
      BY <2>2, <3>2 DEF Births, Handled, Subscribe
    <3>3. CASE closing = "no" /\ subs # {}
      <4>1. UNCHANGED <<cancels, started, poller, cancelled, closing>>
        BY <2>2, <3>3 DEF Subscribe
      <4> QED BY <3>3, <4>1 DEF Births, Handled
    <3> QED BY <3>1, <3>2, <3>3
  <2>3. CASE unsubscribe(t)
    <3>1. UNCHANGED <<started, poller, closing>>
      BY <2>3 DEF unsubscribe
    <3>2. CASE subs \ {t} = {}
      <4>1. subs' = {} /\ cancelled' = cancelled \cup ({cancels} \ {0}) /\ cancels' = 0
        BY <2>3, <3>2 DEF unsubscribe
      <4> QED BY <1>1, <3>1, <4>1 DEF Births, Handled
    <3>3. CASE subs \ {t} # {}
      <4>1. subs # {} /\ UNCHANGED <<cancelled, cancels>>
        BY <2>3, <3>3 DEF unsubscribe
      <4> QED BY <3>1, <4>1 DEF Births, Handled
    <3> QED BY <3>2, <3>3
  <2> QED BY <1>3, <2>1, <2>2, <2>3, <2>4 DEF TabStep
<1>4. ASSUME NEW p \in Pollers, PollerStep(p) PROVE Births' /\ Handled'
  BY <1>4, PollerMoves DEF Births, Handled
<1>5. CASE CloseStep
  <2>1. CASE RaiseFlag
    BY <2>1 DEF Births, Handled, RaiseFlag
  <2>2. CASE CancelRoot
    <3>1. \A p \in Running : p \in Pollers /\ p <= started
      BY <1>1 DEF Births, Running
    <3> QED BY <2>2, <3>1 DEF Births, Handled, CancelRoot
  <2>3. CASE Waited
    BY <2>3 DEF Births, Handled, Waited
  <2> QED BY <1>5, <2>1, <2>2, <2>3 DEF CloseStep
<1>6. CASE UNCHANGED vars
  BY <1>6 DEF Births, Handled, vars
<1> QED BY <1>2, <1>3, <1>4, <1>5, <1>6, NextSteps

\* Once close() has returned nothing starts a poller.
LEMMA NextCloseIsFinal == TypeOK /\ CloseIsFinal /\ [Next]_vars => CloseIsFinal'
<1> SUFFICES ASSUME TypeOK, CloseIsFinal, [Next]_vars PROVE CloseIsFinal'
  OBVIOUS
<1> USE DEF hub, tabs
<1>1. ASSUME NEW f \in Files, Change(f) PROVE CloseIsFinal'
  BY <1>1 DEF CloseIsFinal, Running, Change
<1>2. ASSUME NEW t \in Tabs, TabStep(t) PROVE CloseIsFinal'
  <2>1. closing' = closing /\ (closing = "closed" => poller' = poller)
    BY <1>2 DEF TabStep, Serve, Subscribe, EndStream, Receive, unsubscribe, PollWhileDown,
                PickUp, ChangeOwn, ListenAgain
  <2> QED BY <2>1 DEF CloseIsFinal, Running
<1>3. ASSUME NEW p \in Pollers, PollerStep(p) PROVE CloseIsFinal'
  <2>1. p \in Running /\ closing' = closing
    BY <1>3, PollerMoves DEF Running
  <2> QED BY <2>1 DEF CloseIsFinal
<1>4. CASE CloseStep
  BY <1>4 DEF CloseIsFinal, Running, CloseStep, RaiseFlag, CancelRoot, Waited
<1>5. CASE UNCHANGED vars
  BY <1>5 DEF CloseIsFinal, Running, vars
<1> QED BY <1>1, <1>2, <1>3, <1>4, <1>5, NextSteps

-----------------------------------------------------------------------------
(* The theorems.                                                           *)

\* The invariant holds of the initial states,
LEMMA InitInv == Init => BrokerInv
<1> SUFFICES ASSUME Init PROVE BrokerInv
  OBVIOUS
<1>1. Pollers \subseteq Nat \ {0}
  BY BrokerAssumption DEF Pollers, BrokerAssumption
<1>2. Streams /\ Births /\ Handled /\ CloseIsFinal
  BY <1>1 DEF Init, Streams, Births, Handled, CloseIsFinal
<1> QED BY <1>2, InitTypes DEF BrokerInv

\* and every step keeps it.
LEMMA NextInv == BrokerInv /\ [Next]_vars => BrokerInv'
BY NextTypes, NextStreams, NextPollers, NextCloseIsFinal DEF BrokerInv

\* Whoever is registered has the poller whose handle is kept.
LEMMA InvSound == BrokerInv => BrokerSound
<1> SUFFICES ASSUME BrokerInv PROVE BrokerSound
  OBVIOUS
<1>1. ChannelsAreSound
  BY DEF BrokerInv, TypeOK, Streams, ChannelsAreSound
<1>2. SubscribersArePolled
  <2> SUFFICES ASSUME subs # {}, closing \in {"no", "flag"}
               PROVE  \E p \in Running \cup {q \in Pollers : MayNotOpen /\ poller[q] = "done"} : p \notin cancelled
    BY DEF SubscribersArePolled
  <2>1. cancels \in Pollers /\ cancels <= started /\ cancels \notin cancelled
    BY BrokerAssumption DEF BrokerInv, TypeOK, Births, Handled, Pollers, BrokerAssumption
  <2>2. poller[cancels] # "unborn"
    BY <2>1, BrokerAssumption DEF BrokerInv, TypeOK, Births, Pollers, BrokerAssumption
  <2>3. CASE poller[cancels] = "done"
    BY <2>1, <2>3 DEF BrokerInv, Handled
  <2>4. CASE poller[cancels] # "done"
    BY <2>1, <2>2, <2>4 DEF Running
  <2> QED BY <2>3, <2>4
<1> QED BY <1>1, <1>2 DEF BrokerInv, BrokerSound

\* The channels are used as Go allows, whoever is registered is polled for, and
\* close() leaves no poller behind.
THEOREM BrokerIsSound == Spec => []BrokerSound
BY InitInv, NextInv, InvSound, PTL DEF Spec

\* A project that opens is polled for by a poller that runs.
THEOREM OpenProjectsArePolled ==
  ASSUME MayNotOpen = FALSE
  PROVE  Spec => [](subs # {} /\ closing \in {"no", "flag"} => \E p \in Running : p \notin cancelled)
<1>1. BrokerSound => (subs # {} /\ closing \in {"no", "flag"} => \E p \in Running : p \notin cancelled)
  BY MayNotOpen = FALSE DEF BrokerSound, SubscribersArePolled
<1> QED BY <1>1, BrokerIsSound, PTL

-----------------------------------------------------------------------------
(* No event is lost.                                                       *)

\* What a poller saw last was on the disk.
LEMMA NextSeen == TypeOK /\ Seen /\ [Next]_vars => Seen'
<1> SUFFICES ASSUME TypeOK, Seen, [Next]_vars PROVE Seen'
  OBVIOUS
<1> USE DEF hub, tabs
<1>0. "data" \in Files /\ "theme" \in Files /\ "data" # "theme"
  BY DEF Files
<1>1. ASSUME NEW f \in Files, Change(f) PROVE Seen'
  BY <1>0, <1>1 DEF TypeOK, Seen, Change
<1>2. ASSUME NEW t \in Tabs, TabStep(t) PROVE Seen'
  <2>1. CASE ChangeOwn(t)
    BY <1>0, <2>1 DEF TypeOK, Seen, ChangeOwn
  <2>2. CASE ~ChangeOwn(t)
    BY <1>2, <2>2 DEF Seen, TabStep, Serve, Subscribe, EndStream, Receive, unsubscribe, PollWhileDown,
                      PickUp, ListenAgain
  <2> QED BY <2>1, <2>2
<1>3. ASSUME NEW p \in Pollers, PollerStep(p) PROVE Seen'
  <2>1. disk' = disk
    BY <1>3 DEF PollerStep, Poll, resolve, BaselineData, BaselineTheme, Baseline, TickData, TickTheme,
                Tick, PublishData, PublishTheme, publish, Stop
  <2>2. \A q \in Pollers : last'[q].data \in {last[q].data, disk.data, 0}
    <3>1. ASSUME NEW f \in Files, NEW from, NEW to, Baseline(p, f, from, to)
          PROVE  \A q \in Pollers : last'[q].data \in {last[q].data, disk.data, 0}
      <4>1. PICK answer \in Answers(f) : last' = [last EXCEPT ![p][f] = answer]
        BY <3>1 DEF Baseline
      <4>2. answer \in {disk[f], 0}
        BY DEF Answers
      <4> QED BY <1>0, <4>1, <4>2 DEF TypeOK, Files
    <3>2. ASSUME NEW f \in Files, NEW from, NEW news, NEW none, Tick(p, f, from, news, none)
          PROVE  \A q \in Pollers : last'[q].data \in {last[q].data, disk.data, 0}
      <4>1. PICK answer \in Answers(f) : last' = [last EXCEPT ![p][f] = IF answer = 0 THEN @ ELSE answer]
        BY <3>2 DEF Tick
      <4>2. answer \in {disk[f], 0}
        BY DEF Answers
      <4> QED BY <1>0, <4>1, <4>2 DEF TypeOK, Files
    <3>3. CASE resolve(p) \/ PublishData(p) \/ PublishTheme(p) \/ Stop(p)
      BY <1>0, <3>3 DEF TypeOK, resolve, PublishData, PublishTheme, publish, Stop, Unseen
    <3> QED BY <1>0, <1>3, <3>1, <3>2, <3>3
            DEF PollerStep, Poll, BaselineData, BaselineTheme, TickData, TickTheme
  <2>3. disk.data \in Nat
    BY <1>0 DEF TypeOK
  <2> QED BY <2>1, <2>2, <2>3 DEF Seen
<1>4. CASE CloseStep \/ UNCHANGED vars
  BY <1>4 DEF Seen, CloseStep, RaiseFlag, CancelRoot, Waited, vars
<1> QED BY <1>1, <1>2, <1>3, <1>4, NextSteps

\* A step of a poller takes away from no tab what another poller, or itself
\* after its baseline, has to tell it.
LEMMA PollerTells ==
  ASSUME TypeOK, Seen, NEW q \in Pollers, PollerStep(q),
         NEW t \in subs \cap subs', NEW p \in Running,
         poller[p] \notin {"resolving", "baseline"}, Told(t, p)
  PROVE  Told(t, p)'
<1> USE DEF hub, tabs, Step
<1>0. /\ "data" \in Files /\ "theme" \in Files /\ "data" # "theme"
      /\ p \in Pollers /\ t \in Tabs /\ view[t].data \in Nat
      /\ \A x \in Pollers : last[x] \in [Files -> Nat]
  BY DEF TypeOK, Files, Running
<1>1. ASSUME NEW events \in Seq(Names), Len(events) \in 1..Buffer, NEW from, NEW to, publish(q, events, from, to),
             p = q /\ from = "publishData" => \E i \in 1..Len(events) : events[i] = "board"
      PROVE  Told(t, p)'
  <2>1. t \in subs /\ ~(Room(t) < Len(events))
    BY <1>1 DEF publish
  <2>2. channel'[t] = channel[t] \o events
    BY <1>0, <1>1, <2>1 DEF publish
  <2>3. channel[t] \in Seq(Names)
    BY <1>0 DEF TypeOK
  <2>4. UNCHANGED <<view, last>>
    BY <1>1 DEF publish
  <2>5. ASSUME NEW i \in 1..Len(channel[t]), channel[t][i] = "board"
        PROVE  Told(t, p)'
    <3>1. i \in 1..Len(channel'[t]) /\ channel'[t][i] = "board"
      BY <1>1, <2>2, <2>3, <2>5
    <3> QED BY <3>1 DEF Told
  <2>6. ASSUME p = q, from = "publishData"
        PROVE  Told(t, p)'
    <3>1. PICK i \in 1..Len(events) : events[i] = "board"
      BY <1>1, <2>6
    <3>2. Len(channel[t]) + i \in 1..Len(channel'[t]) /\ channel'[t][Len(channel[t]) + i] = "board"
      BY <1>1, <2>2, <2>3, <3>1
    <3> QED BY <3>2 DEF Told
  <2>7. ASSUME poller[p] = "publishData", ~(p = q /\ from = "publishData")
        PROVE  Told(t, p)'
    <3>1. p # q
      BY <1>1, <2>7 DEF publish
    <3>2. poller'[p] = "publishData"
      BY <1>0, <1>1, <2>7, <3>1 DEF TypeOK, publish
    <3> QED BY <3>2 DEF Told
  <2>8. CASE view[t].data >= last[p].data
    BY <2>4, <2>8 DEF Told
  <2> QED BY <2>5, <2>6, <2>7, <2>8 DEF Told
<1>2. CASE PublishData(q) \/ PublishTheme(q)
  <2>1. \E i \in 1..Len(DataEvents) : DataEvents[i] = "board"
    BY BrokerAssumption DEF BrokerAssumption
  <2> QED BY <1>1, <1>2, <2>1, Events DEF PublishData, PublishTheme
<1>3. CASE TickData(q)
  <2>1. PICK answer \in Answers("data") :
          /\ poller' = [poller EXCEPT ![q] = IF answer \in {0, last[q].data} THEN "tickTheme" ELSE "publishData"]
          /\ last' = [last EXCEPT ![q]["data"] = IF answer = 0 THEN @ ELSE answer]
    BY <1>3 DEF TickData, Tick
  <2>2. UNCHANGED <<view, channel>> /\ poller[q] = "select"
    BY <1>3 DEF TickData, Tick
  <2>3. CASE p # q
    BY <1>0, <2>1, <2>2, <2>3 DEF TypeOK, Told
  <2>4. CASE p = q /\ answer \in {0, last[q].data}
    <3>1. last'[p].data = last[p].data
      BY <1>0, <2>1, <2>4 DEF TypeOK
    <3> QED BY <2>2, <2>4, <3>1 DEF Told
  <2>5. CASE p = q /\ answer \notin {0, last[q].data}
    BY <1>0, <2>1, <2>5 DEF TypeOK, Told
  <2> QED BY <2>3, <2>4, <2>5
<1>4. CASE TickTheme(q)
  BY <1>0, <1>4 DEF TypeOK, Told, TickTheme, Tick
<1>5. CASE BaselineTheme(q)
  BY <1>0, <1>5 DEF TypeOK, Told, BaselineTheme, Baseline
<1>6. CASE BaselineData(q)
  BY <1>0, <1>6 DEF TypeOK, Told, BaselineData, Baseline
<1>7. CASE resolve(q)
  BY <1>0, <1>7 DEF TypeOK, Told, resolve
<1>8. CASE Stop(q)
  BY <1>0, <1>8 DEF TypeOK, Told, Stop, Unseen
<1> QED BY <1>2, <1>3, <1>4, <1>5, <1>6, <1>7, <1>8 DEF PollerStep, Poll

\* A step of a tab fetches, or touches neither what it shows nor its channel,
\* or is the tab's filter.
LEMMA TabTells ==
  ASSUME TypeOK, Streams, Seen, NEW x \in Tabs, TabStep(x),
         NEW t \in subs \cap subs', NEW p \in Running, Told(t, p)
  PROVE  Told(t, p)' \/ Swallows(t)
<1> USE DEF hub, tabs
<1>0. p \in Pollers /\ t \in Tabs /\ "data" \in Files /\ \A y \in Tabs : view[y] \in [Files -> Nat]
  BY DEF TypeOK, Running, Files
<1>1. CASE Serve(x) \/ PollWhileDown(x)
  <2>1. x # t
    BY <1>1 DEF Streams, Serve, PollWhileDown
  <2> QED BY <1>0, <1>1, <2>1 DEF TypeOK, Told, Serve, PollWhileDown
<1>2. CASE Subscribe(x)
  <2>1. subs # {} /\ UNCHANGED <<view, channel, last>>
    BY <1>2 DEF Subscribe
  <2>2. poller' = poller
    BY <1>2, <2>1 DEF Subscribe
  <2> QED BY <2>1, <2>2 DEF Told
<1>3. CASE EndStream(x)
  BY <1>3 DEF Told, EndStream
<1>4. CASE Receive(x)
  <2>1. UNCHANGED <<disk, last, poller>>
    BY <1>4 DEF Receive
  <2>2. CASE x = t
    <3>1. /\ channel[t] \in Seq(Names) /\ channel[t] # <<>> /\ stream'[t] = "open"
          /\ channel'[t] = Tail(channel[t]) /\ view'[t] = Fetched(t, Head(channel[t]))
      BY <1>0, <1>4, <2>2 DEF TypeOK, Receive
    <3>2. CASE Fetched(t, Head(channel[t])).data = disk.data
      BY <1>0, <2>1, <3>1, <3>2 DEF Seen, Told, TypeOK
    <3>3. CASE Fetched(t, Head(channel[t])).data # disk.data
      <4>1. Fetched(t, Head(channel[t])) = view[t] /\ (Head(channel[t]) = "board" => t \in deaf)
        BY <1>0, <3>3 DEF TypeOK, Fetched
      <4>2. channel'[t] # channel[t]
        <5>1. Len(Tail(channel[t])) = Len(channel[t]) - 1 /\ Len(channel[t]) \in Nat
          BY <3>1
        <5>2. ASSUME Tail(channel[t]) = channel[t]
              PROVE  FALSE
          <6> DEFINE n == Len(channel[t])
          <6>1. n = n - 1 /\ n \in Nat
            BY <5>1, <5>2, Zenon
          <6> HIDE DEF n
          <6> QED BY <6>1
        <5> QED BY <3>1, <5>2
      <4>3. CASE Head(channel[t]) = "board"
        BY <3>1, <4>1, <4>2, <4>3 DEF Swallows
      <4>4. CASE Head(channel[t]) # "board"
        <5>1. ASSUME NEW i \in 1..Len(channel[t]), channel[t][i] = "board"
              PROVE  Told(t, p)'
          <6>1. i # 1
            BY <3>1, <4>4, <5>1
          <6>2. i - 1 \in 1..Len(channel'[t]) /\ channel'[t][i - 1] = "board"
            BY <3>1, <5>1, <6>1
          <6> QED BY <6>2 DEF Told
        <5> QED BY <2>1, <3>1, <4>1, <5>1 DEF Told
      <4> QED BY <4>3, <4>4
    <3> QED BY <3>2, <3>3
  <2>3. CASE x # t
    BY <1>0, <1>4, <2>1, <2>3 DEF TypeOK, Told, Receive
  <2> QED BY <2>2, <2>3
<1>5. CASE unsubscribe(x)
  <2>1. x # t /\ UNCHANGED <<last, poller>>
    BY <1>5 DEF unsubscribe
  <2>2. view'[t] = view[t] /\ channel'[t] = channel[t]
    BY <1>0, <1>5, <2>1 DEF TypeOK, unsubscribe, Gone
  <2> QED BY <2>1, <2>2 DEF Told
<1>6. CASE PickUp(x) \/ ListenAgain(x)
  BY <1>6 DEF Told, PickUp, ListenAgain
<1>7. CASE ChangeOwn(x)
  <2>1. disk["data"] \in Nat /\ last[p].data <= disk["data"] /\ UNCHANGED <<last, poller, channel>>
    BY <1>0, <1>7 DEF Seen, TypeOK, ChangeOwn
  <2>2. CASE x = t
    <3>1. view'[t].data = disk["data"] + 1
      BY <1>0, <1>7, <2>2 DEF TypeOK, ChangeOwn
    <3>2. last[p].data \in Nat
      BY <1>0 DEF TypeOK, Files
    <3> QED BY <2>1, <3>1, <3>2 DEF Told
  <2>3. CASE x # t
    BY <1>0, <1>7, <2>1, <2>3 DEF TypeOK, Told, ChangeOwn
  <2> QED BY <2>2, <2>3
<1> QED BY <1>1, <1>2, <1>3, <1>4, <1>5, <1>6, <1>7 DEF TabStep

\* No event is lost on the way from a poller to a tab, but to the tab's own
\* filter.
THEOREM NoEventIsLost == Spec => NoEventLost
<1>1. Init => Seen
  BY DEF Init, Seen, Unseen, Files
<1>2. BrokerInv /\ Seen /\ [Next]_vars => BrokerInv' /\ Seen'
  BY NextInv, NextSeen DEF BrokerInv
<1>3. BrokerInv /\ Seen /\ [Next]_vars =>
        [\A t \in subs \cap subs' : \A p \in Running :
           poller[p] \notin {"resolving", "baseline"} /\ Told(t, p) => Told(t, p)' \/ Swallows(t)]_vars
  <2> SUFFICES ASSUME BrokerInv, Seen, Next,
                      NEW t \in subs \cap subs', NEW p \in Running,
                      poller[p] \notin {"resolving", "baseline"}, Told(t, p)
               PROVE  Told(t, p)' \/ Swallows(t)
    OBVIOUS
  <2> USE DEF hub, tabs
  <2>1. ASSUME NEW f \in Files, Change(f) PROVE Told(t, p)'
    BY <2>1 DEF Told, Change
  <2>2. CASE CloseStep
    BY <2>2 DEF Told, CloseStep, RaiseFlag, CancelRoot, Waited
  <2> QED BY <2>1, <2>2, NextSteps, PollerTells, TabTells DEF BrokerInv
<1> QED BY <1>1, <1>2, <1>3, InitInv, PTL DEF Spec, NoEventLost

=============================================================================
