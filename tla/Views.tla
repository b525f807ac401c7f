--------------------------------- MODULE Views ---------------------------------
(***************************************************************************)
(* What a directory says it did: the periods of period.go, the report of   *)
(* report.go and the series of op_stats.go, over a directory whose items   *)
(* are begun, closed and archived as the days pass.                        *)
(*                                                                         *)
(* The three are read side by side by a person: a week of the series, its  *)
(* label given back as a period, and the report over it are about the same *)
(* days.  A date is its day number in Calendar; order, means and text are  *)
(* left out, a mean being a sum over days.                                 *)
(***************************************************************************)
EXTENDS Calendar, SequencesExt

CONSTANTS
  Items,   \* the items, made on the first day
  TagsOf,     \* their tags
  OutcomeOf,  \* and what becomes of each
  Births,  \* the days the directory may be made on
  DateOf, ISOWeekOf,  \* bound: the date, and the week, of each day a period may be about
  Span     \* bound: days lived through

Places   == {"ready", "working", "done", "archived"}
Outcomes == {"shipped", "cancelled", "obsolete"}
Tags     == {"a", "b"}

NoDay == 0

\* Tables of Calendar.
ViewsAssumption ==
  /\ Births \subseteq DOMAIN DateOf
  /\ \A n \in DOMAIN DateOf : DayNumber(DateOf[n]) = n /\ ISOWeekOf[n] = ISOWeek(DateOf[n])

WeekStart(n)   == n - ((n - DayNumber(AMonday)) % 7)
MonthStart(n)  == n - DateOf[n].d + 1
MonthLength(n) == DaysInMonth(DateOf[n].y, DateOf[n].m)
MonthEnd(n)    == MonthStart(n) + MonthLength(n) - 1
NextFirst(n)   == MonthStart(n) + MonthLength(n)

VARIABLES
  born,   \* history: the day the directory was made
  today,  \* the day an operation, or a reader, is on
  item,   \* where each item is, and its dates
  cutoff  \* the last month cutoff archived before

vars == <<born, today, item, cutoff>>

Init ==
  /\ born \in Births
  /\ today = born
  /\ item = [i \in Items |-> [place |-> "ready", created |-> born, started |-> NoDay, done |-> NoDay]]
  /\ cutoff = NoDay

In(places) == {i \in Items : item[i].place \in places}

NextDay ==
  /\ today < born + Span
  /\ today' = today + 1
  /\ UNCHANGED <<born, item, cutoff>>

Start(i) ==
  /\ item[i].place = "ready"
  /\ item' = [item EXCEPT ![i].place = "working",
                          ![i].started = IF @ = NoDay THEN today ELSE @]
  /\ UNCHANGED <<born, today, cutoff>>

Pause(i) ==
  /\ item[i].place = "working"
  /\ item' = [item EXCEPT ![i].place = "ready"]
  /\ UNCHANGED <<born, today, cutoff>>

\* An item may be closed from any stage, and for a day before this one, also
\* one before it was started.
Finish(i, when) ==
  /\ item[i].place \in {"ready", "working"}
  /\ item' = [item EXCEPT ![i].place = "done", ![i].done = when]
  /\ UNCHANGED <<born, today, cutoff>>

\* The months that have been over for some days are old enough.
ArchiveCutoff(age) ==
  LET limit == today - age
  IN IF limit < MonthEnd(limit) THEN MonthStart(limit) ELSE NextFirst(limit)

Archive(age) ==
  LET cut == ArchiveCutoff(age)
      old == {i \in In({"done"}) : item[i].done < cut}
  IN /\ old # {}
     /\ item' = [i \in Items |-> IF i \in old THEN [item[i] EXCEPT !.place = "archived"] ELSE item[i]]
     /\ cutoff' = cut
     /\ UNCHANGED <<born, today>>

Next ==
  \/ NextDay
  \/ \E i \in Items :
       \/ Start(i) \/ Pause(i)
       \/ \E ago \in 0..1 : Finish(i, today - ago)
  \/ \E age \in {0, 2} : Archive(age)

Spec == Init /\ [][Next]_vars

-----------------------------------------------------------------------------
(* Periods: NoDay is an open end.                                          *)

Period(since, until) == [since |-> since, until |-> until]
NoPeriod  == [error |-> "not a period"]
Unbounded(p) == p.since = NoDay /\ p.until = NoDay

PeriodContains(p, d) ==
  /\ d # NoDay
  /\ p.since # NoDay => p.since <= d
  /\ p.until # NoDay => d <= p.until

\* Bug: the first of January is taken to be in week 1.
isoWeekStartBug(y, w) == WeekStart(DayNumber(Date(y, 1, 1))) + 7 * (w - 1)

\* The fourth of January is in week 1.
isoWeekStart(y, w) == WeekStart(DayNumber(Date(y, 1, 4))) + 7 * (w - 1)

\* The Monday is asked for its own week: not every year has 53.
ParseWeek(y, w) ==
  LET start == isoWeekStart(y, w)
  IN IF w \in 1..53 /\ ISOWeekOf[start] = [y |-> y, w |-> w] THEN Period(start, start + 6) ELSE NoPeriod

ParseMonth(y, m) ==
  LET first == DayNumber(Date(y, m, 1))
  IN IF m \in 1..12 THEN Period(first, MonthEnd(first)) ELSE NoPeriod

ParsePeriod(t) ==
  LET lastWeek  == WeekStart(today) - 7
      lastMonth == MonthStart(today) - 1
  IN CASE t.kind = "all"        -> Period(NoDay, NoDay)
       [] t.kind = "today"      -> Period(today, today)
       [] t.kind = "yesterday"  -> Period(today - 1, today - 1)
       [] t.kind = "this-week"  -> Period(WeekStart(today), today)
       [] t.kind = "last-week"  -> Period(lastWeek, lastWeek + 6)
       [] t.kind = "this-month" -> Period(MonthStart(today), today)
       [] t.kind = "last-month" -> Period(MonthStart(lastMonth), lastMonth)
       [] t.kind = "days"       -> IF t.n < 1 THEN NoPeriod ELSE Period(today - (t.n - 1), today)
       [] t.kind = "week"       -> ParseWeek(t.y, t.w)
       [] t.kind = "month"      -> ParseMonth(t.y, t.m)

-----------------------------------------------------------------------------
(* The report.                                                             *)

\* The month groups of done.md, by their first days.
MonthsHeld == {MonthStart(item[i].done) : i \in In({"done"})}

\* Bug: a period that begins in the middle of the oldest month is taken not to
\* reach back.
archiveWarningBug(p) ==
  p.since # NoDay /\ MonthsHeld # {} /\ \A m \in MonthsHeld : p.since + 31 < m

archiveWarning(p) ==
  p.since # NoDay /\ MonthsHeld # {} /\ \A m \in MonthsHeld : p.since < m

\* The items of done.md, and of the archives when they are asked for.
Closed(p, archives) ==
  {i \in In({"done"} \cup IF archives THEN {"archived"} ELSE {}) :
     Unbounded(p) \/ PeriodContains(p, item[i].done)}

\* An archive is read if there is one.
ArchivesRead(archives) == archives /\ In({"archived"}) # {}

Group(key, items) == [key |-> key, items |-> items]

untagged(items) == {i \in items : TagsOf[i] = {}}

groupItems(items, by) ==
  LET groups ==
        CASE by = "none"    -> {Group("", items)}
          [] by = "outcome" -> {Group(o, {i \in items : OutcomeOf[i] = o}) : o \in Outcomes}
                               \cup {Group("(no outcome)", {i \in items : OutcomeOf[i] \notin Outcomes})}
          [] by = "day"     -> {Group(d, {i \in items : item[i].done = d}) : d \in {item[i].done : i \in items}}
          [] by = "tag"     -> {Group(t, {i \in items : t \in TagsOf[i]}) : t \in Tags}
                               \cup {Group("(untagged)", untagged(items))}
  IN {g \in groups : g.items # {}}

Report(p, archives, by) ==
  [done    |-> Closed(p, archives),
   groups  |-> groupItems(Closed(p, archives), by),
   warned  |-> ~ ArchivesRead(archives) /\ archiveWarning(p)]

-----------------------------------------------------------------------------
(* The series.                                                             *)

Live(archives) == In({"ready", "working", "done"} \cup IF archives THEN {"archived"} ELSE {})

\* An end the period leaves open is the first date there is, or today.
seriesRange(p, items) ==
  LET dates == UNION {{item[i].created, item[i].started, item[i].done} : i \in items} \ {NoDay}
  IN [since |-> IF p.since = NoDay /\ dates # {} THEN Min(dates) ELSE p.since,
      until |-> IF p.until = NoDay THEN today ELSE p.until]

\* In flight from the day an item was started to the day it was done, both
\* included, counted from the first day of the range.
wipByDay(items, r) ==
  LET n       == r.until - r.since + 1
      from(i) == item[i].started - r.since
      to(i)   == IF item[i].done = NoDay THEN n - 1 ELSE item[i].done - r.since
      begun   == {i \in items : item[i].started # NoDay}
  IN [k \in 0..(n - 1) |-> Cardinality({i \in begun : from(i) <= k /\ k <= to(i)})]

Sizes == {"day", "week", "month"}

bucketStart(size, d) == CASE size = "day" -> d [] size = "week" -> WeekStart(d) [] OTHER -> MonthStart(d)

bucketNext(size, start) ==
  CASE size = "day" -> start + 1 [] size = "week" -> start + 7 [] OTHER -> NextFirst(start)

bucketLabel(size, start) ==
  CASE size = "week"  -> [kind |-> "week", y |-> ISOWeekOf[start].y, w |-> ISOWeekOf[start].w]
    [] size = "month" -> [kind |-> "month", y |-> DateOf[start].y, m |-> DateOf[start].m]
    [] OTHER          -> [kind |-> "day", d |-> start]

\* One bucket: what closed in it and what was in flight on the days of it that
\* are in the range.
Bucket(size, start, r, closed, daily) ==
  LET end  == bucketNext(size, start) - 1
      from == Max({start, r.since})
      to   == Min({end, r.until})
      days == (from - r.since)..(to - r.since)
  IN [label  |-> bucketLabel(size, start),
      since  |-> start,
      until  |-> end,
      days   |-> days,
      closed |-> Cardinality({i \in closed : PeriodContains(Period(from, to), item[i].done)}),
      peak   |-> Max({daily[k] : k \in days}),
      wip    |-> MapThenSumSet(LAMBDA k : daily[k], days)]

\* The loop over the starts of the buckets; none is longer than a month.
Starts(size, first, until) ==
  LET from[start \in first..(until + 31)] ==
        IF until < start THEN <<>> ELSE <<start>> \o from[bucketNext(size, start)]
  IN from[first]

buildBuckets(size, r, closed, daily) ==
  LET starts == Starts(size, bucketStart(size, r.since), r.until)
  IN [k \in DOMAIN starts |-> Bucket(size, starts[k], r, closed, daily)]

\* No series without a date, or over a range that is empty.
Series(p, archives, size) ==
  LET r     == seriesRange(p, Live(archives))
      daily == wipByDay(Live(archives), r)
  IN IF r.since = NoDay \/ r.until < r.since THEN [buckets |-> <<>>]
     ELSE [buckets |-> buildBuckets(size, r, Closed(p, archives), daily), daily |-> daily, range |-> r]

-----------------------------------------------------------------------------
(* What a reader may ask.                                                  *)

Tokens ==
  {[kind |-> k] : k \in {"all", "yesterday", "this-week", "last-week", "last-month"}}
    \cup {[kind |-> "days", n |-> n] : n \in {0, 3}}

Periods == {ParsePeriod(t) : t \in Tokens} \ {NoPeriod}

\* The label of a week or a month, asked for by that name, is the period of
\* that bucket, and the report over it holds what the bucket counted.
Resolves(b) ==
  LET q == ParsePeriod(b.label)
  IN /\ q = Period(b.since, b.until)
     /\ Cardinality(b.days) = b.until - b.since + 1 => b.closed = Cardinality(Closed(q, TRUE))

\* The days of the buckets are those of the range, each once, what closed in
\* them is what closed in the range, no peak is above the highest day, and a
\* bucket's label leads back to it.
AddsUp(p, s) ==
  LET all == DOMAIN s.buckets
      sum(f(_)) == MapThenSumSet(f, all)
  IN /\ UNION {s.buckets[k].days : k \in all} = DOMAIN s.daily
     /\ sum(LAMBDA k : Cardinality(s.buckets[k].days)) = Cardinality(DOMAIN s.daily)
     /\ sum(LAMBDA k : s.buckets[k].closed)
          = Cardinality({i \in Closed(p, TRUE) : PeriodContains(s.range, item[i].done)})
     /\ Max({s.buckets[k].peak : k \in all}) = Max({s.daily[k] : k \in DOMAIN s.daily})
     /\ \A k \in all : Resolves(s.buckets[k])

\* The series is cut so that nothing is counted twice or left out, on the
\* turn of any week, month and year, weeks 52, 53 and 1 among them.
SeriesAddUp ==
  \A p \in Periods, size \in {"week", "month"} :
    \A s \in {Series(p, TRUE, size)} : s.buckets # <<>> => AddsUp(p, s)

\* A report holds what was closed in its period, in a group of every kind, or
\* says that it does not reach back: as long as no item was closed for a day
\* of a month that had been archived, and done.md holds a month.
MissingIsSaid ==
  \A p \in Periods, archives \in BOOLEAN, by \in {"none", "outcome", "tag", "day"} :
    \A rep \in {Report(p, archives, by)} :
      LET missing == {i \in In({"done", "archived"}) : PeriodContains(p, item[i].done)}
                       \ UNION {g.items : g \in rep.groups}
      IN /\ p.since # NoDay
         /\ MonthsHeld # {} /\ \A m \in MonthsHeld : cutoff <= m
         /\ missing # {}
         => rep.warned

=============================================================================
