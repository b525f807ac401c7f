------------------------------- MODULE Schedule -------------------------------
(***************************************************************************)
(* When a scheduled item is due: the tickler expressions of schedule.go    *)
(* over the Gregorian calendar, and one item asked by one runner on some   *)
(* of the days it lives through.                                           *)
(*                                                                         *)
(* A runner may miss any number of days.  Next() looks for the day after   *)
(* the last fire month by month, in a loop with no bound: each month is a  *)
(* step here, so that a search that never ends can be seen.                *)
(*                                                                         *)
(* Directory takes a schedule to be the set of its days, and Due to be a   *)
(* comparison with them.  RunSettles is what entitles it to.               *)
(***************************************************************************)
EXTENDS Calendar, FiniteSetsExt

CONSTANTS
  Expressions,  \* the schedules the item may be given
  Births,       \* the dates the item may be created on
  Span          \* bound: days lived through

ASSUME ScheduleAssumption == Span \in Nat

nextMonth(p) == IF p.m = 12 THEN [y |-> p.y + 1, m |-> 1] ELSE [p EXCEPT !.m = @ + 1]

addDay(d) == IF d.d < DaysInMonth(d.y, d.m) THEN [d EXCEPT !.d = @ + 1]
             ELSE LET n == nextMonth([y |-> d.y, m |-> d.m]) IN Date(n.y, n.m, 1)

\* Monday is 0.  Sakamoto's table counts from Sunday.
weekdayOfDate(d) ==
  LET t  == <<0, 3, 2, 5, 0, 3, 5, 1, 4, 6, 2, 4>>
      yy == IF d.m < 3 THEN d.y - 1 ELSE d.y
  IN (((yy + yy \div 4 - yy \div 100 + yy \div 400 + t[d.m] + d.d) % 7) + 6) % 7

\* The shapes of an expression.  The time of day never gates an answer.
OneShot(date)         == [kind |-> "oneshot", date |-> date]
Weekly(wd)            == [kind |-> "weekly", weekday |-> wd]
Ordinal(ordinal, wd)  == [kind |-> "ordinal", ordinal |-> ordinal, weekday |-> wd]
Monthly(day)          == [kind |-> "monthday", day |-> day]  \* 0 is the last day
NoSchedule            == [kind |-> "none"]

-----------------------------------------------------------------------------
(* The pieces of Next().                                                   *)

\* The smallest date after the given one that falls on the weekday.
nextPlainWeekday(after, wd) ==
  LET d[i \in 0..7] == IF i = 0 THEN after ELSE addDay(d[i - 1])
      hits == {i \in 1..7 : weekdayOfDate(d[i]) = wd}
  IN IF hits = {} THEN NoDate ELSE d[Min(hits)]

\* The one occurrence of a month.  The switch has no case for the other
\* ordinals that the parser takes.
ordinalOccurrence(s, p) ==
  LET dim     == DaysInMonth(p.y, p.m)
      among   == CASE s.ordinal = "first" -> 1..7
                   [] s.ordinal = "last"  -> (dim - 6)..dim
                   [] OTHER -> {}
      hits    == {d \in among : weekdayOfDate(Date(p.y, p.m, d)) = s.weekday}
  IN IF hits = {} THEN NoDate ELSE Date(p.y, p.m, Min(hits))

\* The day a monthly schedule names in a month, if the month has it.
candidate(s, p) ==
  LET dim == DaysInMonth(p.y, p.m)
  IN CASE s.kind = "ordinal" -> ordinalOccurrence(s, p)
       [] s.kind = "monthday" /\ s.day = 0 -> Date(p.y, p.m, dim)
       [] s.kind = "monthday" /\ s.day \in 1..dim -> Date(p.y, p.m, s.day)
       [] OTHER -> NoDate

-----------------------------------------------------------------------------
VARIABLES
  sched,    \* the item's tickler: field
  created,  \* its created: field
  last,     \* its tickled: field
  today,    \* the date a runner is passed
  lived,    \* days lived through
  pc,       \* the runner: idle, in Next()'s loop, or with its answer
  month,    \* the month the loop is at
  answer    \* what Next() returned

vars == <<sched, created, last, today, lived, pc, month, answer>>

NoMonth == [y |-> 0, m |-> 0]
MonthOf(d) == [y |-> d.y, m |-> d.m]

\* Recurring schedules are anchored at the last fire, the first at creation.
Anchor == IF last = NoDate THEN created ELSE last

Init ==
  /\ sched \in Expressions
  /\ created \in Births
  /\ last = NoDate
  /\ today = created
  /\ lived = 0
  /\ pc = "idle"
  /\ month = NoMonth
  /\ answer = NoDate

NextDay ==
  /\ pc = "idle"
  /\ lived < Span
  /\ today' = addDay(today)
  /\ lived' = lived + 1
  /\ UNCHANGED <<sched, created, last, pc, month, answer>>

\* A person gives the item another schedule.  tickled: is kept.
Reschedule ==
  /\ pc = "idle"
  /\ sched' \in Expressions \ {sched}
  /\ UNCHANGED <<created, last, today, lived, pc, month, answer>>

\* Due() asks Next() only about a schedule that recurs.
AskOneShot ==
  /\ pc = "idle"
  /\ sched.kind = "oneshot"
  /\ pc' = "answered"
  /\ UNCHANGED <<sched, created, last, today, lived, month, answer>>

AskWeekly ==
  /\ pc = "idle"
  /\ sched.kind = "weekly"
  /\ answer' = nextPlainWeekday(Anchor, sched.weekday)
  /\ pc' = "answered"
  /\ UNCHANGED <<sched, created, last, today, lived, month>>

AskMonthly ==
  /\ pc = "idle"
  /\ sched.kind \in {"ordinal", "monthday"}
  /\ month' = MonthOf(Anchor)
  /\ pc' = "searching"
  /\ UNCHANGED <<sched, created, last, today, lived, answer>>

\* Bug: the day of the last fire is found again.
FoundBug == LET d == candidate(sched, month) IN d # NoDate /\ ~ Before(d, Anchor)

Found == LET d == candidate(sched, month) IN d # NoDate /\ After(d, Anchor)

FindInMonth ==
  /\ pc = "searching"
  /\ Found
  /\ answer' = candidate(sched, month)
  /\ month' = NoMonth
  /\ pc' = "answered"
  /\ UNCHANGED <<sched, created, last, today, lived>>

\* The calendar repeats every 400 years, and every year past the anchor's is
\* after it: a search that has gone that far is where it has been before.
Wrapped(p) == IF p.y > Anchor.y + 400 THEN [p EXCEPT !.y = @ - 400] ELSE p

TryNextMonth ==
  /\ pc = "searching"
  /\ ~ Found
  /\ month' = Wrapped(nextMonth(month))
  /\ UNCHANGED <<sched, created, last, today, lived, pc, answer>>

\* Bug: a day is due on the day after.
DueBug ==
  IF sched.kind = "oneshot"
  THEN ~ Before(today, sched.date) /\ (last = NoDate \/ After(sched.date, last))
  ELSE answer # NoDate /\ Before(answer, today)

Due ==
  IF sched.kind = "oneshot"
  THEN ~ Before(today, sched.date) /\ (last = NoDate \/ After(sched.date, last))
  ELSE answer # NoDate /\ ~ Before(today, answer)

\* tickled: is stamped; a one-shot is consumed.
Fire ==
  /\ pc = "answered"
  /\ Due
  /\ last' = today
  /\ sched' = IF sched.kind = "oneshot" THEN NoSchedule ELSE sched
  /\ pc' = "idle"
  /\ answer' = NoDate
  /\ UNCHANGED <<created, today, lived, month>>

Rest ==
  /\ pc = "answered"
  /\ ~ Due
  /\ pc' = "idle"
  /\ answer' = NoDate
  /\ UNCHANGED <<sched, created, last, today, lived, month>>

Search == FindInMonth \/ TryNextMonth

Next == \/ NextDay \/ Reschedule
        \/ AskOneShot \/ AskWeekly \/ AskMonthly
        \/ Search \/ Fire \/ Rest

\* The loop runs in a live process.
Spec == Init /\ [][Next]_vars /\ WF_vars(Search)

-----------------------------------------------------------------------------
(* The days of a schedule as the format defines them, over the calendar as *)
(* Calendar counts it: a reference that shares no arithmetic with Next.    *)

\* The seven days of a month that hold the occurrence.
OrdinalDays(ordinal, dim) ==
  LET week == [first |-> 1, second |-> 8, third |-> 15, fourth |-> 22, last |-> dim - 6]
  IN week[ordinal]..(week[ordinal] + 6)

Matches(s, d) ==
  LET dim == MonthLengths(d.y)[d.m]
  IN CASE s.kind = "oneshot"  -> d = s.date
       [] s.kind = "weekly"   -> FallsOn(d, s.weekday)
       [] s.kind = "ordinal"  -> FallsOn(d, s.weekday) /\ d.d \in OrdinalDays(s.ordinal, dim)
       [] s.kind = "monthday" -> d.d = IF s.day = 0 THEN dim ELSE s.day
       [] OTHER -> FALSE

\* The dates after a and up to b.
Until(a, b) ==
  {d \in UNION {{Date(k \div 12, (k % 12) + 1, n) : n \in 1..MonthLengths(k \div 12)[(k % 12) + 1]}
                : k \in (12 * a.y + a.m - 1)..(12 * b.y + b.m - 1)} :
     DayNumber(a) < DayNumber(d) /\ DayNumber(d) <= DayNumber(b)}

\* A day of the schedule has come that no fire has answered.
Owed ==
  \/ /\ sched.kind = "oneshot"
     /\ DayNumber(sched.date) <= DayNumber(today)
     /\ last # NoDate => DayNumber(last) < DayNumber(sched.date)
  \/ /\ sched.kind \notin {"oneshot", "none"}
     /\ \E d \in Until(Anchor, today) : Matches(sched, d)

-----------------------------------------------------------------------------
\* The values are well formed.
TypeOK ==
  /\ sched \in Expressions \cup {NoSchedule}
  /\ IsDate(created) /\ IsDate(today)
  /\ last = NoDate \/ IsDate(last)
  /\ lived \in 0..Span
  /\ pc \in {"idle", "searching", "answered"}
  /\ month = NoMonth \/ month.m \in 1..12
  /\ answer = NoDate \/ IsDate(answer)

\* "Next returns the smallest fire DATE strictly after after" (schedule.go):
\* across short months, leap years and the turn of a year, for any anchor.
NextIsLeast ==
  pc = "answered" /\ sched.kind # "oneshot" =>
    /\ answer # NoDate
    /\ {d \in Until(Anchor, answer) : Matches(sched, d)} = {answer}

\* A run fires exactly when a day of the schedule has come that is not
\* answered, and leaves none: a backlog of days is one fire, a second run on
\* the same day is none, and a missed day is made good.
RunSettles ==
  [][pc = "answered" /\ pc' = "idle" => /\ last' # last <=> Owed
                                        /\ ~ Owed']_vars

\* The search of the months is over after the third: no day of the month that
\* a schedule may name is missing from two months in a row.
SearchIsShort ==
  pc = "searching" => (month.y - Anchor.y) * 12 + month.m - Anchor.m \in 0..2

\* Next() returns, with a date or with none.
SearchEnds == pc = "searching" ~> pc # "searching"

=============================================================================
