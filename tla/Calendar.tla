------------------------------- MODULE Calendar -------------------------------
(***************************************************************************)
(* Dates: the Gregorian calendar of item.go, and the counting of days that *)
(* the program leaves to Go's time package.                                *)
(***************************************************************************)
EXTENDS Integers, FiniteSetsExt

Date(y, m, d) == [y |-> y, m |-> m, d |-> d]
NoDate == Date(0, 0, 0)  \* the zero Date

Before(a, b) == \/ a.y < b.y
                \/ a.y = b.y /\ a.m < b.m
                \/ a.y = b.y /\ a.m = b.m /\ a.d < b.d
After(a, b) == Before(b, a)

IsLeapYear(y) == (y % 4 = 0 /\ y % 100 # 0) \/ y % 400 = 0

DaysInMonth(y, m) == CASE m \in {4, 6, 9, 11} -> 30
                       [] m = 2 -> IF IsLeapYear(y) THEN 29 ELSE 28
                       [] OTHER -> 31

IsDate(d) == d.y \in Nat /\ d.m \in 1..12 /\ d.d \in 1..DaysInMonth(d.y, d.m)

-----------------------------------------------------------------------------
(* Days counted from the first of the year 1.                              *)

MonthLengths(y) == <<31, IF (y % 400 = 0) \/ (y % 4 = 0 /\ y % 100 # 0) THEN 29 ELSE 28,
                     31, 30, 31, 30, 31, 31, 30, 31, 30, 31>>

DayNumber(d) ==
  LET y == d.y - 1
  IN 365 * y + y \div 4 - y \div 100 + y \div 400
     + MapThenSumSet(LAMBDA i : MonthLengths(d.y)[i], 1..(d.m - 1)) + d.d

AMonday == Date(2024, 1, 1)

daysBetween(a, b) == DayNumber(b) - DayNumber(a)

\* Monday is 0.
Weekday(d)     == daysBetween(AMonday, d) % 7
FallsOn(d, wd) == Weekday(d) = wd

YearStart(y) == DayNumber(Date(y, 1, 1))

\* The date of a day number.
DateAt(n) ==
  LET y == CHOOSE y \in (n \div 366)..(n \div 365 + 1) : YearStart(y) <= n /\ n < YearStart(y + 1)
      m == CHOOSE m \in 1..12 : LET s == DayNumber(Date(y, m, 1))
                                IN s <= n /\ n < s + MonthLengths(y)[m]
  IN Date(y, m, n - DayNumber(Date(y, m, 1)) + 1)

AddDays(d, n) == DateAt(DayNumber(d) + n)

\* The week has the year, and the number, of its Thursday.
ISOWeek(d) ==
  LET th == AddDays(d, 3 - Weekday(d))
  IN [y |-> th.y, w |-> daysBetween(Date(th.y, 1, 1), th) \div 7 + 1]

=============================================================================
