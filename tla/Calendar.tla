----------------------------- MODULE Calendar -----------------------------
(***************************************************************************)
(* The Gregorian calendar, also before its introduction: the lengths of    *)
(* months and years, and the fields of a day or an instant they give.      *)
(***************************************************************************)
EXTENDS Integers

Leap(y) == y % 4 = 0 /\ (y % 100 = 0 => y % 400 = 0)

DaysInMonth(y, m) ==
  IF m = 2 THEN IF Leap(y) THEN 29 ELSE 28 ELSE IF m \in {4, 6, 9, 11} THEN 30 ELSE 31

Dates == {date \in [year : Int, month : 1 .. 12, day : 1 .. 31] : date.day <= DaysInMonth(date.year, date.month)}

NextDate(date) ==
  IF date.day < DaysInMonth(date.year, date.month) THEN [year |-> date.year, month |-> date.month, day |-> date.day + 1]
  ELSE IF date.month < 12 THEN [year |-> date.year, month |-> date.month + 1, day |-> 1]
  ELSE [year |-> date.year + 1, month |-> 1, day |-> 1]

Epoch == [year |-> 1970, month |-> 1, day |-> 1]

\* Days from the epoch to the first of a year, and from there to the first of a month.
LeapsBefore(y) == (y - 1) \div 4 - (y - 1) \div 100 + (y - 1) \div 400
YearStart(y) == 365 * (y - 1970) + LeapsBefore(y) - LeapsBefore(1970)
MonthStart(y) == LET start[m \in 1 .. 13] == IF m = 1 THEN 0 ELSE start[m - 1] + DaysInMonth(y, m - 1) IN start

DateOf(day) ==
  LET near == 1970 + (400 * day) \div 146097
      y == CHOOSE y \in near - 1 .. near + 1 : YearStart(y) <= day /\ day < YearStart(y + 1)
      m == CHOOSE m \in 1 .. 12 : MonthStart(y)[m] <= day - YearStart(y) /\ day - YearStart(y) < MonthStart(y)[m + 1] IN
  [year |-> y, month |-> m, day |-> day - YearStart(y) - MonthStart(y)[m] + 1]

CalendarField(day, c) ==
  CASE c \in {"year", "month", "day"} -> DateOf(day)[c]
    [] c = "weekday" -> ((day + 3) % 7) + 1   \* the epoch was a Thursday
    [] c = "dayOfYear" -> day - YearStart(DateOf(day).year) + 1
    [] c = "quarter" -> 1 + (DateOf(day).month - 1) \div 3

ClockField(ms, c) ==
  CASE c = "hour" -> ms \div 3600000 [] c = "minute" -> (ms \div 60000) % 60
    [] c = "second" -> (ms \div 1000) % 60 [] c = "millisecond" -> ms % 1000

Clock == {"hour", "minute", "second", "millisecond"}

DayField(day, c) == IF c \in Clock THEN 0 ELSE CalendarField(day, c)
InstantField(ms, c) ==
  IF c \in Clock THEN ClockField(ms % 86400000, c) ELSE CalendarField(ms \div 86400000, c)
=============================================================================
