------------------------------- MODULE Civil -------------------------------
(***************************************************************************)
(* Calendar fields of dates and timestamps (temporal/civil.ts): a date is  *)
(* a number of days, a timestamp a number of milliseconds, both since      *)
(* 1970-01-01 and of either sign.  Years are counted from March, so that   *)
(* the leap day is the last of its year, in eras of 400 years.             *)
(*                                                                         *)
(* Math.floor of a quotient is \div; / and % of integers go towards zero,  *)
(* as Quotient and Remainder do.                                           *)
(***************************************************************************)
EXTENDS Scalars

MsPerDay == 86400000

\* Days before a year of the era, and before a month of the year.
DaysBeforeYear(yoe) == 365 * yoe + yoe \div 4 - yoe \div 100
DaysBefore(mp) == (153 * mp + 2) \div 5

YearOfEra(doe) == (doe - doe \div 1460 + doe \div 36524 - doe \div 146096) \div 365

DaysToCivil(days) ==
  LET z == days + 719468
      era == z \div 146097
      doe == z - era * 146097
      yoe == YearOfEra(doe)
      doy == doe - DaysBeforeYear(yoe)
      mp == (5 * doy + 2) \div 153
      m == IF mp < 10 THEN mp + 3 ELSE mp - 9
  IN [year |-> yoe + era * 400 + IF m <= 2 THEN 1 ELSE 0, month |-> m, day |-> doy - DaysBefore(mp) + 1]

CivilToDays(y, m, d) ==
  LET yAdj == y - IF m <= 2 THEN 1 ELSE 0
      era == yAdj \div 400
      yoe == yAdj - era * 400
      doy == DaysBefore(IF m > 2 THEN m - 3 ELSE m + 9) + d - 1
  IN era * 146097 + DaysBeforeYear(yoe) + doy - 719468

IsLeapYear(y) ==
  (Remainder(y, 4) = 0 /\ Remainder(y, 100) # 0) \/ Remainder(y, 400) = 0

DaysBeforeMonth == <<0, 31, 59, 90, 120, 151, 181, 212, 243, 273, 304, 334>>

DayOfYear(y, m, d) == DaysBeforeMonth[m] + d + IF m > 2 /\ IsLeapYear(y) THEN 1 ELSE 0

\* Monday is 1.
IsoWeekday(days) == Remainder(Remainder(days + 3, 7) + 7, 7) + 1

\* Mutant: the day of a timestamp before 1970 is rounded up.
FloorDivMsTruncates(ms) == Quotient(ms, MsPerDay)

FloorDivMs(ms) ==
  Quotient(ms, MsPerDay) - IF Remainder(ms, MsPerDay) # 0 /\ ms < 0 THEN 1 ELSE 0

DateFields(days) ==
  LET date == DaysToCivil(days) IN
  [year |-> date.year, month |-> date.month, day |-> date.day,
   weekday |-> IsoWeekday(days), dayOfYear |-> DayOfYear(date.year, date.month, date.day),
   quarter |-> (date.month + 2) \div 3]

TimeFields(msOfDay) ==
  [hour |-> msOfDay \div 3600000, minute |-> Remainder(msOfDay, 3600000) \div 60000,
   second |-> Remainder(Remainder(msOfDay, 3600000), 60000) \div 1000,
   millisecond |-> Remainder(Remainder(Remainder(msOfDay, 3600000), 60000), 1000)]

TimeOfDay == {"hour", "minute", "second", "millisecond"}

\* A date has no time of day: these fields are 0.
Date32ToFields(days, c) == IF c \in TimeOfDay THEN 0 ELSE DateFields(days)[c]

TimestampUtcToFields(ms, c) ==
  LET dayNum == FloorDivMs(ms) IN
  IF c \in TimeOfDay THEN TimeFields(ms - dayNum * MsPerDay)[c] ELSE DateFields(dayNum)[c]
=============================================================================
