---------------------------- MODULE ValueProofs ----------------------------
(***************************************************************************)
(* What is computed of values, for all of them: the formulas of Civil      *)
(* against the calendar, the results of Kernels but those of ReduceProofs, *)
(* for every number of rows and every content of the buffers, and what Csv *)
(* reads of a text, wherever it is cut.                                    *)
(***************************************************************************)
EXTENDS Kernels, Civil, Calendar, Csv, FiniteSetTheorems, SequenceTheorems, WellFoundedInduction, TLAPS

-----------------------------------------------------------------------------
(* Years of an era and months of a year.                                   *)

\* The year found in an era contains the day.
LEMMA Eras ==
  ASSUME NEW doe \in Int, 0 <= doe, doe <= 146096
  PROVE  /\ YearOfEra(doe) \in Int
         /\ 0 <= YearOfEra(doe) /\ YearOfEra(doe) <= 399
         /\ 0 <= doe - DaysBeforeYear(YearOfEra(doe))
         /\ doe - DaysBeforeYear(YearOfEra(doe)) <= 365
BY DEF YearOfEra, DaysBeforeYear

\* It is the only one that does.
LEMMA YearFound ==
  ASSUME NEW yoe \in Int, 0 <= yoe, yoe <= 399,
         NEW doy \in Int, 0 <= doy, doy <= 365, doy = 365 => Leap(yoe + 1)
  PROVE  /\ YearOfEra(DaysBeforeYear(yoe) + doy) = yoe
         /\ 0 <= DaysBeforeYear(yoe) + doy
         /\ DaysBeforeYear(yoe) + doy <= 146096
BY DEF YearOfEra, DaysBeforeYear, Leap

\* A year has a day 365, the 29th of February, in leap years only.
LEMMA LeapDays ==
  ASSUME NEW doe \in Int, 0 <= doe, doe <= 146096, doe - DaysBeforeYear(YearOfEra(doe)) = 365
  PROVE  Leap(YearOfEra(doe) + 1)
BY DEF YearOfEra, DaysBeforeYear, Leap

\* The month found in a year contains the day.
LEMMA Months ==
  ASSUME NEW doy \in Int, 0 <= doy, doy <= 365, NEW mp \in Int, mp = (5 * doy + 2) \div 153
  PROVE  /\ 0 <= mp /\ mp <= 11
         /\ 0 <= doy - DaysBefore(mp)
         /\ doy - DaysBefore(mp) < DaysBefore(mp + 1) - DaysBefore(mp)
         /\ mp = 11 => doy - DaysBefore(mp) <= 28 /\ (doy - DaysBefore(mp) = 28 => doy = 365)
BY DEF DaysBefore

\* The month found holds the day of the year.
LEMMA MonthFound ==
  ASSUME NEW mp \in Int, 0 <= mp, mp <= 11, NEW d \in Int, 0 <= d, d < DaysBefore(mp + 1) - DaysBefore(mp)
  PROVE  (5 * (DaysBefore(mp) + d) + 2) \div 153 = mp
BY DEF DaysBefore

\* March to January have the days between the starts of two months.
LEMMA MonthLengths ==
  ASSUME NEW y \in Int, NEW m \in 1 .. 12, NEW mp \in Int, mp = (IF m > 2 THEN m - 3 ELSE m + 9)
  PROVE  /\ 0 <= mp /\ mp <= 11
         /\ mp < 10 <=> m > 2
         /\ m = (IF mp < 10 THEN mp + 3 ELSE mp - 9)
         /\ m # 2 => DaysInMonth(y, m) = DaysBefore(mp + 1) - DaysBefore(mp)
         /\ m = 2 => mp = 11 /\ DaysInMonth(y, m) <= 29 /\ DaysBefore(mp + 1) - DaysBefore(mp) = 30
BY DEF DaysBefore, DaysInMonth

\* Every day lies in the era found for it.
LEMMA EraFound ==
  ASSUME NEW era \in Int, NEW doe \in Int, 0 <= doe, doe <= 146096
  PROVE  (era * 146097 + doe) \div 146097 = era
  OBVIOUS

\* Leap years repeat with every era.
LEMMA LeapIsPeriodic ==
  ASSUME NEW y \in Int, NEW k \in Int
  PROVE  Leap(y + k * 400) <=> Leap(y)
BY DEF Leap

-----------------------------------------------------------------------------
(* Days and dates.                                                         *)

\* What DaysToCivil finds: an era, a year of it, a day of that year, its month.
FoundAt(z, era, yoe, doy, mp, m) ==
  /\ z = era * 146097 + DaysBeforeYear(yoe) + doy - 719468
  /\ 0 <= yoe /\ yoe <= 399
  /\ 0 <= doy /\ doy <= 365
  /\ doy = 365 => Leap(yoe + 1)
  /\ mp = (5 * doy + 2) \div 153
  /\ m = (IF mp < 10 THEN mp + 3 ELSE mp - 9)
  /\ mp = (IF m > 2 THEN m - 3 ELSE m + 9)
  /\ DaysToCivil(z) = [year |-> yoe + era * 400 + IF m <= 2 THEN 1 ELSE 0,
                       month |-> m, day |-> doy - DaysBefore(mp) + 1]

\* Every day has an era, a year, a month and a day of them.
LEMMA Found ==
  ASSUME NEW z \in Int
  PROVE  \E era \in Int, yoe \in Int, doy \in Int, mp \in Int, m \in 1 .. 12 :
           FoundAt(z, era, yoe, doy, mp, m)
<1> DEFINE w == z + 719468
           era == w \div 146097
           doe == w - era * 146097
           yoe == YearOfEra(doe)
           doy == doe - DaysBeforeYear(yoe)
           mp == (5 * doy + 2) \div 153
           m == IF mp < 10 THEN mp + 3 ELSE mp - 9
<1>1. era \in Int /\ doe \in Int /\ 0 <= doe /\ doe <= 146096
  OBVIOUS
<1>2. yoe \in Int /\ 0 <= yoe /\ yoe <= 399 /\ doy \in Int /\ 0 <= doy /\ doy <= 365
  <2> HIDE DEF doe
  <2> QED BY <1>1, Eras DEF DaysBeforeYear
<1>3. doy = 365 => Leap(yoe + 1)
  <2> HIDE DEF doe
  <2> QED BY <1>1, LeapDays
<1>4. z = era * 146097 + DaysBeforeYear(yoe) + doy - 719468
  <2>1. z = era * 146097 + doe - 719468
    BY <1>1
  <2> HIDE DEF doe, yoe, era
  <2> QED BY <1>1, <1>2, <2>1 DEF DaysBeforeYear
<1>5. mp \in Int /\ m \in 1 .. 12 /\ mp = (IF m > 2 THEN m - 3 ELSE m + 9)
  <2> HIDE DEF doy
  <2>1. mp \in Int
    BY <1>2
  <2>2. 0 <= mp /\ mp <= 11
    BY <1>2, <2>1, Months
  <2> HIDE DEF mp
  <2> QED BY <2>1, <2>2
<1>6. DaysToCivil(z) = [year |-> yoe + era * 400 + IF m <= 2 THEN 1 ELSE 0,
                        month |-> m, day |-> doy - DaysBefore(mp) + 1]
  BY DEF DaysToCivil
<1> HIDE DEF era, doe, yoe, doy, mp, m
<1>7. mp = (5 * doy + 2) \div 153 /\ m = (IF mp < 10 THEN mp + 3 ELSE mp - 9)
  BY DEF mp, m
<1>8. FoundAt(z, era, yoe, doy, mp, m)
  BY <1>2, <1>3, <1>4, <1>5, <1>6, <1>7 DEF FoundAt
<1>9. era \in Int /\ yoe \in Int /\ doy \in Int /\ mp \in Int /\ m \in 1 .. 12
  BY <1>1, <1>2, <1>5
<1> QED
  BY <1>8, <1>9

\* The day number of a date whose year, in the era, and month are known.
LEMMA Numbered ==
  ASSUME NEW era \in Int, NEW yoe \in Int, 0 <= yoe, yoe <= 399, NEW m \in 1 .. 12, NEW d \in Int
  PROVE  CivilToDays(yoe + era * 400 + (IF m <= 2 THEN 1 ELSE 0), m, d)
           = era * 146097 + DaysBeforeYear(yoe) + DaysBefore(IF m > 2 THEN m - 3 ELSE m + 9) + d - 1 - 719468
<1>1. PICK yAdj \in Int : yAdj = yoe + era * 400
  OBVIOUS
<1>2. yAdj \div 400 = era /\ yAdj - era * 400 = yoe
  BY <1>1
<1>3. PICK n \in Int : n = DaysBefore(IF m > 2 THEN m - 3 ELSE m + 9)
  BY DEF DaysBefore
<1>4. PICK k \in Int : k = DaysBeforeYear(yoe)
  BY DEF DaysBeforeYear
<1>5. yAdj + (IF m <= 2 THEN 1 ELSE 0) - (IF m <= 2 THEN 1 ELSE 0) = yAdj
  OBVIOUS
<1>6. CivilToDays(yoe + era * 400 + (IF m <= 2 THEN 1 ELSE 0), m, d) = era * 146097 + k + (n + d - 1) - 719468
  BY <1>1, <1>2, <1>3, <1>4, <1>5 DEF CivilToDays
<1> QED
  BY <1>3, <1>4, <1>6

\* Every day has a date of the calendar, and civilToDays gives the day back
\* (civil.ts: "Exact inverse of daysToCivil").
THEOREM DaysReadBack ==
  ASSUME NEW z \in Int
  PROVE  /\ DaysToCivil(z) \in Dates
         /\ CivilToDays(DaysToCivil(z).year, DaysToCivil(z).month, DaysToCivil(z).day) = z
<1>1. PICK era \in Int, yoe \in Int, doy \in Int, mp \in Int, m \in 1 .. 12 :
           FoundAt(z, era, yoe, doy, mp, m)
  BY Found
<1> USE DEF FoundAt
<1> DEFINE y == yoe + era * 400 + IF m <= 2 THEN 1 ELSE 0
           d == doy - DaysBefore(mp) + 1
<1>2. y \in Int /\ d \in Int
  BY <1>1 DEF DaysBefore
<1>3. DaysToCivil(z).year = y /\ DaysToCivil(z).month = m /\ DaysToCivil(z).day = d
  BY <1>1
<1>4. CivilToDays(y, m, d) = z
  <2>1. CivilToDays(y, m, d)
          = era * 146097 + DaysBeforeYear(yoe) + DaysBefore(mp) + d - 1 - 719468
    BY <1>1, <1>2, Numbered
  <2>2. DaysBeforeYear(yoe) \in Int /\ DaysBefore(mp) \in Int
    BY DEF DaysBeforeYear, DaysBefore
  <2> QED BY <1>1, <2>1, <2>2
<1>5. 1 <= d /\ d <= DaysInMonth(y, m)
  <2>1. /\ 0 <= mp /\ mp <= 11
        /\ 0 <= doy - DaysBefore(mp)
        /\ doy - DaysBefore(mp) < DaysBefore(mp + 1) - DaysBefore(mp)
        /\ mp = 11 => doy - DaysBefore(mp) <= 28 /\ (doy - DaysBefore(mp) = 28 => doy = 365)
    BY <1>1, Months
  <2>2. DaysBefore(mp) \in Int /\ DaysBefore(mp + 1) \in Int
    BY DEF DaysBefore
  <2>3. CASE m # 2
    <3>1. DaysInMonth(y, m) = DaysBefore(mp + 1) - DaysBefore(mp)
      BY <1>1, <1>2, <2>3, MonthLengths
    <3> QED BY <1>1, <2>1, <2>2, <3>1
  <2>4. CASE m = 2
    <3>1. mp = 11 /\ y = (yoe + 1) + era * 400
      BY <1>1, <2>4
    <3>2. Leap(y) <=> Leap(yoe + 1)
      <4>1. PICK v \in Int : v = yoe + 1
        OBVIOUS
      <4>2. Leap(v + era * 400) <=> Leap(v)
        BY LeapIsPeriodic
      <4> QED BY <3>1, <4>1, <4>2
    <3>3. d = 29 => Leap(y)
      BY <1>1, <2>1, <2>2, <3>1, <3>2
    <3>4. d <= 29
      BY <1>1, <2>1, <2>2, <3>1
    <3> HIDE DEF y, d
    <3> QED BY <1>2, <1>1, <2>1, <2>2, <2>4, <3>3, <3>4 DEF DaysInMonth, d
  <2> QED BY <2>3, <2>4
<1>6. d \in 1 .. 31
  <2>1. DaysInMonth(y, m) \in 28 .. 31
    BY DEF DaysInMonth
  <2> HIDE DEF d, y
  <2> QED BY <1>2, <1>5, <2>1
<1>7. DaysToCivil(z) \in Dates
  <2> HIDE DEF y, d
  <2>1. DaysToCivil(z) = [year |-> y, month |-> m, day |-> d]
    BY <1>1 DEF y, d
  <2> QED BY <1>2, <1>5, <1>6, <2>1 DEF Dates
<1> QED
  <2> HIDE DEF y, d
  <2> QED BY <1>3, <1>4, <1>7

\* Every date of the calendar is found again from its day.
THEOREM DatesReadBack ==
  ASSUME NEW date \in Dates
  PROVE  /\ CivilToDays(date.year, date.month, date.day) \in Int
         /\ DaysToCivil(CivilToDays(date.year, date.month, date.day)) = date
<1> DEFINE m == date.month
           yAdj == date.year - IF m <= 2 THEN 1 ELSE 0
           era == yAdj \div 400
           yoe == yAdj - era * 400
           mp == IF m > 2 THEN m - 3 ELSE m + 9
           doy == DaysBefore(mp) + date.day - 1
           z == CivilToDays(date.year, date.month, date.day)
<1>1. /\ date.year \in Int /\ m \in 1 .. 12 /\ date.day \in 1 .. 31
      /\ date.day <= DaysInMonth(date.year, m)
      /\ date = [year |-> date.year, month |-> m, day |-> date.day]
  BY DEF Dates
<1>2. era \in Int /\ yoe \in Int /\ 0 <= yoe /\ yoe <= 399
  BY <1>1
<1>3. date.year = yoe + era * 400 + IF m <= 2 THEN 1 ELSE 0
  BY <1>1
<1>4. /\ mp \in Int /\ 0 <= mp /\ mp <= 11
      /\ m = (IF mp < 10 THEN mp + 3 ELSE mp - 9)
      /\ DaysBefore(mp) \in Int /\ DaysBefore(mp + 1) \in Int
  BY <1>1 DEF DaysBefore
<1> HIDE DEF m, yAdj, era, yoe, mp
<1>5. /\ m # 2 => DaysInMonth(date.year, m) = DaysBefore(mp + 1) - DaysBefore(mp)
      /\ m = 2 => mp = 11 /\ DaysInMonth(date.year, m) <= 29 /\ DaysBefore(mp + 1) - DaysBefore(mp) = 30
  <2>1. mp = (IF m > 2 THEN m - 3 ELSE m + 9)
    BY DEF mp
  <2> QED BY <1>1, <1>4, <2>1, MonthLengths
<1>6. 0 <= date.day - 1 /\ date.day - 1 < DaysBefore(mp + 1) - DaysBefore(mp)
  <2>1. DaysInMonth(date.year, m) \in Int
    BY DEF DaysInMonth
  <2> QED BY <1>1, <1>4, <1>5, <2>1
<1>7. (5 * doy + 2) \div 153 = mp
  <2>1. (5 * (DaysBefore(mp) + (date.day - 1)) + 2) \div 153 = mp
    BY <1>1, <1>4, <1>6, MonthFound
  <2>2. DaysBefore(mp) + (date.day - 1) = doy
    BY <1>1, <1>4
  <2> HIDE DEF doy
  <2> QED BY <2>1, <2>2
<1>8. doy \in Int /\ 0 <= doy /\ doy <= 365 /\ (doy = 365 => Leap(yoe + 1))
  <2>1. CASE m # 2
    <3>1. mp # 11 /\ mp <= 10
      BY <1>1, <1>4, <2>1
    <3>2. DaysBefore(mp + 1) <= 337 /\ 0 <= DaysBefore(mp)
      BY <1>4, <3>1 DEF DaysBefore
    <3> QED BY <1>1, <1>4, <1>6, <3>2
  <2>2. CASE m = 2
    <3>1. DaysBefore(mp) = 337
      BY <1>5, <2>2 DEF DaysBefore
    <3>2. date.year = (yoe + 1) + era * 400
      BY <1>2, <1>3, <2>2
    <3>3. Leap(date.year) <=> Leap(yoe + 1)
      <4>1. PICK v \in Int : v = yoe + 1
        BY <1>2
      <4>2. Leap(v + era * 400) <=> Leap(v)
        BY <1>2, LeapIsPeriodic
      <4> QED BY <3>2, <4>1, <4>2
    <3>4. date.day <= 28 \/ (Leap(date.year) /\ date.day = 29)
      BY <1>1, <2>2 DEF DaysInMonth
    <3> QED BY <1>1, <3>1, <3>3, <3>4
  <2> QED BY <2>1, <2>2
<1> HIDE DEF doy
<1>9. PICK k \in Int : k = DaysBeforeYear(yoe)
  BY <1>2 DEF DaysBeforeYear
<1>10. z = era * 146097 + k + doy - 719468 /\ z \in Int
  <2>1. CivilToDays(yoe + era * 400 + (IF m <= 2 THEN 1 ELSE 0), m, date.day)
          = era * 146097 + k + DaysBefore(mp) + date.day - 1 - 719468
    BY <1>1, <1>2, <1>9, Numbered DEF mp
  <2>2. z = era * 146097 + k + DaysBefore(mp) + date.day - 1 - 719468
    BY <1>3, <2>1 DEF m
  <2> QED BY <1>1, <1>2, <1>4, <1>8, <1>9, <2>2 DEF doy
<1>11. YearOfEra(k + doy) = yoe /\ 0 <= k + doy /\ k + doy <= 146096
  BY <1>2, <1>8, <1>9, YearFound
<1>12. (z + 719468) \div 146097 = era /\ (z + 719468) - era * 146097 = k + doy
  <2> HIDE DEF z
  <2>1. z + 719468 = era * 146097 + (k + doy)
    BY <1>2, <1>8, <1>9, <1>10
  <2>2. PICK doe \in Int : doe = k + doy
    BY <1>8
  <2>3. (era * 146097 + doe) \div 146097 = era
    BY <1>2, <1>11, <2>2, EraFound
  <2> QED BY <1>2, <2>1, <2>2, <2>3
<1>13. (k + doy) - DaysBeforeYear(yoe) = doy
  BY <1>8, <1>9
<1> HIDE DEF z
<1>14. doy - DaysBefore(mp) + 1 = date.day
  BY <1>1, <1>4 DEF doy
<1>15. DaysToCivil(z) = [year |-> yoe + era * 400 + IF m <= 2 THEN 1 ELSE 0, month |-> m, day |-> date.day]
  BY <1>4, <1>7, <1>11, <1>12, <1>13, <1>14 DEF DaysToCivil
<1> QED
  BY <1>1, <1>3, <1>10, <1>15 DEF z

\* The day after a date has the next number.
LEMMA NextNumber ==
  ASSUME NEW date \in Dates
  PROVE  /\ NextDate(date) \in Dates
         /\ CivilToDays(NextDate(date).year, NextDate(date).month, NextDate(date).day)
              = CivilToDays(date.year, date.month, date.day) + 1
<1> DEFINE y == date.year
           m == date.month
           d == date.day
<1>1. y \in Int /\ m \in 1 .. 12 /\ d \in 1 .. 31 /\ d <= DaysInMonth(y, m) /\ date = [year |-> y, month |-> m, day |-> d]
  BY DEF Dates
<1>2. NextDate(date) = IF d < DaysInMonth(y, m) THEN [year |-> y, month |-> m, day |-> d + 1]
                       ELSE IF m < 12 THEN [year |-> y, month |-> m + 1, day |-> 1]
                       ELSE [year |-> y + 1, month |-> 1, day |-> 1]
  BY DEF NextDate
<1> HIDE DEF y, m, d
<1>3. DaysInMonth(y, m) \in 28 .. 31
  BY DEF DaysInMonth
<1>4. CASE d < DaysInMonth(y, m)
  <2>1. NextDate(date) = [year |-> y, month |-> m, day |-> d + 1]
    BY <1>2, <1>4
  <2>2. d + 1 \in 1 .. 31 /\ d + 1 <= DaysInMonth(y, m)
    BY <1>1, <1>3, <1>4
  <2>3. CivilToDays(y, m, d + 1) = CivilToDays(y, m, d) + 1
    BY <1>1 DEF CivilToDays, DaysBefore, DaysBeforeYear
  <2> QED BY <1>1, <2>1, <2>2, <2>3 DEF Dates, y, m, d
<1>5. CASE d = DaysInMonth(y, m) /\ m < 12
  <2>1. NextDate(date) = [year |-> y, month |-> m + 1, day |-> 1]
    BY <1>1, <1>2, <1>3, <1>5
  <2>2. 1 <= DaysInMonth(y, m + 1) /\ m + 1 \in 1 .. 12
    BY <1>1, <1>5 DEF DaysInMonth
  <2>3. CivilToDays(y, m + 1, 1) = CivilToDays(y, m, d) + 1
    <3>1. CASE m = 2
      BY <1>1, <1>5, <3>1 DEF CivilToDays, DaysBefore, DaysBeforeYear, DaysInMonth, Leap
    <3>2. CASE m # 2
      BY <1>1, <1>5, <3>2 DEF CivilToDays, DaysBefore, DaysBeforeYear, DaysInMonth
    <3> QED BY <3>1, <3>2
  <2> QED BY <1>1, <2>1, <2>2, <2>3 DEF Dates, y, m, d
<1>6. CASE d = DaysInMonth(y, m) /\ m = 12
  <2>1. NextDate(date) = [year |-> y + 1, month |-> 1, day |-> 1]
    BY <1>1, <1>2, <1>3, <1>6
  <2>2. 1 <= DaysInMonth(y + 1, 1)
    BY <1>1 DEF DaysInMonth
  <2>3. CivilToDays(y + 1, 1, 1) = CivilToDays(y, m, d) + 1
    BY <1>1, <1>6 DEF CivilToDays, DaysBefore, DaysBeforeYear, DaysInMonth
  <2> QED BY <1>1, <2>1, <2>2, <2>3 DEF Dates, y, m, d
<1> QED
  BY <1>1, <1>3, <1>4, <1>5, <1>6

\* Day 0 is 1970-01-01, and the day after a day has the calendar's next date:
\* with both, daysToCivil counts the calendar forwards and backwards.
THEOREM DaysFollowTheCalendar ==
  /\ DaysToCivil(0) = Epoch
  /\ \A z \in Int : DaysToCivil(z + 1) = NextDate(DaysToCivil(z))
<1>1. DaysToCivil(0) = Epoch
  BY DEF DaysToCivil, YearOfEra, DaysBeforeYear, DaysBefore, Epoch
<1>2. ASSUME NEW z \in Int PROVE DaysToCivil(z + 1) = NextDate(DaysToCivil(z))
  <2>1. PICK date \in Dates : date = DaysToCivil(z) /\ CivilToDays(date.year, date.month, date.day) = z
    BY DaysReadBack
  <2>2. PICK next \in Dates : next = NextDate(date) /\ CivilToDays(next.year, next.month, next.day) = z + 1
    BY <2>1, NextNumber
  <2> QED BY <2>1, <2>2, DatesReadBack
<1> QED
  BY <1>1, <1>2

\* The table of days before a month agrees with the formula of civilToDays: the
\* day of the year counts from the first of January.
THEOREM DayOfYearCounts ==
  ASSUME NEW date \in Dates
  PROVE  DayOfYear(date.year, date.month, date.day)
           = CivilToDays(date.year, date.month, date.day) - CivilToDays(date.year, 1, 1) + 1
<1>1. PICK y \in Int, m \in 1 .. 12, d \in 1 .. 31 : y = date.year /\ m = date.month /\ d = date.day
  BY DEF Dates
<1>2. IsLeapYear(y) <=> Leap(y)
  BY DEF IsLeapYear, Leap, Remainder, Quotient, Magnitude
<1>3. DayOfYear(y, m, d) = CivilToDays(y, m, d) - CivilToDays(y, 1, 1) + 1
  <2>1. CASE m = 1
    BY <2>1 DEF DayOfYear, DaysBeforeMonth, CivilToDays, DaysBefore, DaysBeforeYear
  <2>2. CASE m = 2
    BY <2>2 DEF DayOfYear, DaysBeforeMonth, CivilToDays, DaysBefore, DaysBeforeYear
  <2>3. CivilToDays(y, 3, 1) - CivilToDays(y, 1, 1) = IF Leap(y) THEN 60 ELSE 59
    BY DEF CivilToDays, DaysBefore, DaysBeforeYear, Leap
  <2>4. CASE m > 2
    BY <2>4, <2>3, <1>2 DEF DayOfYear, DaysBeforeMonth, CivilToDays, DaysBefore, DaysBeforeYear
  <2> QED BY <2>1, <2>2, <2>4
<1> QED
  BY <1>1, <1>3

\* Day 0 is a Thursday, and the days of the week follow each other, before 1970
\* as well, where % of a negative number is negative.
THEOREM WeekdaysFollow ==
  /\ IsoWeekday(0) = 4
  /\ \A z \in Int : /\ IsoWeekday(z) \in 1 .. 7
                    /\ IsoWeekday(z + 1) = IF IsoWeekday(z) = 7 THEN 1 ELSE IsoWeekday(z) + 1
BY DEF IsoWeekday, Remainder, Quotient, Magnitude

-----------------------------------------------------------------------------
(* Instants.                                                               *)

\* The corrected quotient of floorDivMs is the floor for both signs: the day of
\* an instant is the one it lies in (dtypes.md, 7.2).
THEOREM DayOfInstant ==
  ASSUME NEW ms \in Int
  PROVE  /\ FloorDivMs(ms) \in Int
         /\ FloorDivMs(ms) * MsPerDay <= ms
         /\ ms < (FloorDivMs(ms) + 1) * MsPerDay
BY SMT DEF FloorDivMs, MsPerDay, Remainder, Quotient, Magnitude

\* The division of a day into hours, minutes, seconds and milliseconds.
LEMMA DayDigits ==
  ASSUME NEW r \in Int, 0 <= r, r < 86400000
  PROVE  LET t == TimeFields(r) IN
         /\ t.hour \in Int /\ t.minute \in Int /\ t.second \in Int /\ t.millisecond \in Int
         /\ 0 <= t.hour /\ t.hour <= 23 /\ 0 <= t.minute /\ t.minute <= 59 /\ 0 <= t.second /\ t.second <= 59
         /\ 0 <= t.millisecond /\ t.millisecond <= 999
         /\ r = t.hour * 3600000 + t.minute * 60000 + t.second * 1000 + t.millisecond
<1>1. Remainder(r, 3600000) = r % 3600000
  BY SMT DEF Remainder, Quotient, Magnitude
<1>2. PICK h \in Int, a \in Int : h = r \div 3600000 /\ a = r % 3600000 /\ r = h * 3600000 + a
                                  /\ 0 <= h /\ h <= 23 /\ 0 <= a /\ a < 3600000
  BY SMT
<1>3. Remainder(a, 60000) = a % 60000
  BY SMT, <1>2 DEF Remainder, Quotient, Magnitude
<1>4. PICK i \in Int, b \in Int : i = a \div 60000 /\ b = a % 60000 /\ a = i * 60000 + b
                                  /\ 0 <= i /\ i <= 59 /\ 0 <= b /\ b < 60000
  BY SMT, <1>2
<1>5. Remainder(b, 1000) = b % 1000
  BY SMT, <1>4 DEF Remainder, Quotient, Magnitude
<1>6. PICK s \in Int, e \in Int : s = b \div 1000 /\ e = b % 1000 /\ b = s * 1000 + e
                                  /\ 0 <= s /\ s <= 59 /\ 0 <= e /\ e <= 999
  BY SMT, <1>4
<1>7. TimeFields(r) = [hour |-> h, minute |-> i, second |-> s, millisecond |-> e]
  BY SMT, <1>1, <1>2, <1>3, <1>4, <1>5, <1>6 DEF TimeFields
<1>8. r = h * 3600000 + i * 60000 + s * 1000 + e
  BY SMT, <1>2, <1>4, <1>6
<1> QED
  BY SMT, <1>2, <1>4, <1>6, <1>7, <1>8

\* The fields of a timestamp are in their ranges and say which instant it is.
THEOREM InstantsReadBack ==
  ASSUME NEW ms \in Int
  PROVE  LET Field(c) == TimestampUtcToFields(ms, c) IN
         /\ [year |-> Field("year"), month |-> Field("month"), day |-> Field("day")] \in Dates
         /\ Field("hour") \in 0 .. 23 /\ Field("minute") \in 0 .. 59 /\ Field("second") \in 0 .. 59
         /\ Field("millisecond") \in Int /\ 0 <= Field("millisecond") /\ Field("millisecond") <= 999
         /\ ms = CivilToDays(Field("year"), Field("month"), Field("day")) * MsPerDay
                 + Field("hour") * 3600000 + Field("minute") * 60000 + Field("second") * 1000 + Field("millisecond")
<1>1. PICK n \in Int : n = FloorDivMs(ms) /\ n * MsPerDay <= ms /\ ms < (n + 1) * MsPerDay
  BY DayOfInstant
<1>2. PICK r \in Int : r = ms - n * MsPerDay
  BY SMT DEF MsPerDay
<1>3. 0 <= r /\ r < 86400000
  BY SMT, <1>1, <1>2 DEF MsPerDay
<1>4. PICK date \in Dates : date = DaysToCivil(n) /\ CivilToDays(date.year, date.month, date.day) = n
  BY DaysReadBack
<1>5. /\ TimestampUtcToFields(ms, "year") = date.year
      /\ TimestampUtcToFields(ms, "month") = date.month
      /\ TimestampUtcToFields(ms, "day") = date.day
  BY SMT, <1>1, <1>4 DEF TimestampUtcToFields, DateFields, TimeOfDay
<1>6. PICK t : t = TimeFields(r)
  OBVIOUS
<1>7. /\ TimestampUtcToFields(ms, "hour") = t.hour /\ TimestampUtcToFields(ms, "minute") = t.minute
      /\ TimestampUtcToFields(ms, "second") = t.second /\ TimestampUtcToFields(ms, "millisecond") = t.millisecond
  BY SMT, <1>1, <1>2, <1>6 DEF TimestampUtcToFields, TimeOfDay
<1>8. /\ t.hour \in Int /\ t.minute \in Int /\ t.second \in Int /\ t.millisecond \in Int
      /\ 0 <= t.hour /\ t.hour <= 23 /\ 0 <= t.minute /\ t.minute <= 59 /\ 0 <= t.second /\ t.second <= 59
      /\ 0 <= t.millisecond /\ t.millisecond <= 999
      /\ r = t.hour * 3600000 + t.minute * 60000 + t.second * 1000 + t.millisecond
  BY SMT, DayDigits, <1>2, <1>3, <1>6
<1>9. [year |-> date.year, month |-> date.month, day |-> date.day] \in Dates
  BY SMT DEF Dates
<1>10. ms = n * MsPerDay + t.hour * 3600000 + t.minute * 60000 + t.second * 1000 + t.millisecond
  BY SMT, <1>2, <1>8 DEF MsPerDay
<1> QED
  BY SMT, <1>4, <1>5, <1>7, <1>9, <1>8, <1>10

-----------------------------------------------------------------------------
(* Bits of masks and validities.                                           *)

\* The byte and the bit of a row.
LEMMA BytesOfRows ==
  ASSUME NEW n \in Nat, NEW i \in 0 .. n - 1
  PROVE  /\ i \div 8 \in 0 .. BytesFor(n) - 1 /\ i % 8 \in 0 .. 7
         /\ 8 * (i \div 8) + (i % 8) = i
BY DEF BytesFor

\* Bit i of the packed rows tells whether i is one of them.
LEMMA PackedBits ==
  ASSUME NEW n \in Nat, NEW set, NEW i \in 0 .. n - 1
  PROVE  Bit(Packed(n, set), i) <=> i \in set
<1> DEFINE bits == Packed(n, set)
<1>1. /\ i \div 8 \in DOMAIN bits /\ i % 8 \in 0 .. 7
      /\ 8 * (i \div 8) + (i % 8) = i /\ DOMAIN bits = 0 .. BytesFor(n) - 1
  BY BytesOfRows DEF Packed
<1>2. bits # << >>
  <2>1. DOMAIN << >> = {}
    OBVIOUS
  <2> QED BY <1>1, <2>1
<1>3. bits[i \div 8] = {b \in 0 .. 7 : 8 * (i \div 8) + b < n /\ 8 * (i \div 8) + b \in set}
  BY <1>1 DEF Packed
<1> QED BY <1>1, <1>2, <1>3 DEF Bit, NullPtr

\* Lanes of two and of four put the bits where a loop over the rows does.
LEMMA BytesOfLanes ==
  ASSUME NEW set, NEW first \in Int, NEW lanes \in {2, 4}
  PROVE  ByteOf(set, first, lanes) = {b \in 0 .. 7 : first + b \in set}
<1> DEFINE bits(g) == {g * lanes + l : l \in GroupBits(set, first + g * lanes, lanes)}
<1>1. ASSUME NEW b \in ByteOf(set, first, lanes)
      PROVE  b \in 0 .. 7 /\ first + b \in set
  <2>1. PICK g \in 0 .. (8 \div lanes) - 1 : b \in bits(g)
    BY <1>1 DEF ByteOf
  <2>2. PICK l \in 0 .. lanes - 1 : b = g * lanes + l /\ (first + g * lanes) + l \in set
    BY <2>1 DEF GroupBits
  <2>3. CASE lanes = 2
    BY <2>1, <2>2, <2>3
  <2>4. CASE lanes = 4
    BY <2>1, <2>2, <2>4
  <2> QED BY <2>3, <2>4
<1>2. ASSUME NEW b \in 0 .. 7, first + b \in set
      PROVE  b \in ByteOf(set, first, lanes)
  <2>1. \E g \in 0 .. (8 \div lanes) - 1, l \in 0 .. lanes - 1 : b = g * lanes + l /\ (first + g * lanes) + l = first + b
    <3>1. CASE lanes = 2
      <4>1. b \div 2 \in 0 .. 3 /\ b % 2 \in 0 .. 1 /\ b = (b \div 2) * 2 + (b % 2)
        OBVIOUS
      <4>2. (first + (b \div 2) * 2) + (b % 2) = first + b
        BY <4>1
      <4> QED BY <3>1, <4>1, <4>2
    <3>2. CASE lanes = 4
      <4>1. b \div 4 \in 0 .. 1 /\ b % 4 \in 0 .. 3 /\ b = (b \div 4) * 4 + (b % 4)
        OBVIOUS
      <4>2. (first + (b \div 4) * 4) + (b % 4) = first + b
        BY <4>1
      <4> QED BY <3>2, <4>1, <4>2
    <3> QED BY <3>1, <3>2
  <2>2. PICK g \in 0 .. (8 \div lanes) - 1, l \in 0 .. lanes - 1 : b = g * lanes + l /\ (first + g * lanes) + l = first + b
    BY <2>1
  <2>3. l \in GroupBits(set, first + g * lanes, lanes)
    BY <1>2, <2>2 DEF GroupBits
  <2>4. b \in bits(g)
    BY <2>2, <2>3
  <2> QED BY <2>4 DEF ByteOf
<1> QED BY <1>1, <1>2

\* The bits of byte k of a mask of n rows.
RowBits(set, n, k) == {b \in 0 .. 7 : 8 * k + b < n /\ 8 * k + b \in set}

\* Every layout stores the same bits and leaves the bytes behind the rows alone.
LEMMA MaskBytes ==
  ASSUME NEW n \in Nat, NEW set, NEW old, NEW k \in DOMAIN old, DOMAIN old \subseteq Nat
  PROVE  LET bytes(mask) == mask[k] = IF k < BytesFor(n) THEN RowBits(set, n, k) ELSE old[k] IN
         bytes(MaskOfWide(set, n, old)) /\ bytes(MaskOfNarrow(set, n, old)) /\ bytes(MaskOfScalar(set, n, old))
<1> DEFINE after == IF k < BytesFor(n) THEN RowBits(set, n, k) ELSE old[k]
<1>1. Cleared(old, n)[k] = IF k < BytesFor(n) THEN {} ELSE old[k]
  BY DEF Cleared
<1>2. k < BytesFor(n) => Packed(n, set)[k] = RowBits(set, n, k)
  BY DEF Packed, RowBits, BytesFor
<1>3. ASSUME NEW lanes \in {2, 4} PROVE MaskOf(set, n, lanes, old)[k] = after
  <2>1. MaskOf(set, n, lanes, old)[k] =
          IF k < n \div 8 THEN ByteOf(set, 8 * k, lanes)
          ELSE IF k < BytesFor(n) THEN Cleared(old, n)[k] \cup Packed(n, set)[k] ELSE Cleared(old, n)[k]
    BY DEF MaskOf
  <2>2. k < n \div 8 => k < BytesFor(n) /\ \A b \in 0 .. 7 : 8 * k + b < n
    BY DEF BytesFor
  <2>3. k < n \div 8 => ByteOf(set, 8 * k, lanes) = RowBits(set, n, k)
    <3>1. ByteOf(set, 8 * k, lanes) = {b \in 0 .. 7 : 8 * k + b \in set}
      BY BytesOfLanes
    <3> QED BY <2>2, <3>1 DEF RowBits
  <2> QED BY <1>1, <1>2, <2>1, <2>2, <2>3
<1>4. MaskOfScalar(set, n, old)[k] = after
  BY <1>1, <1>2 DEF MaskOfScalar
<1> QED BY <1>3, <1>4 DEF MaskOfWide, MaskOfNarrow

-----------------------------------------------------------------------------
(* Comparisons.                                                            *)

\* A scalar on the left is compared by the mirrored comparison.
LEMMA ComparesAsItHolds ==
  ASSUME NEW op \in {"gt", "ge", "lt", "le", "eq", "ne"}, NEW x \in Int, NEW y \in Int
  PROVE  /\ Compare(op, x, y) <=> Holds(op, x, y)
         /\ Compare(Mirror(op), y, x) <=> Holds(op, x, y)
<1>1. NaN \in {x, y} \/ (x # NaN /\ y # NaN)
  OBVIOUS
<1>2. CASE op = "gt"
  BY <1>1, <1>2 DEF Compare, Mirror, Holds, Below, AtMost
<1>3. CASE op = "ge"
  BY <1>1, <1>3 DEF Compare, Mirror, Holds, Below, AtMost
<1>4. CASE op = "lt"
  BY <1>1, <1>4 DEF Compare, Mirror, Holds, Below, AtMost
<1>5. CASE op = "le"
  BY <1>1, <1>5 DEF Compare, Mirror, Holds, Below, AtMost
<1>6. CASE op = "eq"
  BY <1>1, <1>6 DEF Compare, Mirror, Holds, Below, AtMost
<1>7. CASE op = "ne"
  BY <1>1, <1>7 DEF Compare, Mirror, Holds, Below, AtMost
<1> QED BY <1>2, <1>3, <1>4, <1>5, <1>6, <1>7

\* What the reductions return together.
FloatsResult(a, n) ==
  [sum |-> {sum_f64_null(a, n), sum_f32_null(a, n)},
   mean |-> {mean_null(a, n, 2), mean_null(a, n, 4)},
   var |-> {var_null(a, n, 2, 2), var_null(a, n, 4, 1)},
   min |-> {min_f64_null(a, n), min_f32_null(a, n)},
   max |-> {max_f64_null(a, n), max_f32_null(a, n)},
   first |-> first_null(a, n), last |-> last_null(a, n),
   nunique |-> nunique_null(a, n), count |-> count_null(a, n)]

IntsResult(a, n) ==
  [sum |-> sum_int_null(a, n), wrapped |-> sum_i64_null(a, n),
   mean |-> {mean_null(a, n, 1), mean_null(a, n, 2)},
   var |-> {var_null(a, n, 1, 1), var_null(a, n, 2, 2)},
   min |-> min_int_null(a, n), max |-> max_int_null(a, n),
   nunique |-> nunique_null(a, n), nunique_i64 |-> nunique_i64_null(a, n)]

\* A kernel has run at most once, and its result is that of the call.
Computed ==
  /\ call \in Calls
  /\ Ran({"arithmetic"}) =>
       result = ArithVec(call.dtype, call.op, call.mem, call.l, call.r, call.fresh, call.n, call.lanes)
  /\ Ran({"scalar"}) =>
       result = ArithScalar(call.dtype, call.op, call.mem, call.l, call.s, call.fresh, call.n, call.lanes)
  /\ Ran({"negate"}) =>
       LET out == IF call.l.owns THEN call.l.at ELSE call.fresh IN
       result = [mem |-> Negate(call.mem, call.dtype, call.l.at, out, call.n, call.lanes), out |-> out, vp |-> call.l.vp]
  /\ Ran({"compare"}) =>
       result = CompareMask(call.op, call.col, call.s, call.scalarLeft, call.n, call.layout, call.old)
  /\ Ran({"cast"}) =>
       result = [column |-> EvalCast(call.from, call.to, call.col, call.n),
                 scalar |-> CastScalar(call.from, call.to, call.col.data[0])]
  /\ Ran({"date"}) =>
       result = [ms |-> DateToTimestamp(call.day), day |-> TimestampToDate(call.ms),
                 back |-> TimestampToDate(DateToTimestamp(call.day))]
  /\ Ran({"sort"}) => result = Argsort(call.col, call.perm, call.desc)
  /\ Ran({"topk"}) => result = TopK(call.col, call.k, call.n, call.largest)
  /\ Ran({"filter"}) =>
       LET list == FilterIndices(call.mask, call.n) IN
       result = [rows |-> list, data |-> Filter(call.col.data, call.mask, call.n),
                 gathered |-> Gather(call.col.data, list),
                 vp |-> GatherValidity(call.col.vp, list, call.old),
                 wide |-> ExpandMaskBool(call.mask, call.n)]
  /\ Ran({"logic"}) =>
       result = [both |-> EvalKleene("and", call.a, call.b, call.n),
                 either |-> EvalKleene("or", call.a, call.b, call.n),
                 negated |-> EvalNot(call.a, call.n),
                 nulls |-> IsNull(call.a.vp, call.n),
                 filled |-> FillNull(call.a, 1, call.n)]
  /\ Ran({"floats"}) => result = FloatsResult(call.col, call.n)
  /\ Ran({"ints"}) => result = IntsResult(call.col, call.n)

\* Every behaviour is one call.
LEMMA AlwaysComputed == Spec => []Computed
<1>1. Init => Computed
  BY DEF Init, Computed, Ran
<1>2. Computed /\ [Next]_vars => Computed'
  <2> SUFFICES ASSUME Computed, [Next]_vars PROVE Computed'
    OBVIOUS
  <2>1. CASE UNCHANGED vars
    BY <2>1 DEF vars, Computed, Ran
  <2>2. CASE Next
    <3>1. call' = call /\ Run
      BY <2>2 DEF Next
    <3> QED
      BY <3>1 DEF Computed, Ran, Run, Arithmetic, ArithmeticWithScalar, Negation, Comparison, Logical,
         Cast, CastDate, ReduceFloats, ReduceInts, FloatsResult, IntsResult, Sort, SelectTop, Selection
  <2> QED BY <2>1, <2>2
<1> QED BY <1>1, <1>2, PTL DEF Spec

\* A comparison sets exactly the bits of the rows for which it holds, in every
\* layout, for any number of rows and any content of the mask before, and leaves
\* no bit in the padding (the cmp_* masks of elementwise.rs, evalCompare of compile.ts).
THEOREM MasksOfRows == Spec => []MasksExact
<1>1. Computed => MasksExact
  <2> SUFFICES ASSUME Computed, Ran({"compare"}) PROVE MasksExact
    BY DEF MasksExact
  <2> DEFINE holds(i) == IF call.scalarLeft THEN Holds(call.op, call.s, call.col.data[i])
                         ELSE Holds(call.op, call.col.data[i], call.s)
             set == {i \in 0 .. call.n - 1 :
                        Compare(IF call.scalarLeft THEN Mirror(call.op) ELSE call.op, call.col.data[i], call.s)}
             n == call.n
  <2>1. /\ n \in Nat /\ call.op \in {"gt", "ge", "lt", "le", "eq", "ne"}
        /\ call.layout \in {"wide", "narrow", "scalar"}
        /\ call.s \in Int /\ \A i \in 0 .. n - 1 : call.col.data[i] \in Int
        /\ 0 .. BytesFor(n) - 1 \subseteq DOMAIN call.old /\ DOMAIN call.old \subseteq Nat
    BY CallsAssumption DEF Computed, Ran
  <2>2. \A i \in 0 .. n - 1 : i \in set <=> holds(i)
    BY <2>1, ComparesAsItHolds
  <2>3. result = IF call.layout = "wide" THEN MaskOfWide(set, n, call.old)
                 ELSE IF call.layout = "narrow" THEN MaskOfNarrow(set, n, call.old)
                 ELSE MaskOfScalar(set, n, call.old)
    BY DEF Computed, CompareMask
  <2> HIDE DEF set
  <2>4. \A k \in DOMAIN call.old :
          result[k] = IF k < BytesFor(n) THEN RowBits(set, n, k) ELSE call.old[k]
    BY <2>1, <2>3, MaskBytes
  <2>5. ASSUME NEW k \in 0 .. BytesFor(n) - 1
        PROVE  result[k] = {b \in 0 .. 7 : 8 * k + b < n /\ holds(8 * k + b)}
    <3>1. result[k] = RowBits(set, n, k)
      BY <2>1, <2>4 DEF BytesFor
    <3>2. \A b \in 0 .. 7 : 8 * k + b < n => (8 * k + b \in set <=> holds(8 * k + b))
      BY <2>1, <2>2 DEF BytesFor
    <3> HIDE DEF holds
    <3> QED BY <3>1, <3>2 DEF RowBits
  <2>6. ASSUME NEW k \in DOMAIN call.old, k >= BytesFor(n) PROVE result[k] = call.old[k]
    BY <2>1, <2>4, <2>6 DEF BytesFor
  <2> QED BY <2>5, <2>6 DEF MasksExact
<1> QED BY <1>1, AlwaysComputed, PTL

-----------------------------------------------------------------------------
(* Logic.  A known truth value is a set of one, an unknown one {0, 1}.     *)

Truths == {{0}, {1}, {0, 1}}

\* The sets of truth values of Possible differ.
LEMMA TruthsDiffer == {0} # {0, 1} /\ {1} # {0, 1} /\ {0} # {1}
<1>1. 1 \notin {0} /\ 0 \notin {1} /\ 0 \in {0, 1} /\ 1 \in {0, 1} /\ 0 \in {0}
  OBVIOUS
<1> QED BY <1>1

\* One outcome, or two.
LEMMA TruthSizes ==
  /\ \A S \in Truths : Cardinality(S) = 1 <=> S # {0, 1}
  /\ \A S \in Truths : Cardinality(S) - 1 = IF S = {0, 1} THEN 1 ELSE 0
<1>1. Cardinality({0}) = 1 /\ Cardinality({1}) = 1 /\ IsFiniteSet({0})
  BY FS_Singleton
<1>2. Cardinality({0} \cup {1}) = 2
  BY <1>1, FS_AddElement
<1>3. {0} \cup {1} = {0, 1}
  OBVIOUS
<1> QED BY <1>1, <1>2, <1>3, TruthsDiffer DEF Truths

\* What three-valued logic says of the values nulls may stand for.
LEMMA TruthTables ==
  ASSUME NEW A \in Truths, NEW B \in Truths
  PROVE  /\ Ands(A, B) =
              IF A = {0} \/ B = {0} THEN {0} ELSE IF A = {1} /\ B = {1} THEN {1} ELSE {0, 1}
         /\ Ors(A, B) =
              IF A = {1} \/ B = {1} THEN {1} ELSE IF A = {0} /\ B = {0} THEN {0} ELSE {0, 1}
         /\ Nots(A) = IF A = {0} THEN {1} ELSE IF A = {1} THEN {0} ELSE {0, 1}
<1>1. CASE A = {0}
  BY <1>1 DEF Truths, Ands, Ors, Nots
<1>2. CASE A = {1}
  BY <1>2 DEF Truths, Ands, Ors, Nots
<1>3. CASE A = {0, 1}
  BY <1>3 DEF Truths, Ands, Ors, Nots
<1> QED BY <1>1, <1>2, <1>3 DEF Truths

\* A valid row has its value, a null row any.
LEMMA PossibleTruths ==
  ASSUME NEW a, NEW i, a.data[i] \in {0, 1}
  PROVE  /\ Possible(a, i) \in Truths
         /\ Possible(a, i) = {0} <=> Bit(a.vp, i) /\ a.data[i] = 0
         /\ Possible(a, i) = {1} <=> Bit(a.vp, i) /\ a.data[i] = 1
         /\ Possible(a, i) = {0, 1} <=> ~Bit(a.vp, i)
<1>1. CASE Bit(a.vp, i)
  BY <1>1, TruthsDiffer DEF Possible, Truths
<1>2. CASE ~Bit(a.vp, i)
  BY <1>2, TruthsDiffer DEF Possible, Truths
<1> QED BY <1>1, <1>2

\* A column decides a row when it is valid for known outcomes only.
LEMMA DecidedBy ==
  ASSUME NEW column, NEW i, NEW S \in Truths,
         Bit(column.vp, i) <=> S # {0, 1},
         S # {0, 1} => S = {column.data[i]}
  PROVE  Decides(column, i, S)
BY TruthSizes DEF Decides, Bit

\* The validity of and and or is that of their outcomes.
LEMMA BothOrEither ==
  ASSUME NEW a, NEW b, NEW n \in Nat, NEW i \in 0 .. n - 1,
         a.data[i] \in {0, 1}, b.data[i] \in {0, 1}
  PROVE  /\ Decides(EvalKleene("and", a, b, n), i, Ands(Possible(a, i), Possible(b, i)))
         /\ Decides(EvalKleene("or", a, b, n), i,
                    Ors(Possible(a, i), Possible(b, i)))
<1> DEFINE A == Possible(a, i)
           B == Possible(b, i)
           both == EvalKleene("and", a, b, n)
           either == EvalKleene("or", a, b, n)
<1>1. /\ A \in Truths /\ B \in Truths
      /\ A = {0} <=> Bit(a.vp, i) /\ a.data[i] = 0
      /\ A = {1} <=> Bit(a.vp, i) /\ a.data[i] = 1
      /\ A = {0, 1} <=> ~Bit(a.vp, i)
      /\ B = {0} <=> Bit(b.vp, i) /\ b.data[i] = 0
      /\ B = {1} <=> Bit(b.vp, i) /\ b.data[i] = 1
      /\ B = {0, 1} <=> ~Bit(b.vp, i)
  BY PossibleTruths
<1>2. /\ both.data[i] = a.data[i] * b.data[i]
      /\ Bit(both.vp, i) <=> AndValid(Bit(a.vp, i), a.data[i], Bit(b.vp, i), b.data[i])
  <2>1. /\ AndKleene(a, b, n).data[i] = a.data[i] * b.data[i]
        /\ Bit(AndKleene(a, b, n).vp, i) <=> AndValid(Bit(a.vp, i), a.data[i], Bit(b.vp, i), b.data[i])
    BY PackedBits DEF AndKleene, Column
  <2>2. CASE a.vp = NullPtr /\ b.vp = NullPtr
    <3>1. both.data = AndKleene(a, b, n).data /\ both.vp = NullPtr
      BY <2>2 DEF EvalKleene, Column
    <3> QED BY <2>1, <2>2, <3>1 DEF Bit, AndValid
  <2>3. CASE ~(a.vp = NullPtr /\ b.vp = NullPtr)
    BY <2>1, <2>3 DEF EvalKleene
  <2> QED BY <2>2, <2>3
<1>3. /\ either.data[i] = a.data[i] + b.data[i] - a.data[i] * b.data[i]
      /\ Bit(either.vp, i) <=> OrValid(Bit(a.vp, i), a.data[i], Bit(b.vp, i), b.data[i])
  <2>1. /\ OrKleene(a, b, n).data[i] = a.data[i] + b.data[i] - a.data[i] * b.data[i]
        /\ Bit(OrKleene(a, b, n).vp, i) <=> OrValid(Bit(a.vp, i), a.data[i], Bit(b.vp, i), b.data[i])
    BY PackedBits DEF OrKleene, Column
  <2>2. CASE a.vp = NullPtr /\ b.vp = NullPtr
    <3>1. either.data = OrKleene(a, b, n).data /\ either.vp = NullPtr
      BY <2>2 DEF EvalKleene, Column
    <3> QED BY <2>1, <2>2, <3>1 DEF Bit, OrValid
  <2>3. CASE ~(a.vp = NullPtr /\ b.vp = NullPtr)
    BY <2>1, <2>3 DEF EvalKleene
  <2> QED BY <2>2, <2>3
<1> HIDE DEF both, either
<1>4. Decides(both, i, Ands(A, B))
  <2> DEFINE S == Ands(A, B)
  <2>1. S = IF A = {0} \/ B = {0} THEN {0} ELSE IF A = {1} /\ B = {1} THEN {1} ELSE {0, 1}
    BY <1>1, TruthTables
  <2> HIDE DEF S, A, B
  <2>2. S \in Truths /\ (Bit(both.vp, i) <=> S # {0, 1}) /\ (S # {0, 1} => S = {both.data[i]})
    <3>1. CASE a.data[i] = 0 /\ b.data[i] = 0
      BY <1>1, <1>2, <2>1, <3>1, TruthsDiffer DEF AndValid, Truths
    <3>2. CASE a.data[i] = 0 /\ b.data[i] = 1
      BY <1>1, <1>2, <2>1, <3>2, TruthsDiffer DEF AndValid, Truths
    <3>3. CASE a.data[i] = 1 /\ b.data[i] = 0
      BY <1>1, <1>2, <2>1, <3>3, TruthsDiffer DEF AndValid, Truths
    <3>4. CASE a.data[i] = 1 /\ b.data[i] = 1
      BY <1>1, <1>2, <2>1, <3>4, TruthsDiffer DEF AndValid, Truths
    <3> QED BY <3>1, <3>2, <3>3, <3>4
  <2>3. Decides(both, i, S)
    BY <2>2, DecidedBy
  <2> QED BY <2>3 DEF S
<1>5. Decides(either, i, Ors(A, B))
  <2> DEFINE S == Ors(A, B)
  <2>1. S = IF A = {1} \/ B = {1} THEN {1} ELSE IF A = {0} /\ B = {0} THEN {0} ELSE {0, 1}
    BY <1>1, TruthTables
  <2> HIDE DEF S, A, B
  <2>2. S \in Truths /\ (Bit(either.vp, i) <=> S # {0, 1}) /\ (S # {0, 1} => S = {either.data[i]})
    <3>1. CASE a.data[i] = 0 /\ b.data[i] = 0
      BY <1>1, <1>3, <2>1, <3>1, TruthsDiffer DEF OrValid, Truths
    <3>2. CASE a.data[i] = 0 /\ b.data[i] = 1
      BY <1>1, <1>3, <2>1, <3>2, TruthsDiffer DEF OrValid, Truths
    <3>3. CASE a.data[i] = 1 /\ b.data[i] = 0
      BY <1>1, <1>3, <2>1, <3>3, TruthsDiffer DEF OrValid, Truths
    <3>4. CASE a.data[i] = 1 /\ b.data[i] = 1
      BY <1>1, <1>3, <2>1, <3>4, TruthsDiffer DEF OrValid, Truths
    <3> QED BY <3>1, <3>2, <3>3, <3>4
  <2>3. Decides(either, i, S)
    BY <2>2, DecidedBy
  <2> QED BY <2>3 DEF S
<1> QED BY <1>4, <1>5 DEF both, either

\* The negation decides what the negated possible values decide.
LEMMA Negated ==
  ASSUME NEW a, NEW n \in Nat, NEW i \in 0 .. n - 1, a.data[i] \in {0, 1}
  PROVE  Decides(EvalNot(a, n), i, Nots(Possible(a, i)))
<1> DEFINE A == Possible(a, i)
           r == EvalNot(a, n)
           S == Nots(A)
<1>1. /\ A \in Truths
      /\ A = {0} <=> Bit(a.vp, i) /\ a.data[i] = 0
      /\ A = {1} <=> Bit(a.vp, i) /\ a.data[i] = 1
      /\ A = {0, 1} <=> ~Bit(a.vp, i)
  BY PossibleTruths
<1>2. r.data[i] = 1 - a.data[i] /\ (Bit(r.vp, i) <=> Bit(a.vp, i))
  <2>1. NotBool(a, n).data[i] = 1 - a.data[i] /\ (Bit(NotBool(a, n).vp, i) <=> Bit(a.vp, i))
    BY PackedBits DEF NotBool, Column
  <2>2. CASE a.vp = NullPtr
    <3>1. r.data = NotBool(a, n).data /\ r.vp = NullPtr
      BY <2>2 DEF EvalNot, Column
    <3> QED BY <2>1, <2>2, <3>1 DEF Bit
  <2>3. CASE a.vp # NullPtr
    BY <2>1, <2>3 DEF EvalNot
  <2> QED BY <2>2, <2>3
<1>3. S = IF A = {0} THEN {1} ELSE IF A = {1} THEN {0} ELSE {0, 1}
  BY <1>1, TruthTables
<1> HIDE DEF r, S, A
<1>4. S \in Truths /\ (Bit(r.vp, i) <=> S # {0, 1}) /\ (S # {0, 1} => S = {r.data[i]})
  <2>1. CASE a.data[i] = 0
    BY <1>1, <1>2, <1>3, <2>1, TruthsDiffer DEF Truths
  <2>2. CASE a.data[i] = 1
    BY <1>1, <1>2, <1>3, <2>2, TruthsDiffer DEF Truths
  <2> QED BY <2>1, <2>2
<1>5. Decides(r, i, S)
  BY <1>4, DecidedBy
<1> QED BY <1>5 DEF r, S, A

\* A row of and, or and not is null exactly when its value depends on what its
\* nulls stand for, for any number of rows and any validities, none among them
\* (and_kleene, or_kleene and not_bool of elementwise.rs, evalKleene of compile.ts).
THEOREM LogicOfNulls == Spec => []KleeneExact
<1>1. ASSUME Computed, Ran({"logic"}), NEW i \in 0 .. call.n - 1
      PROVE  LET As == Possible(call.a, i)
                 Bs == Possible(call.b, i) IN
             /\ Decides(result.both, i, Ands(As, Bs))
             /\ Decides(result.either, i, Ors(As, Bs))
             /\ Decides(result.negated, i, Nots(As))
             /\ result.nulls[i] = Cardinality(As) - 1
             /\ result.filled[i] = IF Cardinality(As) = 1 THEN call.a.data[i] ELSE 1
  <2> DEFINE a == call.a
             b == call.b
             n == call.n
             A == Possible(a, i)
  <2>1. n \in Nat /\ a.data[i] \in {0, 1} /\ b.data[i] \in {0, 1}
    BY <1>1, CallsAssumption DEF Computed, Ran
  <2>2. /\ result.both = EvalKleene("and", a, b, n) /\ result.either = EvalKleene("or", a, b, n)
        /\ result.negated = EvalNot(a, n)
        /\ result.nulls = IsNull(a.vp, n) /\ result.filled = FillNull(a, 1, n)
    BY <1>1 DEF Computed
  <2>3. A \in Truths /\ (A = {0, 1} <=> ~Bit(a.vp, i))
    BY <2>1, PossibleTruths
  <2>4. /\ IsNull(a.vp, n)[i] = IF Bit(a.vp, i) THEN 0 ELSE 1
        /\ FillNull(a, 1, n)[i] = IF Bit(a.vp, i) THEN a.data[i] ELSE 1
    BY DEF IsNull, FillNull, Bit
  <2>5. (Cardinality(A) = 1 <=> Bit(a.vp, i)) /\ Cardinality(A) - 1 = IF Bit(a.vp, i) THEN 0 ELSE 1
    BY <2>3, TruthSizes
  <2>6. /\ Decides(result.both, i, Ands(Possible(a, i), Possible(b, i)))
        /\ Decides(result.either, i, Ors(Possible(a, i), Possible(b, i)))
        /\ Decides(result.negated, i, Nots(Possible(a, i)))
    <3>1. /\ Decides(EvalKleene("and", a, b, n), i, Ands(Possible(a, i), Possible(b, i)))
          /\ Decides(EvalKleene("or", a, b, n), i,
                     Ors(Possible(a, i), Possible(b, i)))
      BY <2>1, BothOrEither
    <3>2. Decides(EvalNot(a, n), i, Nots(Possible(a, i)))
      BY <2>1, Negated
    <3> QED BY <2>2, <3>1, <3>2
  <2>7. result.nulls[i] = Cardinality(A) - 1 /\ result.filled[i] = IF Cardinality(A) = 1 THEN a.data[i] ELSE 1
    BY <2>2, <2>4, <2>5
  <2> HIDE DEF Decides, Possible
  <2> QED BY <2>6, <2>7
<1>2. Computed => KleeneExact
  BY <1>1 DEF KleeneExact
<1> QED BY <1>2, AlwaysComputed, PTL

-----------------------------------------------------------------------------
(* Numbers up to n.                                                        *)

\* A set of naturals that is not empty has a least element.
LEMMA LeastElement ==
  ASSUME NEW T, T \subseteq Nat, T # {}
  PROVE  \E x \in T : \A y \in T : x <= y
<1>1. PICK x \in T : \A y \in T : <<y, x>> \notin OpToRel(<, Nat)
  BY WFMin, NatLessThanWellFounded, Zenon
<1>2. \A y \in T : ~(y < x)
  BY <1>1, Zenon DEF OpToRel
<1> QED BY <1>2

\* What holds at 0, and at a number when it holds at the one before, holds.
LEMMA StepByStep ==
  ASSUME NEW n \in Nat, NEW G, 0 \in G, \A k \in 1 .. n : k - 1 \in G => k \in G
  PROVE  \A k \in 0 .. n : k \in G
<1> DEFINE T == {k \in 0 .. n : k \notin G}
<1>1. SUFFICES ASSUME T # {} PROVE FALSE
  OBVIOUS
<1>2. PICK k \in T : \A l \in T : k <= l
  <2>1. T \subseteq Nat
    OBVIOUS
  <2> HIDE DEF T
  <2> QED BY <1>1, <2>1, LeastElement
<1>3. k \in 1 .. n /\ k - 1 \in 0 .. n /\ k - 1 \notin T
  BY <1>2
<1> QED BY <1>2, <1>3

-----------------------------------------------------------------------------
(* Recursion from 0 to n.                                                  *)

\* f[k] is what k steps make of a, and is in A[k].
Steps(f, n, A, a, step) ==
  /\ f = [k \in 0 .. n |-> IF k = 0 THEN a ELSE step[<<k, f[k - 1]>>]]
  /\ \A k \in 0 .. n : f[k] \in A[k]

\* What a step gives from what the one before gave exists for any number of steps.
LEMMA Recursion ==
  ASSUME NEW n \in Nat, NEW A, NEW a \in A[0], NEW step,
         \A k \in 1 .. n : \A x \in A[k - 1] : step[<<k, x>>] \in A[k]
  PROVE  \E f : Steps(f, n, A, a, step)
<1> DEFINE Good(m, f) == /\ f = [k \in 0 .. m |-> IF k = 0 THEN a ELSE step[<<k, f[k - 1]>>]]
                         /\ \A k \in 0 .. m : f[k] \in A[k]
           G == {m \in 0 .. n : \E f : Good(m, f)}
<1>1. 0 \in G
  <2> DEFINE f == [k \in 0 .. 0 |-> a]
  <2>1. Good(0, f)
    OBVIOUS
  <2>2. \E g : Good(0, g)
    BY <2>1
  <2> HIDE DEF Good, f
  <2> QED BY <2>2
<1>2. ASSUME NEW m \in 1 .. n, m - 1 \in G PROVE m \in G
  <2>1. PICK g : Good(m - 1, g)
    BY <1>2
  <2> DEFINE f == [k \in 0 .. m |-> IF k = 0 THEN a ELSE step[<<k, g[k - 1]>>]]
  <2>2. \A k \in 0 .. m - 1 : g[k] = IF k = 0 THEN a ELSE step[<<k, g[k - 1]>>]
    BY <2>1
  <2>3. \A k \in 0 .. m : f[k] = IF k = 0 THEN a ELSE step[<<k, g[k - 1]>>]
    OBVIOUS
  <2>4. DOMAIN f = 0 .. m /\ f = [k \in 0 .. m |-> f[k]]
    OBVIOUS
  <2> HIDE DEF f
  <2>5. \A k \in 0 .. m - 1 : f[k] = g[k]
    <3> SUFFICES ASSUME NEW k \in 0 .. m - 1 PROVE f[k] = g[k]
      OBVIOUS
    <3>1. k \in 0 .. m
      OBVIOUS
    <3> QED BY <2>2, <2>3, <3>1
  <2>6. \A k \in 1 .. m : f[k - 1] = g[k - 1] /\ g[k - 1] \in A[k - 1]
    <3> SUFFICES ASSUME NEW k \in 1 .. m PROVE f[k - 1] = g[k - 1] /\ g[k - 1] \in A[k - 1]
      OBVIOUS
    <3>1. k - 1 \in 0 .. m - 1
      OBVIOUS
    <3> QED BY <2>1, <2>5, <3>1
  <2>7. \A k \in 0 .. m : f[k] = IF k = 0 THEN a ELSE step[<<k, f[k - 1]>>]
    <3> SUFFICES ASSUME NEW k \in 0 .. m PROVE f[k] = IF k = 0 THEN a ELSE step[<<k, f[k - 1]>>]
      OBVIOUS
    <3>1. k # 0 => k \in 1 .. m
      OBVIOUS
    <3> QED BY <2>3, <2>6, <3>1
  <2>8. \A k \in 0 .. m : f[k] \in A[k]
    <3> SUFFICES ASSUME NEW k \in 0 .. m PROVE f[k] \in A[k]
      OBVIOUS
    <3>1. CASE k = 0
      BY <2>3, <3>1
    <3>2. CASE k # 0
      <4>1. k \in 1 .. m /\ k \in 1 .. n
        BY <3>2
      <4> QED BY <2>3, <2>6, <3>2, <4>1
    <3> QED BY <3>1, <3>2
  <2>9. Good(m, f)
    BY <2>4, <2>7, <2>8
  <2>10. \E h : Good(m, h)
    BY <2>9
  <2> HIDE DEF Good
  <2> QED BY <2>10
<1>3. n \in G
  <2>1. \A m \in 1 .. n : m - 1 \in G => m \in G
    BY <1>2
  <2> HIDE DEF G
  <2>2. \A m \in 0 .. n : m \in G
    BY <1>1, <2>1, StepByStep
  <2> QED BY <2>2
<1>4. PICK f : Good(n, f)
  BY <1>3
<1> QED BY <1>4 DEF Steps

-----------------------------------------------------------------------------
(* Orders and arrangements.                                                *)

\* The rows of the positions behind i up to j.
Elements(p, i, j) == {p[k] : k \in i + 1 .. j}

Ordered(p, i, j, rel) == \A a, b \in i + 1 .. j : a < b => <<p[a], p[b]>> \in rel

\* The order asked of a stable sort of the rows S that stand at these places: that of
\* the keys, and of the places where it decides nothing.
Stable(S, place, order, rel) ==
  /\ place \in [S -> Nat]
  /\ \A x, y, z \in S : <<x, y>> \in rel /\ <<y, z>> \in rel => <<x, z>> \in rel
  /\ \A x, y \in S : place[x] < place[y] => IF <<y, x>> \in order THEN <<y, x>> \in rel ELSE <<x, y>> \in rel

\* q orders the rows of p behind lo up to hi and leaves the others.
Reorders(S, rel, p, q, lo, hi) ==
  /\ q \in Seq(S) /\ Len(q) = Len(p)
  /\ \A k \in 1 .. Len(p) : k \notin lo + 1 .. hi => q[k] = p[k]
  /\ Elements(q, lo, hi) = Elements(p, lo, hi)
  /\ Ordered(q, lo, hi, rel)

\* The rows S, ordered between two neighbours of the cuts C, and each of them
\* between the cuts it was between.
Arranged(S, place, rel, n, C, p) ==
  /\ p \in Seq(S) /\ Len(p) = n /\ Elements(p, 0, n) = S
  /\ \A c \in C, i \in 1 .. n : i <= c <=> place[p[i]] <= c
  /\ \A i, j \in 1 .. n : i < j /\ (\A c \in C : ~(i <= c /\ c < j)) => <<p[i], p[j]>> \in rel

\* Between two cuts a reordering removes the cuts there.
LEMMA ReordersArranged ==
  ASSUME NEW S, NEW place, NEW rel, NEW n \in Nat, NEW C, C \subseteq 0 .. n, NEW p, NEW q,
         NEW lo \in C, NEW hi \in C, lo <= hi,
         Arranged(S, place, rel, n, C, p), Reorders(S, rel, p, q, lo, hi)
  PROVE  Arranged(S, place, rel, n, C \ (lo + 1 .. hi - 1), q)
<1> DEFINE D == C \ (lo + 1 .. hi - 1)
<1>1. /\ p \in Seq(S) /\ q \in Seq(S) /\ Len(p) = n /\ Len(q) = n /\ lo \in 0 .. n /\ hi \in 0 .. n
      /\ \A k \in 1 .. n : k \notin lo + 1 .. hi => q[k] = p[k]
      /\ Elements(q, lo, hi) = Elements(p, lo, hi)
  BY DEF Arranged, Reorders
<1>2. ASSUME NEW k \in 1 .. n, k \in lo + 1 .. hi
      PROVE  (\E l \in lo + 1 .. hi : q[k] = p[l]) /\ (\E l \in lo + 1 .. hi : p[k] = q[l])
  BY <1>1, <1>2 DEF Elements
<1>3. Elements(q, 0, n) = S
  <2>1. \A k \in 0 + 1 .. n : \E l \in 0 + 1 .. n : p[k] = q[l]
    <3> SUFFICES ASSUME NEW k \in 1 .. n PROVE \E l \in 1 .. n : p[k] = q[l]
      OBVIOUS
    <3>1. CASE k \in lo + 1 .. hi
      BY <1>1, <1>2, <3>1
    <3>2. CASE k \notin lo + 1 .. hi
      BY <1>1, <3>2
    <3> QED BY <3>1, <3>2
  <2>2. \A k \in 0 + 1 .. n : q[k] \in S
    BY <1>1
  <2>3. Elements(p, 0, n) = S
    BY DEF Arranged
  <2> QED BY <2>1, <2>2, <2>3 DEF Elements
<1>4. ASSUME NEW c \in D, NEW i \in 1 .. n PROVE i <= c <=> place[q[i]] <= c
  <2>1. \A k \in 1 .. n : k <= c <=> place[p[k]] <= c
    BY DEF Arranged
  <2>2. c <= lo \/ hi <= c
    BY <1>1
  <2>3. CASE i \in lo + 1 .. hi
    <3>1. PICK l \in lo + 1 .. hi : q[i] = p[l]
      BY <1>2, <2>3
    <3>2. l \in 1 .. n /\ (i <= c <=> l <= c)
      BY <1>1, <2>2, <2>3, <3>1
    <3> QED BY <2>1, <3>1, <3>2
  <2>4. CASE i \notin lo + 1 .. hi
    BY <1>1, <2>1, <2>4
  <2> QED BY <2>3, <2>4
<1>5. ASSUME NEW i \in 1 .. n, NEW j \in 1 .. n, i < j, \A c \in D : ~(i <= c /\ c < j)
      PROVE  <<q[i], q[j]>> \in rel
  <2>1. lo \in D /\ hi \in D
    BY <1>1
  <2>2. (j <= lo \/ lo < i) /\ (hi < i \/ j <= hi)
    <3>1. ~(i <= lo /\ lo < j) /\ ~(i <= hi /\ hi < j)
      BY <1>5, <2>1
    <3> QED BY <1>1, <3>1
  <2>3. CASE lo < i /\ j <= hi
    <3>1. i \in lo + 1 .. hi /\ j \in lo + 1 .. hi
      BY <1>1, <1>5, <2>3
    <3> QED BY <1>5, <3>1 DEF Reorders, Ordered
  <2>4. CASE j <= lo \/ hi < i
    <3>1. i \notin lo + 1 .. hi /\ j \notin lo + 1 .. hi
      BY <1>1, <1>5, <2>4
    <3>2. \A c \in C : ~(i <= c /\ c < j)
      <4> SUFFICES ASSUME NEW c \in C, i <= c, c < j PROVE FALSE
        OBVIOUS
      <4>1. c \in lo + 1 .. hi - 1
        BY <1>5
      <4> QED BY <1>1, <2>4, <4>1
    <3>3. <<p[i], p[j]>> \in rel
      BY <1>5, <3>2 DEF Arranged
    <3> QED BY <1>1, <3>1, <3>3
  <2> QED BY <1>1, <2>2, <2>3, <2>4
<1> HIDE DEF D
<1>6. Arranged(S, place, rel, n, D, q)
  BY <1>1, <1>3, <1>4, <1>5 DEF Arranged
<1> QED BY <1>6 DEF D

\* Where a row is inserted: every row behind it comes after it, the one before does not.
Fitting(perm, lo, i, order, at) ==
  /\ \A k \in at + 1 .. i - 1 : <<perm[i], perm[k]>> \in order
  /\ at > lo => <<perm[i], perm[at]>> \notin order

LEMMA InsertionPlace ==
  ASSUME NEW perm, NEW lo \in Nat, NEW i \in Nat, lo < i, NEW order
  PROVE  \E at \in lo .. i - 1 : Fitting(perm, lo, i, order, at)
<1> DEFINE T == {j \in lo .. i - 1 : \A k \in j + 1 .. i - 1 : <<perm[i], perm[k]>> \in order}
<1>1. i - 1 \in T
  OBVIOUS
<1>2. PICK at \in T : \A j \in T : at <= j
  <2>1. T \subseteq Nat
    OBVIOUS
  <2> HIDE DEF T
  <2> QED BY <1>1, <2>1, LeastElement
<1>3. ASSUME at > lo, <<perm[i], perm[at]>> \in order PROVE FALSE
  <2>1. at - 1 \in lo .. i - 1 /\ ~(at <= at - 1)
    BY <1>3
  <2>2. \A k \in (at - 1) + 1 .. i - 1 : k = at \/ k \in at + 1 .. i - 1
    OBVIOUS
  <2>3. at - 1 \in T
    BY <1>3, <2>1, <2>2
  <2> QED BY <1>2, <2>1, <2>3
<1> QED BY <1>2, <1>3 DEF Fitting

\* Insert orders one row more.
LEMMA InsertReorders ==
  ASSUME NEW S, NEW place, NEW order, NEW rel, Stable(S, place, order, rel),
         NEW p \in Seq(S), NEW lo \in Nat, NEW i \in 1 .. Len(p), lo < i,
         Ordered(p, lo, i - 1, rel), \A k \in lo + 1 .. i - 1 : place[p[k]] < place[p[i]]
  PROVE  Reorders(S, rel, p, Insert(p, lo, i, order), lo, i)
<1> DEFINE at == CHOOSE j \in lo .. i - 1 : Fitting(p, lo, i, order, j)
           q == [k \in DOMAIN p |-> IF k = at + 1 THEN p[i] ELSE IF k \in at + 2 .. i THEN p[k - 1] ELSE p[k]]
<1>1. Insert(p, lo, i, order) = q
  BY DEF Insert, Fitting
<1>2. at \in lo .. i - 1 /\ Fitting(p, lo, i, order, at)
  <2>1. i \in Nat
    OBVIOUS
  <2>2. \E j \in lo .. i - 1 : Fitting(p, lo, i, order, j)
    BY <2>1, InsertionPlace
  <2> QED BY <2>2
<1> HIDE DEF at
<1>3. /\ \A k \in at + 1 .. i - 1 : <<p[i], p[k]>> \in order
      /\ at > lo => <<p[i], p[at]>> \notin order
  BY <1>2 DEF Fitting
<1>4. i \in Nat /\ i <= Len(p) /\ at \in Nat /\ lo <= at /\ at < i /\ Len(p) \in Nat /\ DOMAIN p = 1 .. Len(p)
  BY <1>2
<1>5. /\ \A k \in 1 .. Len(p) : q[k] = IF k = at + 1 THEN p[i] ELSE IF k \in at + 2 .. i THEN p[k - 1] ELSE p[k]
      /\ q \in Seq(S) /\ Len(q) = Len(p)
  <2>1. \A k \in 1 .. Len(p) : (IF k = at + 1 THEN p[i] ELSE IF k \in at + 2 .. i THEN p[k - 1] ELSE p[k]) \in S
    <3> SUFFICES ASSUME NEW k \in 1 .. Len(p)
                 PROVE  (IF k = at + 1 THEN p[i] ELSE IF k \in at + 2 .. i THEN p[k - 1] ELSE p[k]) \in S
      OBVIOUS
    <3>1. k \in at + 2 .. i => k - 1 \in 1 .. Len(p)
      BY <1>4
    <3> QED BY <3>1
  <2>2. q \in [1 .. Len(p) -> S]
    BY <1>4, <2>1
  <2>3. \A k \in 1 .. Len(p) : q[k] = IF k = at + 1 THEN p[i] ELSE IF k \in at + 2 .. i THEN p[k - 1] ELSE p[k]
    BY <1>4
  <2> HIDE DEF q
  <2> QED BY <1>4, <2>2, <2>3
<1> HIDE DEF q
<1>6. \A k \in 1 .. Len(p) : k \notin lo + 1 .. i => q[k] = p[k]
  BY <1>4, <1>5
\* Position k of q holds what stood at Old(k).
<1> DEFINE Old(k) == IF k = at + 1 THEN i ELSE IF k \in at + 2 .. i THEN k - 1 ELSE k
<1>7. \A k \in lo + 1 .. i : Old(k) \in lo + 1 .. i /\ k \in 1 .. Len(p) /\ q[k] = p[Old(k)]
  BY <1>4, <1>5
<1>8. \A k \in lo + 1 .. i : \E l \in lo + 1 .. i : Old(l) = k
  <2> SUFFICES ASSUME NEW k \in lo + 1 .. i PROVE \E l \in lo + 1 .. i : Old(l) = k
    OBVIOUS
  <2>1. CASE k = i
    <3>1. Old(at + 1) = k /\ at + 1 \in lo + 1 .. i
      BY <1>4, <2>1
    <3> QED BY <3>1
  <2>2. CASE k # i /\ k <= at
    <3>1. Old(k) = k
      BY <1>4, <2>2
    <3> QED BY <3>1
  <2>3. CASE k # i /\ k > at
    <3>1. Old(k + 1) = k /\ k + 1 \in lo + 1 .. i
      BY <1>4, <2>3
    <3> QED BY <3>1
  <2> QED BY <1>4, <2>1, <2>2, <2>3
<1>9. Elements(q, lo, i) = Elements(p, lo, i)
  <2> HIDE DEF Old
  <2>1. \A x : x \in Elements(q, lo, i) => x \in Elements(p, lo, i)
    BY <1>7 DEF Elements
  <2>2. ASSUME NEW k \in lo + 1 .. i PROVE \E l \in lo + 1 .. i : p[k] = q[l]
    <3>1. PICK l \in lo + 1 .. i : Old(l) = k
      BY <1>8
    <3> QED BY <1>7, <3>1
  <2> QED BY <2>1, <2>2 DEF Elements
<1>10. \A k \in lo + 1 .. i : k \in 1 .. Len(p) /\ p[k] \in S
  BY <1>4
<1>11. ASSUME NEW k \in lo + 1 .. i - 1
       PROVE  IF k <= at THEN <<p[k], p[i]>> \in rel ELSE <<p[i], p[k]>> \in rel
  <2>1. p[k] \in S /\ p[i] \in S /\ place[p[k]] < place[p[i]]
    BY <1>4, <1>10
  <2>2. IF <<p[i], p[k]>> \in order THEN <<p[i], p[k]>> \in rel ELSE <<p[k], p[i]>> \in rel
    BY <2>1 DEF Stable
  <2>3. CASE k > at
    <3>1. k \in at + 1 .. i - 1
      BY <1>4, <2>3
    <3> QED BY <1>3, <1>4, <2>2, <2>3, <3>1
  <2>4. CASE k = at
    BY <1>3, <1>4, <2>2, <2>4
  <2>5. CASE k < at
    <3>1. at \in lo + 1 .. i - 1 /\ p[at] \in S /\ at > lo
      BY <1>4, <1>10, <2>5
    <3>2. <<p[at], p[i]>> \in rel
      <4>1. IF <<p[i], p[at]>> \in order THEN <<p[i], p[at]>> \in rel ELSE <<p[at], p[i]>> \in rel
        BY <2>1, <3>1 DEF Stable
      <4> QED BY <1>3, <3>1, <4>1
    <3>3. <<p[k], p[at]>> \in rel
      BY <2>5, <3>1 DEF Ordered
    <3>4. <<p[k], p[i]>> \in rel
      BY <2>1, <3>1, <3>2, <3>3 DEF Stable
    <3> QED BY <1>4, <2>5, <3>4
  <2> QED BY <1>4, <2>3, <2>4, <2>5
<1>12. ASSUME NEW a \in lo + 1 .. i, NEW b \in lo + 1 .. i, a < b PROVE <<q[a], q[b]>> \in rel
  <2>1. q[a] = p[Old(a)] /\ q[b] = p[Old(b)]
    BY <1>7
  <2>2. CASE a = at + 1
    <3>1. Old(a) = i /\ Old(b) = b - 1 /\ b - 1 \in lo + 1 .. i - 1 /\ ~(b - 1 <= at)
      BY <1>4, <1>12, <2>2
    <3> QED BY <1>11, <2>1, <3>1
  <2>3. CASE b = at + 1
    <3>1. Old(b) = i /\ Old(a) = a /\ a \in lo + 1 .. i - 1 /\ a <= at
      BY <1>4, <1>12, <2>3
    <3> QED BY <1>11, <2>1, <3>1
  <2>4. CASE a # at + 1 /\ b # at + 1
    <3>1. Old(a) \in lo + 1 .. i - 1 /\ Old(b) \in lo + 1 .. i - 1 /\ Old(a) < Old(b)
      BY <1>4, <1>12, <2>4
    <3> QED BY <2>1, <3>1 DEF Ordered
  <2> QED BY <2>2, <2>3, <2>4
<1>13. Ordered(q, lo, i, rel)
  BY <1>12 DEF Ordered
<1> QED BY <1>1, <1>5, <1>6, <1>9, <1>13 DEF Reorders

\* While the runs of p behind lo up to mid and behind mid up to hi are merged: m.l
\* rows of the first and m.r of the second stand in order, in front of the others.
Merging(S, rel, p, lo, mid, hi, m) ==
  /\ m \in [l : 0 .. mid - lo, r : 0 .. hi - mid, perm : Seq(S)] /\ Len(m.perm) = Len(p)
  /\ \A k \in 1 .. Len(p) : k \notin lo + 1 .. lo + m.l + m.r => m.perm[k] = p[k]
  /\ Elements(m.perm, lo, lo + m.l + m.r) = Elements(p, lo, lo + m.l) \cup Elements(p, mid, mid + m.r)
  /\ Ordered(m.perm, lo, lo + m.l + m.r, rel)
  /\ \A a \in lo + 1 .. lo + m.l + m.r, b \in (lo + m.l + 1 .. mid) \cup (mid + m.r + 1 .. hi) :
       <<m.perm[a], p[b]>> \in rel

\* The least of the rows that are left comes next.
LEMMA MergeTakes ==
  ASSUME NEW S, NEW rel, NEW p \in Seq(S), NEW lo \in Nat, NEW mid \in Nat, NEW hi \in Nat,
         lo < mid, mid < hi, hi <= Len(p), NEW m, Merging(S, rel, p, lo, mid, hi, m),
         NEW l \in 0 .. mid - lo, NEW r \in 0 .. hi - mid, NEW b \in lo + 1 .. hi,
         \/ l = m.l + 1 /\ r = m.r /\ b = lo + l
         \/ l = m.l /\ r = m.r + 1 /\ b = mid + r,
         \A c \in (lo + l + 1 .. mid) \cup (mid + r + 1 .. hi) : <<p[b], p[c]>> \in rel,
         NEW q, q = [m.perm EXCEPT ![lo + m.l + m.r + 1] = p[b]]
  PROVE  Merging(S, rel, p, lo, mid, hi, [l |-> l, r |-> r, perm |-> q])
<1> DEFINE k == lo + m.l + m.r
<1>1. /\ m.l \in 0 .. mid - lo /\ m.r \in 0 .. hi - mid /\ m.perm \in Seq(S) /\ Len(m.perm) = Len(p)
      /\ \A i \in 1 .. Len(p) : i \notin lo + 1 .. k => m.perm[i] = p[i]
      /\ Elements(m.perm, lo, k) = Elements(p, lo, lo + m.l) \cup Elements(p, mid, mid + m.r)
      /\ Ordered(m.perm, lo, k, rel)
      /\ \A a \in lo + 1 .. k, c \in (lo + m.l + 1 .. mid) \cup (mid + m.r + 1 .. hi) : <<m.perm[a], p[c]>> \in rel
  BY DEF Merging
<1>num. /\ m.l \in Nat /\ m.l <= mid - lo /\ m.r \in Nat /\ m.r <= hi - mid /\ Len(p) \in Nat
        /\ l \in Nat /\ l <= mid - lo /\ r \in Nat /\ r <= hi - mid /\ hi <= Len(p) /\ lo < mid /\ mid < hi
        /\ lo \in Nat /\ mid \in Nat /\ hi \in Nat /\ b \in Nat
  <2>1. m.l \in 0 .. mid - lo /\ m.r \in 0 .. hi - mid
    BY <1>1
  <2> QED BY <2>1
<1>2. k \in Nat /\ lo <= k /\ lo + l + r = k + 1 /\ k + 1 <= hi /\ k + 1 \in 1 .. Len(p) /\ Len(p) \in Nat
  <2> DEFINE ml == m.l
             mr == m.r
  <2>1. ml \in Nat /\ mr \in Nat /\ ((l = ml + 1 /\ r = mr) \/ (l = ml /\ r = mr + 1)) /\ k = lo + ml + mr
    BY <1>num
  <2> HIDE DEF ml, mr, k
  <2>2. k \in Nat /\ lo <= k /\ lo + l + r = k + 1
    BY ONLY <2>1, lo \in Nat
  <2>3. k + 1 <= hi
    BY ONLY <1>num, <2>1, <2>2
  <2> QED BY ONLY <1>num, <2>2, <2>3
<1> HIDE DEF k
<1>3. q \in Seq(S) /\ Len(q) = Len(p) /\ q[k + 1] = p[b] /\ \A i \in 1 .. Len(p) : i # k + 1 => q[i] = m.perm[i]
  <2>1. q = [m.perm EXCEPT ![k + 1] = p[b]]
    BY DEF k
  <2>2. p[b] \in S
    BY <1>2
  <2>3. m.perm \in Seq(S) /\ Len(m.perm) = Len(p) /\ k + 1 \in 1 .. Len(p)
    BY <1>1, <1>2
  <2> QED BY ONLY <2>1, <2>2, <2>3
<1>4. \A i \in 1 .. Len(p) : i \notin lo + 1 .. k + 1 => q[i] = p[i]
  <2> SUFFICES ASSUME NEW i \in 1 .. Len(p), i \notin lo + 1 .. k + 1 PROVE q[i] = p[i]
    OBVIOUS
  <2>1. i \notin lo + 1 .. k /\ i # k + 1
    BY ONLY <1>2, lo \in Nat, i \in 1 .. Len(p), i \notin lo + 1 .. k + 1
  <2>2. m.perm[i] = p[i]
    BY <1>1, <2>1 DEF k
  <2> QED BY <1>3, <2>1, <2>2
<1>5. \A i \in lo + 1 .. k : i \in 1 .. Len(p) /\ i # k + 1 /\ q[i] = m.perm[i]
  BY <1>2, <1>3
<1>6. Elements(q, lo, k + 1) = Elements(m.perm, lo, k) \cup {p[b]}
  <2>1. \A i \in lo + 1 .. k + 1 : i = k + 1 \/ i \in lo + 1 .. k
    BY <1>2
  <2>2. k + 1 \in lo + 1 .. k + 1 /\ \A i \in lo + 1 .. k : i \in lo + 1 .. k + 1
    BY <1>2
  <2> QED BY <1>3, <1>5, <2>1, <2>2 DEF Elements
<1>7. Elements(p, lo, lo + l) \cup Elements(p, mid, mid + r)
        = Elements(p, lo, lo + m.l) \cup Elements(p, mid, mid + m.r) \cup {p[b]}
  <2>1. CASE l = m.l + 1 /\ r = m.r /\ b = lo + l
    <3>1. \A i : i \in lo + 1 .. lo + l <=> i \in lo + 1 .. lo + m.l \/ i = b
      BY ONLY <1>num, <2>1
    <3> QED BY <2>1, <3>1 DEF Elements
  <2>2. CASE l = m.l /\ r = m.r + 1 /\ b = mid + r
    <3>1. \A i : i \in mid + 1 .. mid + r <=> i \in mid + 1 .. mid + m.r \/ i = b
      BY ONLY <1>num, <2>2
    <3> QED BY <2>2, <3>1 DEF Elements
  <2> QED BY <2>1, <2>2
<1>8. b \in (lo + m.l + 1 .. mid) \cup (mid + m.r + 1 .. hi)
  <2>1. CASE l = m.l + 1 /\ r = m.r /\ b = lo + l
    <3>1. b \in lo + m.l + 1 .. mid
      BY ONLY <1>num, <2>1
    <3> QED BY <3>1
  <2>2. CASE l = m.l /\ r = m.r + 1 /\ b = mid + r
    <3>1. b \in mid + m.r + 1 .. hi
      BY ONLY <1>num, <2>2
    <3> QED BY <3>1
  <2> QED BY <2>1, <2>2
<1>9. \A c \in (lo + l + 1 .. mid) \cup (mid + r + 1 .. hi) : c \in (lo + m.l + 1 .. mid) \cup (mid + m.r + 1 .. hi)
  BY <1>1
<1>10. ASSUME NEW i \in lo + 1 .. k + 1, NEW j \in lo + 1 .. k + 1, i < j PROVE <<q[i], q[j]>> \in rel
  <2>1. i \in lo + 1 .. k
    BY <1>2, <1>10
  <2>2. CASE j = k + 1
    BY <1>1, <1>3, <1>5, <1>8, <2>1, <2>2
  <2>3. CASE j # k + 1
    <3>1. j \in lo + 1 .. k
      BY <1>2, <2>3
    <3> QED BY <1>1, <1>5, <1>10, <2>1, <3>1 DEF Ordered
  <2> QED BY <2>2, <2>3
<1>11. ASSUME NEW i \in lo + 1 .. k + 1, NEW c \in (lo + l + 1 .. mid) \cup (mid + r + 1 .. hi)
       PROVE  <<q[i], p[c]>> \in rel
  <2>1. CASE i = k + 1
    BY <1>3, <2>1
  <2>2. CASE i # k + 1
    <3>1. i \in lo + 1 .. k
      BY <1>2, <2>2
    <3> QED BY <1>1, <1>5, <1>9, <3>1
  <2> QED BY <2>1, <2>2
<1> DEFINE x == [l |-> l, r |-> r, perm |-> q]
<1>12. x.l = l /\ x.r = r /\ x.perm = q /\ x \in [l : 0 .. mid - lo, r : 0 .. hi - mid, perm : Seq(S)]
  BY <1>3
<1>13. lo + x.l + x.r = k + 1
  BY <1>2, <1>12
<1> HIDE DEF x
<1>14. Merging(S, rel, p, lo, mid, hi, x)
  <2>1. Ordered(q, lo, k + 1, rel)
    BY <1>10 DEF Ordered
  <2>2. Elements(q, lo, k + 1) = Elements(p, lo, lo + l) \cup Elements(p, mid, mid + r)
    BY <1>1, <1>6, <1>7
  <2> QED BY <1>3, <1>4, <1>11, <1>12, <1>13, <2>1, <2>2 DEF Merging
<1> QED BY <1>14 DEF x

\* Two ordered runs, the rows of the first from places before those of the second.
TwoRuns(S, place, order, rel, p, lo, mid, hi) ==
  /\ Stable(S, place, order, rel) /\ p \in Seq(S)
  /\ lo \in Nat /\ mid \in Nat /\ hi \in Nat /\ lo < mid /\ mid < hi /\ hi <= Len(p)
  /\ Ordered(p, lo, mid, rel) /\ Ordered(p, mid, hi, rel)
  /\ \A i \in lo + 1 .. mid, j \in mid + 1 .. hi : place[p[i]] < place[p[j]]

\* n has taken one row more than m while the first run has one.
Takes(S, rel, p, lo, mid, hi, m, n) ==
  /\ Merging(S, rel, p, lo, mid, hi, n)
  /\ m.l < mid - lo => n.l + n.r = m.l + m.r + 1
  /\ m.l = mid - lo => n = m

\* A step of the merge keeps that, and takes a row as long as the first run has one.
LEMMA MergeStepKeeps ==
  ASSUME NEW S, NEW place, NEW order, NEW rel, NEW p, NEW lo, NEW mid, NEW hi,
         TwoRuns(S, place, order, rel, p, lo, mid, hi),
         NEW left, left = SubSeq(p, lo + 1, mid), NEW m, Merging(S, rel, p, lo, mid, hi, m),
         NEW n, n = MergeStep(m, left, lo, hi, order)
  PROVE  Takes(S, rel, p, lo, mid, hi, m, n)
<1> USE DEF TwoRuns, Takes
<1>1. /\ m.l \in 0 .. mid - lo /\ m.r \in 0 .. hi - mid /\ m.perm \in Seq(S) /\ Len(m.perm) = Len(p)
      /\ m = [l |-> m.l, r |-> m.r, perm |-> m.perm]
      /\ \A i \in 1 .. Len(p) : i \notin lo + 1 .. lo + m.l + m.r => m.perm[i] = p[i]
  BY DEF Merging
<1>2. Len(left) = mid - lo /\ \A k \in 1 .. mid - lo : left[k] = p[lo + k]
  <2>1. lo + 1 \in 1 .. Len(p) + 1 /\ mid \in 0 .. Len(p) /\ lo + 1 <= mid /\ Len(p) \in Nat
    OBVIOUS
  <2> QED BY <2>1
<1>num. /\ m.l \in Nat /\ m.l <= mid - lo /\ m.r \in Nat /\ m.r <= hi - mid /\ Len(p) \in Nat
        /\ hi <= Len(p) /\ lo < mid /\ mid < hi /\ lo \in Nat /\ mid \in Nat /\ hi \in Nat
  <2>1. m.l \in 0 .. mid - lo /\ m.r \in 0 .. hi - mid
    BY <1>1
  <2> QED BY <2>1
<1>3. lo + Len(left) + m.r + 1 = mid + m.r + 1
  BY ONLY <1>num, <1>2
<1> DEFINE out == lo + m.l + m.r + 1
           right == mid + m.r + 1
<1>4. CASE m.l = mid - lo
  <2>1. MergeStep(m, left, lo, hi, order) = m
    BY <1>2, <1>4 DEF MergeStep
  <2> QED BY <1>4, <2>1
<1>5. CASE m.l < mid - lo
  <2> DEFINE b == lo + m.l + 1
  <2>1. left[m.l + 1] = p[b] /\ b \in lo + 1 .. mid /\ p[b] \in S /\ m.l # mid - lo
    <3>1. m.l + 1 \in 1 .. mid - lo /\ b = lo + (m.l + 1) /\ b \in lo + 1 .. mid /\ b \in 1 .. Len(p) /\ m.l # mid - lo
      BY ONLY <1>num, <1>5
    <3>2. p[b] \in S
      BY <3>1
    <3>3. left[m.l + 1] = p[lo + (m.l + 1)]
      BY <1>2, <3>1
    <3> QED BY <3>1, <3>2, <3>3
  <2>2. right <= hi => /\ m.perm[right] = p[right] /\ right \in mid + 1 .. hi /\ p[right] \in S
                       /\ IF <<p[right], p[b]>> \in order THEN <<p[right], p[b]>> \in rel ELSE <<p[b], p[right]>> \in rel
    <3> SUFFICES ASSUME right <= hi
                 PROVE  /\ m.perm[right] = p[right] /\ right \in mid + 1 .. hi /\ p[right] \in S
                        /\ IF <<p[right], p[b]>> \in order THEN <<p[right], p[b]>> \in rel ELSE <<p[b], p[right]>> \in rel
      OBVIOUS
    <3>1. right \in mid + 1 .. hi /\ right \in 1 .. Len(p) /\ right \notin lo + 1 .. lo + m.l + m.r
      BY <1>1, <1>5
    <3>2. m.perm[right] = p[right] /\ p[right] \in S
      BY <1>1, <3>1
    <3> HIDE DEF right, b
    <3>3. place[p[b]] < place[p[right]]
      BY <2>1, <3>1
    <3> QED BY <2>1, <3>1, <3>2, <3>3 DEF Stable
  <2>3. CASE right <= hi /\ <<p[right], p[b]>> \in order
    <3> DEFINE q == [m.perm EXCEPT ![out] = p[right]]
    <3>1. MergeStep(m, left, lo, hi, order) = [l |-> m.l, r |-> m.r + 1, perm |-> q]
      <4>1. MergeStep(m, left, lo, hi, order) = [m EXCEPT !.perm[out] = m.perm[right], !.r = @ + 1]
        BY <1>2, <1>3, <2>1, <2>2, <2>3 DEF MergeStep
      <4> HIDE DEF out, right
      <4> QED BY <1>1, <2>2, <2>3, <4>1
    <3>2. \A c \in lo + m.l + 1 .. mid : <<p[right], p[c]>> \in rel
      <4> SUFFICES ASSUME NEW c \in lo + m.l + 1 .. mid PROVE <<p[right], p[c]>> \in rel
        OBVIOUS
      <4>1. c \in lo + 1 .. mid /\ c \in 1 .. Len(p) /\ p[c] \in S /\ (c = b \/ b < c)
        BY <1>1
      <4>2. b < c => <<p[b], p[c]>> \in rel
        BY <2>1, <4>1 DEF Ordered
      <4> HIDE DEF b, right
      <4> QED BY <2>1, <2>2, <2>3, <4>1, <4>2 DEF Stable
    <3>3. \A c \in mid + (m.r + 1) + 1 .. hi : <<p[right], p[c]>> \in rel
      <4> SUFFICES ASSUME NEW c \in mid + (m.r + 1) + 1 .. hi PROVE <<p[right], p[c]>> \in rel
        OBVIOUS
      <4>1. c \in mid + 1 .. hi /\ right < c
        BY <1>1
      <4> QED BY <2>2, <2>3, <4>1 DEF Ordered
    <3>4. m.l \in 0 .. mid - lo /\ m.r + 1 \in 0 .. hi - mid /\ right \in lo + 1 .. hi /\ right = mid + (m.r + 1)
      <4>1. right <= hi
        BY <2>3
      <4> QED BY ONLY <1>num, <4>1
    <3>5. \A c \in (lo + m.l + 1 .. mid) \cup (mid + (m.r + 1) + 1 .. hi) : <<p[right], p[c]>> \in rel
      BY <3>2, <3>3
    <3> HIDE DEF right
    <3>6. Merging(S, rel, p, lo, mid, hi, [l |-> m.l, r |-> m.r + 1, perm |-> q])
      BY <3>4, <3>5, MergeTakes
    <3>7. m.l + (m.r + 1) = m.l + m.r + 1
      BY <1>1
    <3> QED BY <1>5, <3>1, <3>6, <3>7
  <2>4. CASE ~(right <= hi /\ <<p[right], p[b]>> \in order)
    <3> DEFINE q == [m.perm EXCEPT ![out] = p[b]]
    <3>1. MergeStep(m, left, lo, hi, order) = [l |-> m.l + 1, r |-> m.r, perm |-> q]
      <4>1. MergeStep(m, left, lo, hi, order) = [m EXCEPT !.perm[out] = left[m.l + 1], !.l = @ + 1]
        BY <1>2, <1>3, <2>1, <2>2, <2>4 DEF MergeStep
      <4> HIDE DEF out, right
      <4> QED BY <1>1, <2>1, <4>1
    <3>2. \A c \in mid + m.r + 1 .. hi : <<p[b], p[c]>> \in rel
      <4> SUFFICES ASSUME NEW c \in mid + m.r + 1 .. hi PROVE <<p[b], p[c]>> \in rel
        OBVIOUS
      <4>0. c \in mid + 1 .. hi /\ c \in 1 .. Len(p) /\ (c = right \/ right < c) /\ right <= hi
        BY ONLY <1>num, c \in mid + m.r + 1 .. hi
      <4>1. c \in mid + 1 .. hi /\ c \in 1 .. Len(p) /\ p[c] \in S /\ (c = right \/ right < c) /\ right <= hi
        BY <4>0
      <4>2. right < c => <<p[right], p[c]>> \in rel
        BY <2>2, <4>1 DEF Ordered
      <4> HIDE DEF b, right
      <4> QED BY <2>1, <2>2, <2>4, <4>1, <4>2 DEF Stable
    <3>3. \A c \in lo + (m.l + 1) + 1 .. mid : <<p[b], p[c]>> \in rel
      <4> SUFFICES ASSUME NEW c \in lo + (m.l + 1) + 1 .. mid PROVE <<p[b], p[c]>> \in rel
        OBVIOUS
      <4>1. c \in lo + 1 .. mid /\ b < c
        BY <1>1
      <4> QED BY <2>1, <4>1 DEF Ordered
    <3>4. m.l + 1 \in 0 .. mid - lo /\ m.r \in 0 .. hi - mid /\ b \in lo + 1 .. hi /\ b = lo + (m.l + 1)
      BY <1>1, <1>5
    <3>5. \A c \in (lo + (m.l + 1) + 1 .. mid) \cup (mid + m.r + 1 .. hi) : <<p[b], p[c]>> \in rel
      BY <3>2, <3>3
    <3> HIDE DEF b
    <3>6. Merging(S, rel, p, lo, mid, hi, [l |-> m.l + 1, r |-> m.r, perm |-> q])
      BY <3>4, <3>5, MergeTakes
    <3>7. (m.l + 1) + m.r = m.l + m.r + 1
      BY <1>1
    <3> QED BY <1>5, <3>1, <3>6, <3>7
  <2> QED BY <2>3, <2>4
<1> QED BY <1>1, <1>4, <1>5

LEMMA ElementsSplit ==
  ASSUME NEW p, NEW i \in Int, NEW j \in Int, NEW k \in Int, i <= j, j <= k
  PROVE  Elements(p, i, k) = Elements(p, i, j) \cup Elements(p, j, k)
<1>1. \A x : x \in i + 1 .. k <=> x \in i + 1 .. j \/ x \in j + 1 .. k
  OBVIOUS
<1> QED BY <1>1 DEF Elements

\* When the rows of the first run are used up, those of the second stand where they should.
LEMMA MergingEnds ==
  ASSUME NEW S, NEW rel, NEW p \in Seq(S), NEW lo \in Nat, NEW mid \in Nat, NEW hi \in Nat,
         lo < mid, mid < hi, hi <= Len(p), Ordered(p, mid, hi, rel),
         NEW m, Merging(S, rel, p, lo, mid, hi, m), m.l = mid - lo
  PROVE  Reorders(S, rel, p, m.perm, lo, hi)
<1> DEFINE x == mid + m.r
<1>1. /\ m.r \in Nat /\ m.r <= hi - mid /\ m.perm \in Seq(S) /\ Len(m.perm) = Len(p)
      /\ lo + m.l + m.r = x /\ lo + m.l = mid
  <2>1. m.r \in 0 .. hi - mid
    BY DEF Merging
  <2> QED BY <2>1 DEF Merging
<1>2. x \in Nat /\ mid <= x /\ x <= hi /\ Len(p) \in Nat
  BY ONLY <1>1, lo \in Nat, mid \in Nat, hi \in Nat, p \in Seq(S)
<1>3. /\ \A k \in 1 .. Len(p) : k \notin lo + 1 .. x => m.perm[k] = p[k]
      /\ Elements(m.perm, lo, x) = Elements(p, lo, mid) \cup Elements(p, mid, x)
      /\ Ordered(m.perm, lo, x, rel)
      /\ \A a \in lo + 1 .. x, b \in x + 1 .. hi : <<m.perm[a], p[b]>> \in rel
  BY <1>1 DEF Merging
<1> HIDE DEF x
<1>4. \A k \in x + 1 .. hi : m.perm[k] = p[k] /\ k \in mid + 1 .. hi
  <2> SUFFICES ASSUME NEW k \in x + 1 .. hi PROVE m.perm[k] = p[k] /\ k \in mid + 1 .. hi
    OBVIOUS
  <2>1. k \in 1 .. Len(p) /\ k \notin lo + 1 .. x /\ k \in mid + 1 .. hi
    BY <1>2
  <2> QED BY <1>3, <2>1
<1>5. Elements(m.perm, lo, hi) = Elements(p, lo, hi)
  <2>1. Elements(m.perm, x, hi) = Elements(p, x, hi)
    BY <1>4 DEF Elements
  <2>2. Elements(m.perm, lo, hi) = Elements(m.perm, lo, x) \cup Elements(m.perm, x, hi)
    BY <1>2, ElementsSplit
  <2>3. Elements(p, lo, hi) = Elements(p, lo, mid) \cup Elements(p, mid, hi)
    BY <1>2, ElementsSplit
  <2>4. Elements(p, mid, hi) = Elements(p, mid, x) \cup Elements(p, x, hi)
    BY <1>2, ElementsSplit
  <2> QED BY <1>3, <2>1, <2>2, <2>3, <2>4
<1>6. ASSUME NEW a \in lo + 1 .. hi, NEW b \in lo + 1 .. hi, a < b PROVE <<m.perm[a], m.perm[b]>> \in rel
  <2>1. CASE b <= x
    <3>1. a \in lo + 1 .. x /\ b \in lo + 1 .. x
      BY <1>2, <1>6, <2>1
    <3> QED BY <1>3, <1>6, <3>1 DEF Ordered
  <2>2. CASE a <= x /\ x < b
    <3>1. a \in lo + 1 .. x /\ b \in x + 1 .. hi
      BY <1>2, <2>2
    <3> QED BY <1>3, <1>4, <3>1
  <2>3. CASE x < a
    <3>1. a \in x + 1 .. hi /\ b \in x + 1 .. hi
      BY <1>2, <1>6, <2>3
    <3>2. <<p[a], p[b]>> \in rel
      BY <1>4, <1>6, <3>1 DEF Ordered
    <3> QED BY <1>4, <3>1, <3>2
  <2> QED BY <1>2, <2>1, <2>2, <2>3
<1>7. \A k \in 1 .. Len(p) : k \notin lo + 1 .. hi => m.perm[k] = p[k]
  <2> SUFFICES ASSUME NEW k \in 1 .. Len(p), k \notin lo + 1 .. hi PROVE m.perm[k] = p[k]
    OBVIOUS
  <2>1. k \notin lo + 1 .. x
    BY <1>2
  <2> QED BY <1>3, <2>1
<1> QED BY <1>1, <1>5, <1>6, <1>7 DEF Reorders, Ordered

\* The merge of two ordered runs orders their rows.
LEMMA MergeReorders ==
  ASSUME NEW S, NEW place, NEW order, NEW rel, Stable(S, place, order, rel),
         NEW p \in Seq(S), NEW lo \in Nat, NEW mid \in Nat, NEW hi \in Nat,
         lo < mid, mid <= hi, hi <= Len(p), Ordered(p, lo, mid, rel), Ordered(p, mid, hi, rel),
         \A i \in lo + 1 .. mid, j \in mid + 1 .. hi : place[p[i]] < place[p[j]]
  PROVE  Reorders(S, rel, p, Merge(p, lo, mid, hi, order), lo, hi)
<1>1. CASE ~(mid < hi)
  <2>1. Merge(p, lo, mid, hi, order) = p
    BY <1>1 DEF Merge
  <2>2. mid = hi
    BY <1>1
  <2> QED BY <2>1, <2>2 DEF Reorders
<1>2. CASE mid < hi
  <2> DEFINE left == SubSeq(p, lo + 1, mid)
             n == hi - lo
             M == [l : 0 .. mid - lo, r : 0 .. hi - mid, perm : Seq(S)]
             a == [l |-> 0, r |-> 0, perm |-> p]
             step == [x \in (1 .. n) \X M |-> MergeStep(x[2], left, lo, hi, order)]
             Reached(k) == {m \in M : Merging(S, rel, p, lo, mid, hi, m) /\ (m.l = mid - lo \/ m.l + m.r = k)}
             A == [k \in 0 .. n |-> Reached(k)]
             IsMerged(f) == f = [k \in 0 .. n |-> IF k = 0 THEN a ELSE MergeStep(f[k - 1], left, lo, hi, order)]
             merged == CHOOSE f : IsMerged(f)
  <2>1. Merge(p, lo, mid, hi, order) = merged[n].perm
    BY <1>2 DEF Merge
  <2>2. n \in Nat /\ n >= 1
    BY <1>2
  <2> HIDE DEF n
  <2>3. a \in A[0]
    <3>1. Elements(p, lo, lo) = {} /\ Elements(p, mid, mid) = {}
      BY DEF Elements
    <3>2. a.l = 0 /\ a.r = 0 /\ a.perm = p /\ a \in M /\ lo + a.l + a.r = lo /\ lo + a.l = lo /\ mid + a.r = mid
      BY <1>2
    <3> HIDE DEF a
    <3>3. Ordered(p, lo, lo, rel)
      BY DEF Ordered
    <3>4. Merging(S, rel, p, lo, mid, hi, a)
      BY <3>1, <3>2, <3>3 DEF Merging
    <3>5. a.l + a.r = 0
      BY <3>2
    <3> QED BY <2>2, <3>2, <3>4, <3>5
  <2>4. ASSUME NEW k \in 1 .. n, NEW m \in Reached(k - 1)
        PROVE  MergeStep(m, left, lo, hi, order) \in Reached(k)
    <3> DEFINE x == MergeStep(m, left, lo, hi, order)
    <3>1. m \in M /\ Merging(S, rel, p, lo, mid, hi, m)
      OBVIOUS
    <3>2. Takes(S, rel, p, lo, mid, hi, m, x)
      <4>1. left = SubSeq(p, lo + 1, mid) /\ x = MergeStep(m, left, lo, hi, order)
        OBVIOUS
      <4>2. TwoRuns(S, place, order, rel, p, lo, mid, hi)
        BY <1>2 DEF TwoRuns
      <4> HIDE DEF left, Reached, M, x
      <4> QED BY <3>1, <4>1, <4>2, MergeStepKeeps
    <3> HIDE DEF x
    <3> USE DEF Takes
    <3>3. x \in M
      BY <3>2 DEF Merging
    <3>4. ASSUME m.l = mid - lo PROVE x \in Reached(k)
      BY <3>2, <3>3, <3>4
    <3>5. ASSUME m.l # mid - lo PROVE x \in Reached(k)
      <4>1. m.l + m.r = k - 1 /\ m.l < mid - lo
        BY <3>1, <3>5
      <4>2. x.l + x.r = k
        BY <3>2, <4>1
      <4> QED BY <3>2, <3>3, <4>2
    <3>6. x \in Reached(k)
      BY <3>4, <3>5
    <3> QED BY <3>6 DEF x
  <2>5. \A k \in 0 .. n : A[k] = Reached(k)
    OBVIOUS
  <2>6. \A k \in 0 .. n : A[k] \subseteq M
    OBVIOUS
  <2> HIDE DEF A, Reached
  <2>7. \A k \in 1 .. n : \A m \in A[k - 1] :
          step[<<k, m>>] = MergeStep(m, left, lo, hi, order) /\ step[<<k, m>>] \in A[k]
    <3> SUFFICES ASSUME NEW k \in 1 .. n, NEW m \in A[k - 1]
                 PROVE  step[<<k, m>>] = MergeStep(m, left, lo, hi, order) /\ step[<<k, m>>] \in A[k]
      OBVIOUS
    <3>1. k \in 0 .. n /\ k - 1 \in 0 .. n
      BY <2>2
    <3>2. m \in M /\ m \in Reached(k - 1)
      BY <2>5, <2>6, <3>1
    <3> HIDE DEF M
    <3>3. step[<<k, m>>] = MergeStep(m, left, lo, hi, order)
      BY <3>2
    <3> QED BY <2>4, <2>5, <3>1, <3>2, <3>3
  <2> HIDE DEF a, step, M, left
  <2>8. \A k \in 1 .. n : \A m \in A[k - 1] : step[<<k, m>>] \in A[k]
    BY <2>7
  <2>9. PICK f : Steps(f, n, A, a, step)
    BY <2>2, <2>3, <2>8, Recursion
  <2>10. /\ f = [k \in 0 .. n |-> IF k = 0 THEN a ELSE step[<<k, f[k - 1]>>]]
         /\ \A k \in 0 .. n : f[k] \in A[k]
    BY <2>9 DEF Steps
  <2>11. IsMerged(f)
    <3>1. \A k \in 0 .. n : (IF k = 0 THEN a ELSE step[<<k, f[k - 1]>>])
                              = IF k = 0 THEN a ELSE MergeStep(f[k - 1], left, lo, hi, order)
      <4> SUFFICES ASSUME NEW k \in 0 .. n, k # 0
                   PROVE  step[<<k, f[k - 1]>>] = MergeStep(f[k - 1], left, lo, hi, order)
        OBVIOUS
      <4>1. k \in 1 .. n /\ k - 1 \in 0 .. n
        BY <2>2
      <4> QED BY <2>7, <2>10, <4>1
    <3> QED BY <2>10, <3>1
  <2>12. IsMerged(merged)
    <3>1. \E g : IsMerged(g)
      BY <2>11
    <3> HIDE DEF IsMerged
    <3> QED BY <3>1
  <2> HIDE DEF merged
  <2>13. \A k \in 0 .. n : merged[k] \in A[k]
    <3> DEFINE G == {k \in 0 .. n : merged[k] \in A[k]}
    <3>1. \A k \in 0 .. n : merged[k] = IF k = 0 THEN a ELSE MergeStep(merged[k - 1], left, lo, hi, order)
      BY <2>12
    <3>2. 0 \in G
      BY <2>2, <2>3, <3>1
    <3>3. \A k \in 1 .. n : k - 1 \in G => k \in G
      <4> SUFFICES ASSUME NEW k \in 1 .. n, k - 1 \in G PROVE k \in G
        OBVIOUS
      <4>1. k \in 0 .. n /\ k # 0
        BY <2>2
      <4>2. merged[k - 1] \in A[k - 1]
        OBVIOUS
      <4>3. merged[k] = MergeStep(merged[k - 1], left, lo, hi, order)
        BY <3>1, <4>1
      <4> QED BY <2>7, <4>1, <4>2, <4>3
    <3> HIDE DEF G
    <3>4. \A k \in 0 .. n : k \in G
      BY <2>2, <3>2, <3>3, StepByStep
    <3> QED BY <3>4 DEF G
  <2>14. merged[n] \in Reached(n)
    BY <2>2, <2>5, <2>13
  <2> DEFINE m == merged[n]
  <2>15. m \in M /\ Merging(S, rel, p, lo, mid, hi, m) /\ (m.l = mid - lo \/ m.l + m.r = n)
    BY <2>14 DEF Reached
  <2> HIDE DEF m
  <2>16. m.l \in Nat /\ m.l <= mid - lo /\ m.r \in Nat /\ m.r <= hi - mid
    <3>1. m.l \in 0 .. mid - lo /\ m.r \in 0 .. hi - mid
      BY <2>15 DEF Merging
    <3> QED BY <3>1
  <2>17. m.l = mid - lo
    BY ONLY <2>15, <2>16, lo \in Nat, mid \in Nat, hi \in Nat DEF n
  <2>18. Reorders(S, rel, p, m.perm, lo, hi)
    BY <1>2, <2>15, <2>17, MergingEnds
  <2> QED BY <2>1, <2>18 DEF m
<1> QED BY <1>1, <1>2

-----------------------------------------------------------------------------
(* The cuts of the loops.                                                  *)

LEMMA Division ==
  ASSUME NEW a \in Int, NEW c \in Nat \ {0}
  PROVE  a % c \in 0 .. c - 1 /\ a \div c \in Int /\ a = (c * (a \div c)) + (a % c)
BY SMT

LEMMA DivisionUnique ==
  ASSUME NEW a \in Int, NEW c \in Nat \ {0}, NEW q \in Int, NEW r \in 0 .. c - 1, a = (c * q) + r
  PROVE  a % c = r
BY SMT

\* Two multiples of w are that far apart.
LEMMA MultiplesApart ==
  ASSUME NEW w \in Nat \ {0}, NEW a \in Nat, NEW b \in Nat, a % w = 0, b % w = 0, a < b
  PROVE  a + w <= b
<1> DEFINE q == a \div w
           s == b \div w
<1>1. q \in Int /\ s \in Int /\ a = w * q /\ b = w * s
  BY Division
<1> HIDE DEF q, s
<1>2. q + 1 <= s
  <2>1. ASSUME s <= q PROVE FALSE
    <3>1. w * s <= w * q
      BY <1>1, <2>1
    <3> QED BY <1>1, <3>1
  <2> QED BY <1>1, <2>1
<1>3. w * (q + 1) <= w * s
  BY <1>1, <1>2
<1>4. w * (q + 1) = (w * q) + w
  BY <1>1
<1> QED BY <1>1, <1>3, <1>4

LEMMA NextMultiple ==
  ASSUME NEW w \in Nat \ {0}, NEW a \in Nat
  PROVE  /\ (a + w) % w = a % w
         /\ a % (2 * w) = 0 => a % w = 0 /\ (a + w) % (2 * w) = w
         /\ a % w = 0 /\ a % (2 * w) # 0 => w <= a /\ (a - w) % (2 * w) = 0
<1> DEFINE q == a \div w
           u == 2 * w
           s == a \div u
           t == a % u
<1>1. q \in Int /\ a = (w * q) + (a % w) /\ a % w \in 0 .. w - 1
  BY Division
<1>2. u \in Nat \ {0} /\ w \in 0 .. u - 1 /\ 0 \in 0 .. w - 1 /\ u = w + w
  OBVIOUS
<1> HIDE DEF u
<1>3. s \in Int /\ a = (u * s) + t /\ t \in 0 .. u - 1
  <2>1. a \in Int /\ u \in Nat \ {0}
    BY <1>2
  <2> QED BY ONLY <2>1, Division
<1> HIDE DEF q, s, t
<1>3a. u * s = w * (2 * s) /\ u * s \in Int
  BY <1>2, <1>3
<1>4. (a + w) % w = a % w
  <2>1. a + w = (w * (q + 1)) + (a % w)
    BY <1>1
  <2>2. q + 1 \in Int /\ a + w \in Int
    BY <1>1
  <2> QED BY <1>1, <2>1, <2>2, DivisionUnique
<1>5. ASSUME t = 0 PROVE a % w = 0 /\ (a + w) % u = w
  <2>1. a = (w * (2 * s)) + 0 /\ 2 * s \in Int
    BY <1>3, <1>3a, <1>5
  <2>2. a + w = (u * s) + w
    BY <1>2, <1>3, <1>5
  <2>3. a % w = 0
    BY <1>2, <2>1, DivisionUnique
  <2>4. a + w \in Int
    OBVIOUS
  <2>5. (a + w) % u = w
    BY ONLY <1>2, <1>3, <2>2, <2>4, DivisionUnique
  <2> QED BY <2>3, <2>5
<1>6. ASSUME a % w = 0, t # 0 PROVE w <= a /\ (a - w) % u = 0
  <2>1. t = (w * (q - (2 * s))) + 0 /\ q - (2 * s) \in Int /\ t \in Int
    <3>1. w * (q - (2 * s)) = (w * q) - (w * (2 * s))
      BY <1>1, <1>3
    <3> QED BY <1>1, <1>2, <1>3, <1>3a, <1>6, <3>1
  <2>2. t % w = 0
    BY <1>2, <2>1, DivisionUnique
  <2>3. 0 % w = 0 /\ w % w = 0
    <3>1. 0 = (w * 0) + 0 /\ w = (w * 1) + 0 /\ w \in Int
      OBVIOUS
    <3> QED BY <1>2, <3>1, DivisionUnique
  <2>4. t \in Nat /\ t < w + w /\ 0 < t
    BY <1>2, <1>3, <1>6
  <2>5. w <= t
    <3>1. 0 + w <= t
      BY <2>2, <2>3, <2>4, MultiplesApart
    <3> QED BY <3>1
  <2>6. w < t => w + w <= t
    BY <2>2, <2>3, <2>4, MultiplesApart
  <2>7. t = w
    BY <2>4, <2>5, <2>6
  <2>8. a - w = (u * s) + 0 /\ a - w \in Int /\ 0 \in 0 .. u - 1
    BY <1>2, <1>3, <2>7
  <2>9. (a - w) % u = 0
    BY <1>2, <1>3, <2>8, DivisionUnique
  <2>10. w <= a
    <3>1. ASSUME s < 0 PROVE FALSE
      <4>1. u * s <= u * (-1)
        BY <1>2, <1>3, <3>1
      <4> QED BY <1>2, <1>3, <2>7, <4>1
    <3>2. u * s >= 0
      BY <1>2, <1>3, <3>1
    <3> QED BY ONLY <1>3, <1>3a, <2>7, <3>2, a \in Nat, w \in Nat \ {0}
  <2> QED BY <2>9, <2>10
<1> QED BY <1>4, <1>5, <1>6 DEF t, u

\* The ends of the runs of w rows.
RunCuts(n, w) == {c \in 0 .. n : c % w = 0 \/ c = n}

\* The cuts when insertion has passed i rows.
InsertionCuts(n, w, i) == {c \in 0 .. n : c % w = 0 \/ c >= i}

\* The cuts when a merge pass has visited k positions.
PassCuts(n, w, k) == {c \in 0 .. n : c = n \/ (c % w = 0 /\ (c % (2 * w) = 0 \/ c - w >= k))}

LEMMA InsertionCutsNext ==
  ASSUME NEW n \in Nat, NEW w \in Nat \ {0}, NEW i \in 1 .. n,
         NEW base, base = (i - 1) - ((i - 1) % w)
  PROVE  /\ base \in InsertionCuts(n, w, i - 1) /\ i \in InsertionCuts(n, w, i - 1) /\ base < i
         /\ \A c \in InsertionCuts(n, w, i - 1) : ~(base < c /\ c < i - 1)
         /\ InsertionCuts(n, w, i - 1) \ (base + 1 .. i - 1) = InsertionCuts(n, w, i)
<1> DEFINE a == i - 1
           q == a \div w
<1>0. a \in Nat /\ a \in Int
  OBVIOUS
<1>1. a \in Nat /\ a % w \in 0 .. w - 1 /\ q \in Int /\ a = (w * q) + (a % w)
  BY <1>0, Division
<1>2. base = (w * q) + 0 /\ base \in Int /\ base <= a /\ a < base + w
  BY <1>1
<1>3. base \in Nat
  <2>1. ASSUME q < 0 PROVE FALSE
    <3>1. w * q <= w * (-1)
      BY <1>1, <2>1
    <3> QED BY <1>1, <3>1
  <2>2. w * q >= 0
    BY <1>1, <2>1
  <2> QED BY <1>2, <2>2
<1>4. base % w = 0
  <2>1. 0 \in 0 .. w - 1
    OBVIOUS
  <2> HIDE DEF q
  <2> QED BY <1>1, <1>2, <2>1, DivisionUnique
<1>5. \A c \in Nat : base < c /\ c <= a => c % w # 0
  BY <1>2, <1>3, <1>4, MultiplesApart
<1> HIDE DEF q
<1>6. a = i - 1 /\ i \in Nat /\ 1 <= i /\ i <= n
  OBVIOUS
<1> HIDE DEF a
<1>7. /\ base \in InsertionCuts(n, w, a) /\ i \in InsertionCuts(n, w, a) /\ base < i
      /\ \A c \in InsertionCuts(n, w, a) : ~(base < c /\ c < a)
  BY <1>2, <1>3, <1>4, <1>5, <1>6 DEF InsertionCuts
<1>8. \A c : c \in InsertionCuts(n, w, a) \ (base + 1 .. a) <=> c \in InsertionCuts(n, w, i)
  BY <1>2, <1>3, <1>5, <1>6 DEF InsertionCuts
<1> QED BY <1>6, <1>7, <1>8

\* A merge at k takes the runs up to mid and up to hi, and removes the cut between them.
CutsMerged(n, w, k, mid, hi) ==
  IF (k - 1) % (2 * w) = 0
  THEN /\ k - 1 \in PassCuts(n, w, k - 1) /\ mid \in PassCuts(n, w, k - 1) /\ hi \in PassCuts(n, w, k - 1)
       /\ k - 1 < mid /\ mid <= hi
       /\ \A c \in PassCuts(n, w, k - 1) : ~(k - 1 < c /\ c < mid) /\ ~(mid < c /\ c < hi)
       /\ PassCuts(n, w, k - 1) \ ((k - 1) + 1 .. hi - 1) = PassCuts(n, w, k)
  ELSE PassCuts(n, w, k - 1) = PassCuts(n, w, k)

LEMMA PassCutsNext ==
  ASSUME NEW n \in Nat, NEW w \in Nat \ {0}, NEW k \in 1 .. n,
         NEW mid, mid = IF k - 1 + w < n THEN k - 1 + w ELSE n,
         NEW hi, hi = IF k - 1 + 2 * w < n THEN k - 1 + 2 * w ELSE n
  PROVE  CutsMerged(n, w, k, mid, hi)
<1> USE DEF CutsMerged
<1> DEFINE lo == k - 1
<1>1. /\ lo \in Nat /\ lo < n /\ k = lo + 1 /\ 2 * w \in Nat \ {0} /\ 2 * w = w + w /\ w >= 1
      /\ mid = (IF lo + w < n THEN lo + w ELSE n) /\ hi = IF lo + 2 * w < n THEN lo + 2 * w ELSE n
  OBVIOUS
<1>2. \A c \in Nat : /\ c % (2 * w) = 0 => c % w = 0
                     /\ c % w = 0 /\ c % (2 * w) # 0 => w <= c /\ (c - w) % (2 * w) = 0
  BY NextMultiple
<1>3. CASE lo % (2 * w) = 0
  <2>1. lo % w = 0 /\ (lo + w) % w = 0 /\ (lo + w) % (2 * w) = w /\ (lo + 2 * w) % (2 * w) = 0
    <3>1. lo % w = 0 /\ (lo + w) % w = 0 /\ (lo + w) % (2 * w) = w
      BY <1>1, <1>3, NextMultiple
    <3>2. (lo + 2 * w) % (2 * w) = lo % (2 * w)
      BY <1>1, NextMultiple
    <3> QED BY <1>3, <3>1, <3>2
  <2>2. \A c \in Nat : c % w = 0 => ~(lo < c /\ c < lo + w) /\ ~(lo + w < c /\ c < lo + 2 * w)
    <3> SUFFICES ASSUME NEW c \in Nat, c % w = 0
                 PROVE  ~(lo < c /\ c < lo + w) /\ ~(lo + w < c /\ c < lo + 2 * w)
      OBVIOUS
    <3>1. lo < c => lo + w <= c
      BY <1>1, <2>1, MultiplesApart
    <3>2. lo + w \in Nat
      BY <1>1
    <3>3. lo + w < c => (lo + w) + w <= c
      BY <2>1, <3>2, MultiplesApart
    <3> QED BY <1>1, <3>1, <3>3
  <2> HIDE DEF lo
  <2>3. (lo + 2 * w) % w = 0
    <3>1. lo + 2 * w \in Nat
      BY <1>1
    <3> QED BY <1>2, <2>1, <3>1
  <2>4. lo < mid /\ mid <= hi /\ mid \in 0 .. n /\ hi \in 0 .. n
    BY <1>1
  <2>5. lo \in PassCuts(n, w, lo)
    BY <1>1, <1>3, <2>1 DEF PassCuts
  <2>6. mid \in PassCuts(n, w, lo)
    BY <1>1, <2>1, <2>4 DEF PassCuts
  <2>7. hi \in PassCuts(n, w, lo)
    BY <1>1, <2>1, <2>3, <2>4 DEF PassCuts
  <2>8. \A c \in PassCuts(n, w, lo) : ~(lo < c /\ c < mid) /\ ~(mid < c /\ c < hi)
    <3> SUFFICES ASSUME NEW c \in PassCuts(n, w, lo) PROVE ~(lo < c /\ c < mid) /\ ~(mid < c /\ c < hi)
      OBVIOUS
    <3>1. c \in Nat /\ c <= n /\ (c = n \/ c % w = 0)
      BY DEF PassCuts
    <3>2. c = n \/ (~(lo < c /\ c < lo + w) /\ ~(lo + w < c /\ c < lo + 2 * w))
      BY <2>2, <3>1
    <3> QED BY ONLY <1>1, <2>4, <3>1, <3>2, n \in Nat, w \in Nat \ {0}
  <2>9. ASSUME NEW c \in 0 .. n PROVE c \in PassCuts(n, w, lo) \ (lo + 1 .. hi - 1) <=> c \in PassCuts(n, w, k)
    <3>1. CASE c = n
      BY <1>1, <2>4, <3>1 DEF PassCuts
    <3>2. CASE c # n /\ c = lo + w
      <4>1. c \in lo + 1 .. hi - 1
        BY <1>1, <3>2
      <4>2. c % (2 * w) # 0 /\ ~(c - w >= k)
        BY <1>1, <2>1, <3>2
      <4> QED BY <3>2, <4>1, <4>2 DEF PassCuts
    <3>3. CASE c # n /\ c # lo + w
      <4>1. c - w >= lo <=> c - w >= k
        BY <1>1, <3>3
      <4>2. c \in PassCuts(n, w, lo) <=> c \in PassCuts(n, w, k)
        BY <4>1 DEF PassCuts
      <4>3. c \in PassCuts(n, w, lo) => c \notin lo + 1 .. hi - 1
        <5> SUFFICES ASSUME c \in PassCuts(n, w, lo), c \in lo + 1 .. hi - 1 PROVE FALSE
          OBVIOUS
        <5>1. c \in Nat /\ c % w = 0
          BY <3>3 DEF PassCuts
        <5>2. ~(lo < c /\ c < lo + w) /\ ~(lo + w < c /\ c < lo + 2 * w)
          BY <2>2, <5>1
        <5> QED BY ONLY <1>1, <2>4, <3>3, <5>1, <5>2, c \in lo + 1 .. hi - 1, n \in Nat, w \in Nat \ {0}
      <4> QED BY <4>2, <4>3
    <3> QED BY <3>1, <3>2, <3>3
  <2>10. PassCuts(n, w, lo) \ (lo + 1 .. hi - 1) = PassCuts(n, w, k)
    BY <2>9 DEF PassCuts
  <2> QED BY <1>3, <2>4, <2>5, <2>6, <2>7, <2>8, <2>10 DEF lo
<1>4. CASE lo % (2 * w) # 0
  <2> HIDE DEF lo
  <2>1. ASSUME NEW c \in 0 .. n PROVE c \in PassCuts(n, w, lo) <=> c \in PassCuts(n, w, k)
    <3>1. CASE c - w = lo
      <4>1. c % w = 0 => c % (2 * w) = 0
        <5>1. c \in Nat
          OBVIOUS
        <5>2. c % w = 0 /\ c % (2 * w) # 0 => (c - w) % (2 * w) = 0
          BY <1>2, <5>1
        <5> QED BY <1>4, <3>1, <5>2
      <4> QED BY <4>1 DEF PassCuts
    <3>2. CASE c - w # lo
      <4>1. c - w >= lo <=> c - w >= k
        BY <1>1, <3>2
      <4> QED BY <4>1 DEF PassCuts
    <3> QED BY <3>1, <3>2
  <2>2. PassCuts(n, w, lo) = PassCuts(n, w, k)
    BY <2>1 DEF PassCuts
  <2> QED BY <1>4, <2>2 DEF lo
<1> QED BY <1>3, <1>4

\* The cuts before and after the loops.
LEMMA CutsOfLoops ==
  ASSUME NEW n \in Nat, NEW w \in Nat \ {0}
  PROVE  /\ InsertionCuts(n, w, 0) = 0 .. n
         /\ InsertionCuts(n, w, n) = RunCuts(n, w)
         /\ PassCuts(n, w, 0) = RunCuts(n, w)
         /\ PassCuts(n, w, n) = RunCuts(n, 2 * w)
         /\ w >= n => RunCuts(n, w) \subseteq {0, n}
<1>1. \A c \in Nat : /\ c % (2 * w) = 0 => c % w = 0
                     /\ c % w = 0 /\ c % (2 * w) # 0 => w <= c
  BY NextMultiple
<1>2. InsertionCuts(n, w, 0) = 0 .. n /\ InsertionCuts(n, w, n) = RunCuts(n, w)
  BY DEF InsertionCuts, RunCuts
<1>3. ASSUME NEW c \in 0 .. n PROVE c \in PassCuts(n, w, 0) <=> c \in RunCuts(n, w)
  <2>1. c % w = 0 /\ c % (2 * w) # 0 => c - w >= 0
    BY <1>1
  <2> QED BY <1>1, <2>1 DEF PassCuts, RunCuts
<1>4. ASSUME NEW c \in 0 .. n PROVE c \in PassCuts(n, w, n) <=> c \in RunCuts(n, 2 * w)
  <2>1. ~(c - w >= n)
    OBVIOUS
  <2>0. c \in Nat
    OBVIOUS
  <2>2. c % (2 * w) = 0 => c % w = 0
    BY ONLY <1>1, <2>0
  <2> QED BY <2>1, <2>2 DEF PassCuts, RunCuts
<1>5. ASSUME w >= n, NEW c \in RunCuts(n, w) PROVE c \in {0, n}
  <2>1. 0 % w = 0
    BY SMT
  <2>2. c \in Nat /\ c <= n /\ (c % w = 0 \/ c = n)
    BY DEF RunCuts
  <2>3. 0 < c /\ c % w = 0 => 0 + w <= c
    BY <2>1, <2>2, MultiplesApart
  <2> QED BY <1>5, <2>2, <2>3
<1>6. PassCuts(n, w, 0) = RunCuts(n, w) /\ PassCuts(n, w, n) = RunCuts(n, 2 * w)
  BY <1>3, <1>4 DEF PassCuts, RunCuts
<1> QED BY <1>2, <1>5, <1>6

-----------------------------------------------------------------------------
(* The loops.                                                              *)

\* Between neighbouring cuts the rows are ordered, and beyond a cut come later ones.
LEMMA RunsOfCuts ==
  ASSUME NEW S, NEW place \in [S -> Nat], NEW rel, NEW n \in Nat, NEW C, NEW p, Arranged(S, place, rel, n, C, p),
         C \subseteq 0 .. n, NEW lo \in 0 .. n, NEW hi \in 0 .. n, lo <= hi,
         \A c \in C : ~(lo < c /\ c < hi)
  PROVE  Ordered(p, lo, hi, rel)
<1> SUFFICES ASSUME NEW a \in lo + 1 .. hi, NEW b \in lo + 1 .. hi, a < b PROVE <<p[a], p[b]>> \in rel
  BY DEF Ordered
<1>1. a \in 1 .. n /\ b \in 1 .. n
  OBVIOUS
<1>2. \A c \in C : ~(a <= c /\ c < b)
  <2> SUFFICES ASSUME NEW c \in C, a <= c, c < b PROVE FALSE
    OBVIOUS
  <2>1. c \in Int => lo < c /\ c < hi
    OBVIOUS
  <2>2. c \in Int
    OBVIOUS
  <2> QED BY <2>1, <2>2
<1> QED BY <1>1, <1>2 DEF Arranged

LEMMA PlacesOfCuts ==
  ASSUME NEW S, NEW place \in [S -> Nat], NEW rel, NEW n \in Nat, NEW C, NEW p, Arranged(S, place, rel, n, C, p),
         NEW c \in C, c \in Nat, NEW i \in 1 .. n, NEW j \in 1 .. n, i <= c, c < j
  PROVE  place[p[i]] < place[p[j]]
<1>1. place[p[i]] <= c /\ ~(place[p[j]] <= c)
  BY DEF Arranged
<1>2. p[i] \in S /\ p[j] \in S
  BY DEF Arranged
<1>3. place[p[i]] \in Nat /\ place[p[j]] \in Nat
  BY <1>2
<1> QED BY <1>1, <1>3

LEMMA InsertKeeps ==
  ASSUME NEW S, NEW place, NEW order, NEW rel, Stable(S, place, order, rel),
         NEW n \in Nat, NEW w \in Nat \ {0}, NEW i \in 1 .. n,
         NEW p, Arranged(S, place, rel, n, InsertionCuts(n, w, i - 1), p)
  PROVE  Arranged(S, place, rel, n, InsertionCuts(n, w, i), Insert(p, (i - 1) - ((i - 1) % w), i, order))
<1> DEFINE base == (i - 1) - ((i - 1) % w)
           C == InsertionCuts(n, w, i - 1)
<1>1. /\ base \in C /\ i \in C /\ base < i
      /\ \A c \in C : ~(base < c /\ c < i - 1)
      /\ C \ (base + 1 .. i - 1) = InsertionCuts(n, w, i)
  <2>1. base = (i - 1) - ((i - 1) % w)
    OBVIOUS
  <2> HIDE DEF base
  <2> QED BY <2>1, InsertionCutsNext
<1> HIDE DEF base
<1>2. C \subseteq 0 .. n /\ i - 1 \in C
  BY DEF InsertionCuts
<1> HIDE DEF C
<1>3. p \in Seq(S) /\ Len(p) = n /\ place \in [S -> Nat] /\ Arranged(S, place, rel, n, C, p)
  BY DEF Arranged, Stable, C
<1>4. base \in 0 .. n /\ base \in Nat /\ i - 1 \in 0 .. n /\ base <= i - 1 /\ i \in 1 .. Len(p)
  BY <1>1, <1>2, <1>3
<1>5. Ordered(p, base, i - 1, rel)
  BY <1>1, <1>2, <1>3, <1>4, RunsOfCuts
<1>6. \A k \in base + 1 .. i - 1 : place[p[k]] < place[p[i]]
  <2> SUFFICES ASSUME NEW k \in base + 1 .. i - 1 PROVE place[p[k]] < place[p[i]]
    OBVIOUS
  <2>1. k \in 1 .. n /\ k <= i - 1 /\ i - 1 < i /\ i - 1 \in Nat
    BY <1>4
  <2> QED BY <1>2, <1>3, <2>1, PlacesOfCuts
<1>7. Reorders(S, rel, p, Insert(p, base, i, order), base, i)
  BY <1>1, <1>3, <1>4, <1>5, <1>6, InsertReorders
<1>8. Arranged(S, place, rel, n, C \ (base + 1 .. i - 1), Insert(p, base, i, order))
  <2>1. base <= i
    BY <1>4
  <2> QED BY <1>1, <1>2, <1>3, <1>7, <2>1, ReordersArranged
<1> QED BY <1>1, <1>8 DEF base

\* What a merge pass does at position k of n rows.
MergeHere(p, n, w, k, order) ==
  Merge(p, k - 1, IF k - 1 + w < n THEN k - 1 + w ELSE n, IF k - 1 + 2 * w < n THEN k - 1 + 2 * w ELSE n, order)

PassStep(p, n, w, k, order) ==
  IF (k - 1) % (2 * w) = 0 THEN MergeHere(p, n, w, k, order) ELSE p

LEMMA PassKeeps ==
  ASSUME NEW S, NEW place, NEW order, NEW rel, Stable(S, place, order, rel),
         NEW n \in Nat, NEW w \in Nat \ {0}, NEW k \in 1 .. n,
         NEW p, Arranged(S, place, rel, n, PassCuts(n, w, k - 1), p)
  PROVE  Arranged(S, place, rel, n, PassCuts(n, w, k), PassStep(p, n, w, k, order))
<1> DEFINE lo == k - 1
           mid == IF k - 1 + w < n THEN k - 1 + w ELSE n
           hi == IF k - 1 + 2 * w < n THEN k - 1 + 2 * w ELSE n
           C == PassCuts(n, w, k - 1)
           D == PassCuts(n, w, k)
           q == Merge(p, lo, mid, hi, order)
<1>1. IF (k - 1) % (2 * w) = 0
      THEN /\ lo \in C /\ mid \in C /\ hi \in C /\ lo < mid /\ mid <= hi
           /\ \A c \in C : ~(lo < c /\ c < mid) /\ ~(mid < c /\ c < hi)
           /\ C \ (lo + 1 .. hi - 1) = D
      ELSE C = D
  <2>1. /\ mid = (IF k - 1 + w < n THEN k - 1 + w ELSE n)
        /\ hi = (IF k - 1 + 2 * w < n THEN k - 1 + 2 * w ELSE n)
    OBVIOUS
  <2> HIDE DEF mid, hi
  <2>2. CutsMerged(n, w, k, mid, hi)
    BY <2>1, PassCutsNext
  <2> QED BY <2>2 DEF CutsMerged, mid, hi
<1>2. PassStep(p, n, w, k, order) = IF (k - 1) % (2 * w) = 0 THEN q ELSE p
  BY DEF PassStep, MergeHere
<1>3. C \subseteq 0 .. n
  BY DEF PassCuts
<1>4. Arranged(S, place, rel, n, C, p)
  OBVIOUS
<1> HIDE DEF lo, mid, hi, C, D
<1>5. CASE (k - 1) % (2 * w) = 0
  <2>1. /\ lo \in C /\ mid \in C /\ hi \in C /\ lo < mid /\ mid <= hi
        /\ \A c \in C : ~(lo < c /\ c < mid) /\ ~(mid < c /\ c < hi)
        /\ C \ (lo + 1 .. hi - 1) = D
    BY <1>1, <1>5
  <2>2. p \in Seq(S) /\ Len(p) = n /\ place \in [S -> Nat]
    BY <1>4 DEF Arranged, Stable
  <2>3. lo \in 0 .. n /\ mid \in 0 .. n /\ hi \in 0 .. n
    BY <1>3, <2>1
  <2>4. lo \in Nat /\ mid \in Nat /\ hi \in Nat /\ lo <= mid /\ lo <= hi /\ hi <= Len(p)
    BY <2>1, <2>2, <2>3
  <2>5. Ordered(p, lo, mid, rel)
    BY <1>3, <1>4, <2>1, <2>2, <2>3, <2>4, RunsOfCuts
  <2>6. Ordered(p, mid, hi, rel)
    BY <1>3, <1>4, <2>1, <2>2, <2>3, <2>4, RunsOfCuts
  <2>7. \A i \in lo + 1 .. mid, j \in mid + 1 .. hi : place[p[i]] < place[p[j]]
    <3> SUFFICES ASSUME NEW i \in lo + 1 .. mid, NEW j \in mid + 1 .. hi PROVE place[p[i]] < place[p[j]]
      OBVIOUS
    <3>1. i \in 1 .. n /\ j \in 1 .. n /\ i <= mid /\ mid < j
      BY <2>3
    <3> QED BY <1>4, <2>1, <2>2, <2>4, <3>1, PlacesOfCuts
  <2>8. Reorders(S, rel, p, q, lo, hi)
    BY <2>1, <2>2, <2>4, <2>5, <2>6, <2>7, MergeReorders
  <2> HIDE DEF q
  <2>9. Arranged(S, place, rel, n, C \ (lo + 1 .. hi - 1), q)
    BY <1>3, <1>4, <2>1, <2>4, <2>8, ReordersArranged
  <2>10. Arranged(S, place, rel, n, D, q)
    BY <2>1, <2>9
  <2> QED BY <1>2, <1>5, <2>10 DEF D
<1>6. CASE (k - 1) % (2 * w) # 0
  <2>1. C = D
    BY <1>1, <1>6
  <2> QED BY <1>2, <1>4, <1>6, <2>1 DEF D
<1> QED BY <1>5, <1>6

\* Insertion orders the runs of w rows.
LEMMA InsertionSortArranges ==
  ASSUME NEW S, NEW place, NEW order, NEW rel, Stable(S, place, order, rel),
         NEW n \in Nat, NEW w \in Nat \ {0},
         NEW p, Arranged(S, place, rel, n, 0 .. n, p)
  PROVE  Arranged(S, place, rel, n, RunCuts(n, w), InsertionSort(p, w, order))
<1> DEFINE Reached(k) == {x \in Seq(S) : Arranged(S, place, rel, n, InsertionCuts(n, w, k), x)}
           A == [k \in 0 .. n |-> Reached(k)]
           Body(x, k) == Insert(x, (k - 1) - ((k - 1) % w), k, order)
           step == [x \in (1 .. n) \X Seq(S) |-> Body(x[2], x[1])]
           IsLoop(f) == f = [k \in 0 .. n |-> IF k = 0 THEN p ELSE Body(f[k - 1], k)]
           loop == CHOOSE f : IsLoop(f)
<1>0. p \in Seq(S) /\ Len(p) = n
  BY DEF Arranged
<1>1. InsertionSort(p, w, order) = loop[n]
  BY <1>0 DEF InsertionSort
<1>2. p \in Reached(0)
  BY <1>0, CutsOfLoops
<1>3. ASSUME NEW k \in 1 .. n, NEW x \in Reached(k - 1) PROVE Body(x, k) \in Reached(k)
  <2>1. Arranged(S, place, rel, n, InsertionCuts(n, w, k), Body(x, k))
    BY InsertKeeps
  <2> HIDE DEF Body
  <2> QED BY <2>1 DEF Arranged
<1>4. \A k \in 0 .. n : A[k] = Reached(k) /\ A[k] \subseteq Seq(S)
  OBVIOUS
<1> HIDE DEF A, Reached
<1>5. ASSUME NEW k \in 1 .. n, NEW x \in A[k - 1]
      PROVE  step[<<k, x>>] = Body(x, k) /\ Body(x, k) \in A[k]
  <2>1. k \in 0 .. n /\ k - 1 \in 0 .. n
    OBVIOUS
  <2>2. x \in Seq(S) /\ x \in Reached(k - 1)
    BY <1>4, <2>1
  <2> HIDE DEF Body
  <2>3. step[<<k, x>>] = Body(x, k)
    BY <2>2
  <2> QED BY <1>3, <1>4, <2>1, <2>2, <2>3
<1> HIDE DEF step, Body
<1>6. p \in A[0]
  BY <1>2, <1>4
<1>7. PICK f : Steps(f, n, A, p, step)
  <2>1. \A k \in 1 .. n : \A x \in A[k - 1] : step[<<k, x>>] \in A[k]
    BY <1>5
  <2> QED BY <1>6, <2>1, Recursion
<1>8. IsLoop(f)
  <2>1. /\ f = [k \in 0 .. n |-> IF k = 0 THEN p ELSE step[<<k, f[k - 1]>>]]
        /\ \A k \in 0 .. n : f[k] \in A[k]
    BY <1>7 DEF Steps
  <2>2. \A k \in 0 .. n : (IF k = 0 THEN p ELSE step[<<k, f[k - 1]>>])
                            = IF k = 0 THEN p ELSE Body(f[k - 1], k)
    <3> SUFFICES ASSUME NEW k \in 0 .. n, k # 0 PROVE step[<<k, f[k - 1]>>] = Body(f[k - 1], k)
      OBVIOUS
    <3>1. k \in 1 .. n /\ k - 1 \in 0 .. n
      OBVIOUS
    <3> QED BY <1>5, <2>1, <3>1
  <2> QED BY <2>1, <2>2
<1>9. IsLoop(loop)
  <2>1. \E g : IsLoop(g)
    BY <1>8
  <2> HIDE DEF IsLoop
  <2> QED BY <2>1
<1> HIDE DEF loop
<1>10. \A k \in 0 .. n : loop[k] \in A[k]
  <2> DEFINE G == {k \in 0 .. n : loop[k] \in A[k]}
  <2>1. \A k \in 0 .. n : loop[k] = IF k = 0 THEN p ELSE Body(loop[k - 1], k)
    BY <1>9
  <2>2. 0 \in G
    BY <1>6, <2>1
  <2>3. \A k \in 1 .. n : k - 1 \in G => k \in G
    <3> SUFFICES ASSUME NEW k \in 1 .. n, k - 1 \in G PROVE k \in G
      OBVIOUS
    <3>1. k \in 0 .. n /\ k # 0
      OBVIOUS
    <3>2. loop[k] = Body(loop[k - 1], k)
      BY <2>1, <3>1
    <3> QED BY <1>5, <3>1, <3>2
  <2> HIDE DEF G
  <2>4. \A k \in 0 .. n : k \in G
    BY <2>2, <2>3, StepByStep
  <2> QED BY <2>4 DEF G
<1>11. loop[n] \in Reached(n)
  BY <1>4, <1>10
<1> QED BY <1>1, <1>11, CutsOfLoops DEF Reached

\* A pass merges the runs of w rows by twos.
LEMMA MergePassArranges ==
  ASSUME NEW S, NEW place, NEW order, NEW rel, Stable(S, place, order, rel),
         NEW n \in Nat, NEW w \in Nat \ {0},
         NEW p, Arranged(S, place, rel, n, RunCuts(n, w), p)
  PROVE  Arranged(S, place, rel, n, RunCuts(n, 2 * w), MergePass(p, w, order))
<1> DEFINE Reached(k) == {x \in Seq(S) : Arranged(S, place, rel, n, PassCuts(n, w, k), x)}
           A == [k \in 0 .. n |-> Reached(k)]
           Body(x, k) == PassStep(x, n, w, k, order)
           step == [x \in (1 .. n) \X Seq(S) |-> Body(x[2], x[1])]
           IsLoop(f) == f = [k \in 0 .. n |-> IF k = 0 THEN p ELSE Body(f[k - 1], k)]
           loop == CHOOSE f : IsLoop(f)
<1>0. p \in Seq(S) /\ Len(p) = n
  BY DEF Arranged
<1>1. MergePass(p, w, order) = loop[n]
  BY <1>0 DEF MergePass, PassStep, MergeHere
<1>2. p \in Reached(0)
  BY <1>0, CutsOfLoops
<1>3. ASSUME NEW k \in 1 .. n, NEW x \in Reached(k - 1) PROVE Body(x, k) \in Reached(k)
  <2>1. Arranged(S, place, rel, n, PassCuts(n, w, k), Body(x, k))
    BY PassKeeps
  <2> HIDE DEF Body
  <2> QED BY <2>1 DEF Arranged
<1>4. \A k \in 0 .. n : A[k] = Reached(k) /\ A[k] \subseteq Seq(S)
  OBVIOUS
<1> HIDE DEF A, Reached
<1>5. ASSUME NEW k \in 1 .. n, NEW x \in A[k - 1]
      PROVE  step[<<k, x>>] = Body(x, k) /\ Body(x, k) \in A[k]
  <2>1. k \in 0 .. n /\ k - 1 \in 0 .. n
    OBVIOUS
  <2>2. x \in Seq(S) /\ x \in Reached(k - 1)
    BY <1>4, <2>1
  <2> HIDE DEF Body
  <2>3. step[<<k, x>>] = Body(x, k)
    BY <2>2
  <2> QED BY <1>3, <1>4, <2>1, <2>2, <2>3
<1> HIDE DEF step, Body
<1>6. p \in A[0]
  BY <1>2, <1>4
<1>7. PICK f : Steps(f, n, A, p, step)
  <2>1. \A k \in 1 .. n : \A x \in A[k - 1] : step[<<k, x>>] \in A[k]
    BY <1>5
  <2> QED BY <1>6, <2>1, Recursion
<1>8. IsLoop(f)
  <2>1. /\ f = [k \in 0 .. n |-> IF k = 0 THEN p ELSE step[<<k, f[k - 1]>>]]
        /\ \A k \in 0 .. n : f[k] \in A[k]
    BY <1>7 DEF Steps
  <2>2. \A k \in 0 .. n : (IF k = 0 THEN p ELSE step[<<k, f[k - 1]>>])
                            = IF k = 0 THEN p ELSE Body(f[k - 1], k)
    <3> SUFFICES ASSUME NEW k \in 0 .. n, k # 0 PROVE step[<<k, f[k - 1]>>] = Body(f[k - 1], k)
      OBVIOUS
    <3>1. k \in 1 .. n /\ k - 1 \in 0 .. n
      OBVIOUS
    <3> QED BY <1>5, <2>1, <3>1
  <2> QED BY <2>1, <2>2
<1>9. IsLoop(loop)
  <2>1. \E g : IsLoop(g)
    BY <1>8
  <2> HIDE DEF IsLoop
  <2> QED BY <2>1
<1> HIDE DEF loop
<1>10. \A k \in 0 .. n : loop[k] \in A[k]
  <2> DEFINE G == {k \in 0 .. n : loop[k] \in A[k]}
  <2>1. \A k \in 0 .. n : loop[k] = IF k = 0 THEN p ELSE Body(loop[k - 1], k)
    BY <1>9
  <2>2. 0 \in G
    BY <1>6, <2>1
  <2>3. \A k \in 1 .. n : k - 1 \in G => k \in G
    <3> SUFFICES ASSUME NEW k \in 1 .. n, k - 1 \in G PROVE k \in G
      OBVIOUS
    <3>1. k \in 0 .. n /\ k # 0
      OBVIOUS
    <3>2. loop[k] = Body(loop[k - 1], k)
      BY <2>1, <3>1
    <3> QED BY <1>5, <3>1, <3>2
  <2> HIDE DEF G
  <2>4. \A k \in 0 .. n : k \in G
    BY <2>2, <2>3, StepByStep
  <2> QED BY <2>4 DEF G
<1>11. loop[n] \in Reached(n)
  BY <1>4, <1>10
<1> QED BY <1>1, <1>11, CutsOfLoops DEF Reached

\* The runs of s.width rows of the permutation are ordered, and after k passes there
\* are runs of more than k rows or there is one run.
Passed(S, place, rel, n, s, k) ==
  /\ s \in [width : Nat \ {0}, perm : Seq(S)]
  /\ Arranged(S, place, rel, n, RunCuts(n, s.width), s.perm)
  /\ k < s.width \/ n <= s.width

LEMMA DoubledPasses ==
  ASSUME NEW S, NEW place, NEW order, NEW rel, Stable(S, place, order, rel),
         NEW n \in Nat, NEW k \in 1 .. n, NEW s, Passed(S, place, rel, n, s, k - 1)
  PROVE  Passed(S, place, rel, n, Doubled(s, order), k)
<1>1. /\ s.width \in Nat \ {0} /\ s.perm \in Seq(S) /\ Len(s.perm) = n
      /\ Arranged(S, place, rel, n, RunCuts(n, s.width), s.perm) /\ (k - 1 < s.width \/ n <= s.width)
  BY DEF Passed, Arranged
<1>2. CASE s.width < n
  <2> DEFINE q == MergePass(s.perm, s.width, order)
             t == [width |-> 2 * s.width, perm |-> q]
  <2>1. Doubled(s, order) = t
    BY <1>1, <1>2 DEF Doubled
  <2>2. Arranged(S, place, rel, n, RunCuts(n, 2 * s.width), q)
    BY <1>1, MergePassArranges
  <2> HIDE DEF q
  <2>3. q \in Seq(S)
    BY <2>2 DEF Arranged
  <2>4. 2 * s.width \in Nat \ {0} /\ k < 2 * s.width
    BY <1>1, <1>2
  <2>5. t.width = 2 * s.width /\ t.perm = q /\ t \in [width : Nat \ {0}, perm : Seq(S)]
    BY <2>3, <2>4
  <2> HIDE DEF t
  <2>6. Passed(S, place, rel, n, t, k)
    BY <2>2, <2>4, <2>5 DEF Passed
  <2> QED BY <2>1, <2>6
<1>3. CASE ~(s.width < n)
  <2>1. Doubled(s, order) = s
    BY <1>1, <1>3 DEF Doubled
  <2>2. n <= s.width
    BY <1>1, <1>3
  <2> QED BY <2>1, <2>2 DEF Passed
<1> QED BY <1>2, <1>3

\* A stable sort orders all the rows.
LEMMA StableSortOrders ==
  ASSUME NEW S, NEW place, NEW order, NEW rel, Stable(S, place, order, rel),
         NEW n \in Nat, NEW p, Arranged(S, place, rel, n, 0 .. n, p)
  PROVE  Reorders(S, rel, p, StableSort(p, order), 0, n)
<1> DEFINE first == [width |-> InitRun, perm |-> InsertionSort(p, InitRun, order)]
           Reached(k) == {x \in [width : Nat \ {0}, perm : Seq(S)] : Passed(S, place, rel, n, x, k)}
           A == [k \in 0 .. n |-> Reached(k)]
           Body(x, k) == Doubled(x, order)
           step == [x \in (1 .. n) \X [width : Nat \ {0}, perm : Seq(S)] |-> Body(x[2], x[1])]
           IsLoop(f) == f = [k \in 0 .. n |-> IF k = 0 THEN first ELSE Body(f[k - 1], k)]
           loop == CHOOSE f : IsLoop(f)
<1>0. p \in Seq(S) /\ Len(p) = n
  BY DEF Arranged
<1>1. n > 1 => StableSort(p, order) = loop[n].perm
  BY <1>0 DEF StableSort
<1>2. first \in Reached(0)
  <2> DEFINE q == InsertionSort(p, InitRun, order)
  <2>1. InitRun \in Nat \ {0}
    BY InitRunAssumption
  <2>2. Arranged(S, place, rel, n, RunCuts(n, InitRun), q)
    BY <2>1, InsertionSortArranges
  <2>3. first.width = InitRun /\ first.perm = q
    OBVIOUS
  <2> HIDE DEF q
  <2>4. q \in Seq(S)
    BY <2>2 DEF Arranged
  <2>5. first \in [width : Nat \ {0}, perm : Seq(S)]
    BY <2>1, <2>4 DEF q
  <2> HIDE DEF first
  <2>6. Passed(S, place, rel, n, first, 0)
    BY <2>1, <2>2, <2>3, <2>5 DEF Passed
  <2> QED BY <2>5, <2>6
<1> HIDE DEF first
<1>3. ASSUME NEW k \in 1 .. n, NEW x \in Reached(k - 1) PROVE Body(x, k) \in Reached(k)
  <2>1. Passed(S, place, rel, n, Body(x, k), k)
    BY DoubledPasses
  <2> HIDE DEF Body
  <2> QED BY <2>1 DEF Passed
<1>4. \A k \in 0 .. n : A[k] = Reached(k) /\ A[k] \subseteq [width : Nat \ {0}, perm : Seq(S)]
  OBVIOUS
<1> HIDE DEF A, Reached
<1>5. ASSUME NEW k \in 1 .. n, NEW x \in A[k - 1]
      PROVE  step[<<k, x>>] = Body(x, k) /\ Body(x, k) \in A[k]
  <2>1. k \in 0 .. n /\ k - 1 \in 0 .. n
    OBVIOUS
  <2>2. x \in [width : Nat \ {0}, perm : Seq(S)] /\ x \in Reached(k - 1)
    BY <1>4, <2>1
  <2> HIDE DEF Body
  <2>3. step[<<k, x>>] = Body(x, k)
    BY <2>2
  <2> QED BY <1>3, <1>4, <2>1, <2>2, <2>3
<1> HIDE DEF step, Body
<1>6. first \in A[0]
  BY <1>2, <1>4
<1>7. PICK f : Steps(f, n, A, first, step)
  <2>1. \A k \in 1 .. n : \A x \in A[k - 1] : step[<<k, x>>] \in A[k]
    BY <1>5
  <2> QED BY <1>6, <2>1, Recursion
<1>8. IsLoop(f)
  <2>1. /\ f = [k \in 0 .. n |-> IF k = 0 THEN first ELSE step[<<k, f[k - 1]>>]]
        /\ \A k \in 0 .. n : f[k] \in A[k]
    BY <1>7 DEF Steps
  <2>2. \A k \in 0 .. n : (IF k = 0 THEN first ELSE step[<<k, f[k - 1]>>])
                            = IF k = 0 THEN first ELSE Body(f[k - 1], k)
    <3> SUFFICES ASSUME NEW k \in 0 .. n, k # 0 PROVE step[<<k, f[k - 1]>>] = Body(f[k - 1], k)
      OBVIOUS
    <3>1. k \in 1 .. n /\ k - 1 \in 0 .. n
      OBVIOUS
    <3> QED BY <1>5, <2>1, <3>1
  <2> QED BY <2>1, <2>2
<1>9. IsLoop(loop)
  <2>1. \E g : IsLoop(g)
    BY <1>8
  <2> HIDE DEF IsLoop
  <2> QED BY <2>1
<1> HIDE DEF loop
<1>10. \A k \in 0 .. n : loop[k] \in A[k]
  <2> DEFINE G == {k \in 0 .. n : loop[k] \in A[k]}
  <2>1. \A k \in 0 .. n : loop[k] = IF k = 0 THEN first ELSE Body(loop[k - 1], k)
    BY <1>9
  <2>2. 0 \in G
    BY <1>6, <2>1
  <2>3. \A k \in 1 .. n : k - 1 \in G => k \in G
    <3> SUFFICES ASSUME NEW k \in 1 .. n, k - 1 \in G PROVE k \in G
      OBVIOUS
    <3>1. k \in 0 .. n /\ k # 0
      OBVIOUS
    <3>2. loop[k] = Body(loop[k - 1], k)
      BY <2>1, <3>1
    <3> QED BY <1>5, <3>1, <3>2
  <2> HIDE DEF G
  <2>4. \A k \in 0 .. n : k \in G
    BY <2>2, <2>3, StepByStep
  <2> QED BY <2>4 DEF G
<1>11. loop[n] \in Reached(n)
  BY <1>4, <1>10
<1>12. CASE n > 1
  <2> DEFINE s == loop[n]
             q == s.perm
  <2>1. Passed(S, place, rel, n, s, n)
    BY <1>11 DEF Reached
  <2> HIDE DEF s
  <2>2. /\ q \in Seq(S) /\ Len(q) = n /\ s.width \in Nat \ {0} /\ n <= s.width
        /\ Arranged(S, place, rel, n, RunCuts(n, s.width), q)
    BY <2>1 DEF Passed, Arranged
  <2> HIDE DEF q
  <2>3. \A c \in RunCuts(n, s.width) : ~(0 < c /\ c < n)
    BY <2>2, CutsOfLoops
  <2>4. Ordered(q, 0, n, rel)
    <3>1. /\ place \in [S -> Nat] /\ 0 \in 0 .. n /\ n \in 0 .. n /\ 0 <= n
          /\ RunCuts(n, s.width) \subseteq 0 .. n
      BY DEF Stable, RunCuts
    <3> QED BY <2>2, <2>3, <3>1, RunsOfCuts
  <2>5. Elements(q, 0, n) = Elements(p, 0, n)
    BY <2>2 DEF Arranged
  <2>6. Reorders(S, rel, p, q, 0, n)
    BY <1>0, <2>2, <2>4, <2>5 DEF Reorders
  <2> QED BY <1>1, <1>12, <2>6 DEF q, s
<1>13. CASE ~(n > 1)
  <2>1. StableSort(p, order) = p
    BY <1>0, <1>13 DEF StableSort
  <2>2. Ordered(p, 0, n, rel)
    BY <1>13 DEF Ordered
  <2> QED BY <1>0, <2>1, <2>2 DEF Reorders
<1> QED BY <1>12, <1>13

-----------------------------------------------------------------------------
(* argsort.                                                                *)

\* A row precedes another exactly when its key is the smaller.
LEMMA PrecedesByKey ==
  ASSUME NEW col, NEW desc \in BOOLEAN, NEW x, NEW y,
         Bit(col.vp, x) => col.data[x] \in NegInf .. NaN,
         Bit(col.vp, y) => col.data[y] \in NegInf .. NaN
  PROVE  /\ SortKey(col, desc, x) \in Int /\ SortKey(col, desc, y) \in Int
         /\ Precedes(col, desc, x, y) <=> SortKey(col, desc, x) < SortKey(col, desc, y)
<1> DEFINE v == col.data[x]
           w == col.data[y]
<1>1. PosInf \in Nat /\ PosInf >= 1 /\ NaN = PosInf + 1 /\ NegInf = -PosInf
  BY PosInfAssumption DEF NaN, NegInf
<1>2. Bit(col.vp, x) => v \in Int /\ -NaN < v /\ v <= NaN
  BY <1>1
<1>3. Bit(col.vp, y) => w \in Int /\ -NaN < w /\ w <= NaN
  BY <1>1
<1>4. SortKey(col, desc, x) = IF ~Bit(col.vp, x) THEN 2 * NaN ELSE IF desc THEN -v ELSE v
  BY DEF SortKey
<1>5. SortKey(col, desc, y) = IF ~Bit(col.vp, y) THEN 2 * NaN ELSE IF desc THEN -w ELSE w
  BY DEF SortKey
<1>6. Precedes(col, desc, x, y) <=> Bit(col.vp, x) /\ (Bit(col.vp, y) => IF desc THEN Over(v, w) ELSE Over(w, v))
  BY DEF Precedes
<1> HIDE DEF v, w
<1>7. SortKey(col, desc, x) \in Int /\ SortKey(col, desc, y) \in Int
  BY <1>1, <1>2, <1>3, <1>4, <1>5
<1>8. CASE Bit(col.vp, x) /\ Bit(col.vp, y)
  <2>1. (Over(v, w) <=> w < v) /\ (Over(w, v) <=> v < w)
    BY <1>1, <1>2, <1>3, <1>8 DEF Over, Below
  <2> QED BY <1>2, <1>3, <1>4, <1>5, <1>6, <1>7, <1>8, <2>1
<1>9. CASE Bit(col.vp, x) /\ ~Bit(col.vp, y)
  <2>1. SortKey(col, desc, x) < SortKey(col, desc, y)
    BY <1>1, <1>2, <1>4, <1>5, <1>9
  <2> QED BY <1>6, <1>7, <1>9, <2>1
<1>10. CASE ~Bit(col.vp, x)
  <2>1. ~(SortKey(col, desc, x) < SortKey(col, desc, y))
    BY <1>1, <1>3, <1>4, <1>5, <1>10
  <2> QED BY <1>6, <1>7, <1>10, <2>1
<1> QED BY <1>8, <1>9, <1>10

\* argsort orders the rows by their keys and the places they came from, however many
\* rows there are and however long the runs sorted by insertion (select.rs,
\* stable_sort_perm_scratch).
THEOREM ArgsortIsStable == Spec => []SortStable
<1>1. Computed => SortStable
  <2> SUFFICES ASSUME Computed, Ran({"sort"}) PROVE SortStable
    BY DEF SortStable
  <2> DEFINE col == call.col
             perm == call.perm
             desc == call.desc
             n == Len(perm)
             S == ToSet(perm)
             key(row) == SortKey(call.col, call.desc, row)
             place == [x \in S |-> CHOOSE i \in DOMAIN perm : perm[i] = x]
             order == {p \in S \X S : Precedes(col, desc, p[1], p[2])}
             rel == {p \in S \X S : key(p[1]) < key(p[2]) \/ (key(p[1]) = key(p[2]) /\ place[p[1]] < place[p[2]])}
             at(row) == CHOOSE p \in DOMAIN call.perm : call.perm[p] = row
  <2>1. /\ perm \in Seq(Nat) /\ desc \in BOOLEAN
        /\ \A i, j \in DOMAIN perm : perm[i] = perm[j] => i = j
        /\ \A i \in DOMAIN perm : Bit(col.vp, perm[i]) => col.data[perm[i]] \in NegInf .. NaN
    BY CallsAssumption DEF Computed, Ran
  <2>2. result = StableSort(perm, order)
    BY DEF Computed, Argsort
  <2> HIDE DEF perm, desc, col
  <2>3. n \in Nat /\ DOMAIN perm = 1 .. n /\ S = {perm[i] : i \in 1 .. n} /\ perm \in Seq(S)
    <3>1. n \in Nat /\ DOMAIN perm = 1 .. n
      BY <2>1
    <3>2. S = {perm[i] : i \in 1 .. n}
      BY <3>1 DEF ToSet
    <3>3. perm \in [1 .. n -> S]
      BY <2>1, <3>1, <3>2
    <3> HIDE DEF S
    <3> QED BY <3>1, <3>2, <3>3
  <2> HIDE DEF S, n
  <2>4. \A i \in 1 .. n : place[perm[i]] = i /\ perm[i] \in S
    BY <2>1, <2>3
  <2>5. \A x \in S : \E i \in 1 .. n : x = perm[i]
    BY <2>3
  <2>6. place \in [S -> Nat]
    <3>1. \A x \in S : (CHOOSE i \in DOMAIN perm : perm[i] = x) \in Nat
      <4> SUFFICES ASSUME NEW x \in S PROVE (CHOOSE i \in DOMAIN perm : perm[i] = x) \in Nat
        OBVIOUS
      <4>1. \E i \in DOMAIN perm : perm[i] = x
        BY <2>3, <2>5
      <4>2. (CHOOSE i \in DOMAIN perm : perm[i] = x) \in 1 .. n
        BY <2>3, <4>1
      <4> QED BY <4>2
    <3> QED BY <3>1
  <2> HIDE DEF place
  <2>7. \A x \in S : Bit(col.vp, x) => col.data[x] \in NegInf .. NaN
    BY <2>1, <2>3, <2>5
  <2>8. \A x, y \in S : key(x) \in Int /\ (Precedes(col, desc, x, y) <=> key(x) < key(y))
    <3> SUFFICES ASSUME NEW x \in S, NEW y \in S
                 PROVE  key(x) \in Int /\ (Precedes(col, desc, x, y) <=> key(x) < key(y))
      OBVIOUS
    <3>1. key(x) = SortKey(col, desc, x) /\ key(y) = SortKey(col, desc, y)
      BY DEF col, desc
    <3> QED BY <2>1, <2>7, <3>1, PrecedesByKey
  <2> HIDE DEF key
  <2>9. \A x, y \in S : <<x, y>> \in order <=> key(x) < key(y)
    BY <2>8
  <2>10. \A x, y \in S : <<x, y>> \in rel <=> (key(x) < key(y) \/ (key(x) = key(y) /\ place[x] < place[y]))
    OBVIOUS
  <2>11. \A x \in S : key(x) \in Int /\ place[x] \in Nat
    BY <2>6, <2>8
  <2> HIDE DEF order, rel
  <2>12. Stable(S, place, order, rel)
    <3>1. ASSUME NEW x \in S, NEW y \in S, NEW z \in S, <<x, y>> \in rel, <<y, z>> \in rel
          PROVE  <<x, z>> \in rel
      <4>1. /\ key(x) < key(y) \/ (key(x) = key(y) /\ place[x] < place[y])
            /\ key(y) < key(z) \/ (key(y) = key(z) /\ place[y] < place[z])
        BY <2>10, <3>1
      <4>2. key(x) < key(z) \/ (key(x) = key(z) /\ place[x] < place[z])
        BY <2>11, <4>1
      <4> QED BY <2>10, <4>2
    <3>2. ASSUME NEW x \in S, NEW y \in S, place[x] < place[y]
          PROVE  IF <<y, x>> \in order THEN <<y, x>> \in rel ELSE <<x, y>> \in rel
      <4>1. key(x) < key(y) \/ key(x) = key(y) \/ key(y) < key(x)
        BY <2>11
      <4> QED BY <2>9, <2>10, <3>2, <4>1
    <3> QED BY <2>6, <3>1, <3>2 DEF Stable
  <2>13. Arranged(S, place, rel, n, 0 .. n, perm)
    <3>1. Len(perm) = n
      BY DEF n
    <3>2. Elements(perm, 0, n) = S
      BY <2>3 DEF Elements
    <3>3. \A c \in 0 .. n, i \in 1 .. n : i <= c <=> place[perm[i]] <= c
      BY <2>4
    <3>4. \A i, j \in 1 .. n : i < j /\ (\A c \in 0 .. n : ~(i <= c /\ c < j)) => <<perm[i], perm[j]>> \in rel
      <4> SUFFICES ASSUME NEW i \in 1 .. n, NEW j \in 1 .. n, i < j, \A c \in 0 .. n : ~(i <= c /\ c < j)
                   PROVE  FALSE
        OBVIOUS
      <4>1. i \in 0 .. n /\ i <= i
        BY <2>3
      <4> QED BY <4>1
    <3> QED BY <2>3, <3>1, <3>2, <3>3, <3>4 DEF Arranged
  <2>14. Reorders(S, rel, perm, result, 0, n)
    BY <2>2, <2>3, <2>12, <2>13, StableSortOrders
  <2>15. result \in Seq(S) /\ Len(result) = n /\ DOMAIN result = 1 .. n /\ Len(perm) = n
    <3>1. Len(perm) = n
      BY DEF n
    <3>2. result \in Seq(S) /\ Len(result) = n
      BY <2>14, <3>1 DEF Reorders
    <3> QED BY <3>1, <3>2
  <2>16. ToSet(result) = ToSet(perm)
    <3>1. Elements(result, 0, n) = Elements(perm, 0, n)
      BY <2>14 DEF Reorders
    <3>2. Elements(result, 0, n) = ToSet(result)
      BY <2>15 DEF Elements, ToSet
    <3>3. Elements(perm, 0, n) = ToSet(perm)
      BY <2>3 DEF Elements, ToSet
    <3> QED BY <3>1, <3>2, <3>3
  <2>17. ASSUME NEW i \in DOMAIN result, NEW j \in DOMAIN result, i < j
         PROVE  key(result[i]) < key(result[j])
                  \/ (key(result[i]) = key(result[j]) /\ place[result[i]] < place[result[j]])
    <3>1. result[i] \in S /\ result[j] \in S
      BY <2>15
    <3>2. <<result[i], result[j]>> \in rel
      <4>1. i \in 0 + 1 .. n /\ j \in 0 + 1 .. n
        BY <2>15
      <4> QED BY <2>14, <2>17, <4>1 DEF Reorders, Ordered
    <3> QED BY <2>10, <3>1, <3>2
  <2>18. \A x \in S : place[x] = at(x)
    BY DEF place, perm
  <2>19. \A i \in DOMAIN result : result[i] \in S
    BY <2>15
  <2> HIDE DEF at
  <2>20. \A i, j \in DOMAIN result :
           i < j => key(result[i]) < key(result[j])
                      \/ (key(result[i]) = key(result[j]) /\ at(result[i]) < at(result[j]))
    BY <2>17, <2>18, <2>19
  <2> QED BY <2>15, <2>16, <2>20 DEF SortStable, perm, key, at
<1> QED BY <1>1, AlwaysComputed, PTL

-----------------------------------------------------------------------------
(* Integers of a width.                                                    *)

\* The powers of two up to w.
ArePowers(f, w) == f = [k \in 0 .. w |-> IF k = 0 THEN 1 ELSE 2 * f[k - 1]]

LEMMA PowersExist ==
  ASSUME NEW w \in Nat
  PROVE  \E f : ArePowers(f, w) /\ \A k \in 0 .. w : f[k] \in Nat \ {0}
<1> DEFINE A == [k \in 0 .. w |-> Nat \ {0}]
           step == [x \in (1 .. w) \X (Nat \ {0}) |-> 2 * x[2]]
<1>1. \A k \in 1 .. w : \A x \in A[k - 1] : step[<<k, x>>] = 2 * x /\ step[<<k, x>>] \in A[k]
  <2> SUFFICES ASSUME NEW k \in 1 .. w, NEW x \in A[k - 1] PROVE step[<<k, x>>] = 2 * x /\ step[<<k, x>>] \in A[k]
    OBVIOUS
  <2>1. x \in Nat \ {0} /\ 2 * x \in Nat \ {0} /\ A[k] = Nat \ {0}
    OBVIOUS
  <2>2. step[<<k, x>>] = 2 * x
    BY <2>1
  <2> QED BY <2>1, <2>2
<1>2. 1 \in A[0] /\ \A k \in 0 .. w : A[k] = Nat \ {0}
  OBVIOUS
<1> HIDE DEF A, step
<1>3. PICK f : Steps(f, w, A, 1, step)
  BY <1>1, <1>2, Recursion
<1>4. /\ f = [k \in 0 .. w |-> IF k = 0 THEN 1 ELSE step[<<k, f[k - 1]>>]]
      /\ \A k \in 0 .. w : f[k] \in A[k]
  BY <1>3 DEF Steps
<1>5. \A k \in 0 .. w : (IF k = 0 THEN 1 ELSE step[<<k, f[k - 1]>>]) = IF k = 0 THEN 1 ELSE 2 * f[k - 1]
  <2> SUFFICES ASSUME NEW k \in 0 .. w, k # 0 PROVE step[<<k, f[k - 1]>>] = 2 * f[k - 1]
    OBVIOUS
  <2>1. k \in 1 .. w /\ k - 1 \in 0 .. w
    OBVIOUS
  <2> QED BY <1>1, <1>4, <2>1
<1>6. ArePowers(f, w)
  BY <1>4, <1>5 DEF ArePowers
<1> QED BY <1>2, <1>4, <1>6

LEMMA Powers ==
  ASSUME NEW w \in Nat
  PROVE  Two(w) \in Nat \ {0} /\ Two(w + 1) = 2 * Two(w) /\ Two(0) = 1
<1> DEFINE two(v) == CHOOSE f : ArePowers(f, v)
<1>1. \A v \in Nat : Two(v) = two(v)[v]
  BY DEF Two, ArePowers
<1>2. \A v \in Nat : ArePowers(two(v), v)
  BY PowersExist
<1> HIDE DEF two
<1>3. ASSUME NEW v \in Nat, NEW u \in Nat, v <= u PROVE \A k \in 0 .. v : two(u)[k] = two(v)[k]
  <2> DEFINE G == {k \in 0 .. v : two(u)[k] = two(v)[k]}
  <2>1. \A k \in 0 .. v : two(v)[k] = IF k = 0 THEN 1 ELSE 2 * two(v)[k - 1]
    BY <1>2 DEF ArePowers
  <2>2. \A k \in 0 .. u : two(u)[k] = IF k = 0 THEN 1 ELSE 2 * two(u)[k - 1]
    BY <1>2 DEF ArePowers
  <2>3. 0 \in G
    BY <2>1, <2>2
  <2>4. \A k \in 1 .. v : k - 1 \in G => k \in G
    <3> SUFFICES ASSUME NEW k \in 1 .. v, k - 1 \in G PROVE k \in G
      OBVIOUS
    <3>1. k \in 0 .. v /\ k \in 0 .. u /\ k # 0
      BY <1>3
    <3> QED BY <2>1, <2>2, <3>1
  <2> HIDE DEF G
  <2>5. \A k \in 0 .. v : k \in G
    BY <2>3, <2>4, StepByStep
  <2> QED BY <2>5 DEF G
<1>4. Two(w + 1) = 2 * Two(w)
  <2>1. two(w + 1)[w + 1] = 2 * two(w + 1)[w]
    <3>1. w + 1 \in Nat /\ w + 1 \in 0 .. w + 1 /\ w + 1 # 0 /\ (w + 1) - 1 = w
      OBVIOUS
    <3>2. \A k \in 0 .. w + 1 : two(w + 1)[k] = IF k = 0 THEN 1 ELSE 2 * two(w + 1)[k - 1]
      BY <1>2, <3>1 DEF ArePowers
    <3>3. two(w + 1)[w + 1] = IF w + 1 = 0 THEN 1 ELSE 2 * two(w + 1)[(w + 1) - 1]
      BY <3>1, <3>2
    <3> QED BY <3>1, <3>3
  <2>2. two(w + 1)[w] = two(w)[w]
    BY <1>3
  <2> QED BY <1>1, <2>1, <2>2
<1>5. Two(0) = 1
  BY <1>1, <1>2 DEF ArePowers
<1>6. Two(w) \in Nat \ {0}
  <2>1. PICK f : ArePowers(f, w) /\ \A k \in 0 .. w : f[k] \in Nat \ {0}
    BY PowersExist
  <2> DEFINE G == {k \in 0 .. w : two(w)[k] = f[k]}
  <2>2. \A k \in 0 .. w : two(w)[k] = IF k = 0 THEN 1 ELSE 2 * two(w)[k - 1]
    BY <1>2 DEF ArePowers
  <2>3. \A k \in 0 .. w : f[k] = IF k = 0 THEN 1 ELSE 2 * f[k - 1]
    BY <2>1 DEF ArePowers
  <2>4. 0 \in G
    BY <2>2, <2>3
  <2>5. \A k \in 1 .. w : k - 1 \in G => k \in G
    BY <2>2, <2>3
  <2> HIDE DEF G
  <2>6. \A k \in 0 .. w : k \in G
    BY <2>4, <2>5, StepByStep
  <2> QED BY <1>1, <2>1, <2>6 DEF G
<1> QED BY <1>4, <1>5, <1>6

\* A multiple of c leaves nothing.
LEMMA MultipleLeavesNothing ==
  ASSUME NEW c \in Nat \ {0}, NEW q \in Int
  PROVE  (c * q) % c = 0 /\ (-(c * q)) % c = 0
<1>1. c * q \in Int /\ -(c * q) = c * (-q)
  OBVIOUS
<1>2. 0 \in 0 .. c - 1 /\ c * q = (c * q) + 0 /\ c * (-q) = (c * (-q)) + 0 /\ -q \in Int /\ c * (-q) \in Int
  OBVIOUS
<1> QED BY <1>1, <1>2, DivisionUnique

LEMMA Wrapped ==
  ASSUME NEW w \in Nat \ {0}, NEW v \in Int
  PROVE  /\ WrapSigned(w, v) \in Signed(w) /\ (WrapSigned(w, v) - v) % Two(w) = 0
         /\ WrapUnsigned(w, v) \in Unsigned(w) /\ (WrapUnsigned(w, v) - v) % Two(w) = 0
         /\ v \in Signed(w) => WrapSigned(w, v) = v
         /\ v \in Unsigned(w) => WrapUnsigned(w, v) = v
<1> DEFINE T == Two(w)
           H == Two(w - 1)
<1>1. T \in Nat \ {0} /\ H \in Nat \ {0} /\ T = 2 * H
  <2>1. w - 1 \in Nat /\ (w - 1) + 1 = w
    OBVIOUS
  <2> QED BY <2>1, Powers
<1>2. /\ Signed(w) = -H .. H - 1 /\ Unsigned(w) = 0 .. T - 1
      /\ WrapSigned(w, v) = ((v + H) % T) - H /\ WrapUnsigned(w, v) = v % T
  BY DEF Signed, Unsigned, WrapSigned, WrapUnsigned
<1> HIDE DEF T, H
<1>3. ASSUME NEW x \in Int PROVE x % T \in 0 .. T - 1 /\ ((x % T) - x) % T = 0 /\ (x \in 0 .. T - 1 => x % T = x)
  <2>1. x % T \in 0 .. T - 1 /\ x \div T \in Int /\ x = (T * (x \div T)) + (x % T)
    BY <1>1, Division
  <2>2. (x % T) - x = -(T * (x \div T))
    BY <1>1, <2>1
  <2>3. (-(T * (x \div T))) % T = 0
    BY <1>1, <2>1, MultipleLeavesNothing
  <2>4. x \in 0 .. T - 1 => x % T = x
    <3>1. x = (T * 0) + x
      BY <1>1
    <3> QED BY <1>1, <3>1, DivisionUnique
  <2> QED BY <2>1, <2>2, <2>3, <2>4
<1>4. v + H \in Int /\ (((v + H) % T) - H) - v = ((v + H) % T) - (v + H)
  <2>1. v + H \in Int
    BY <1>1
  <2>2. (v + H) % T \in Int
    BY <1>3, <2>1
  <2> QED BY <1>1, <2>1, <2>2
<1>5. WrapSigned(w, v) \in Signed(w) /\ (v \in Signed(w) => WrapSigned(w, v) = v)
  <2>1. (v + H) % T \in 0 .. T - 1 /\ (v + H \in 0 .. T - 1 => (v + H) % T = v + H)
    BY <1>3, <1>4
  <2> QED BY <1>1, <1>2, <2>1
<1>6. (WrapSigned(w, v) - v) % T = 0
  BY <1>2, <1>3, <1>4
<1>7. WrapUnsigned(w, v) \in Unsigned(w) /\ (WrapUnsigned(w, v) - v) % T = 0 /\ (v \in Unsigned(w) => WrapUnsigned(w, v) = v)
  BY <1>2, <1>3
<1> QED BY <1>5, <1>6, <1>7 DEF T

LEMMA Sizes ==
  ASSUME NEW dtype \in {"i32", "u32", "i64"}
  PROVE  Cardinality(Representable(dtype)) = Two(IF dtype = "i64" THEN 2 * Width ELSE Width)
<1> DEFINE w == IF dtype = "i64" THEN 2 * Width ELSE Width
<1>1. w \in Nat \ {0} /\ w - 1 \in Nat /\ (w - 1) + 1 = w
  BY WidthAssumption
<1>2. Two(w) \in Nat \ {0} /\ Two(w - 1) \in Nat \ {0} /\ Two(w) = 2 * Two(w - 1)
  BY <1>1, Powers
<1>3. Representable(dtype) = IF dtype = "u32" THEN 0 .. Two(w) - 1 ELSE -Two(w - 1) .. Two(w - 1) - 1
  BY DEF Representable, Signed, Unsigned
<1> HIDE DEF w
<1>4. ASSUME NEW a \in Int, NEW b \in Int, a <= b PROVE Cardinality(a .. b) = b - a + 1
  BY <1>4, FS_Interval
<1>5. dtype = "u32" => Cardinality(Representable(dtype)) = Two(w)
  <2>1. 0 \in Int /\ Two(w) - 1 \in Int /\ 0 <= Two(w) - 1 /\ (Two(w) - 1) - 0 + 1 = Two(w)
    BY <1>2
  <2> QED BY <1>3, <1>4, <2>1
<1>6. dtype # "u32" => Cardinality(Representable(dtype)) = Two(w)
  <2>1. -Two(w - 1) \in Int /\ Two(w - 1) - 1 \in Int /\ -Two(w - 1) <= Two(w - 1) - 1
        /\ (Two(w - 1) - 1) - (-Two(w - 1)) + 1 = Two(w)
    BY <1>2
  <2> QED BY <1>3, <1>4, <2>1
<1> QED BY <1>5, <1>6 DEF w

\* Division towards zero.
LEMMA Truncation ==
  ASSUME NEW a \in Int, NEW b \in Int \ {0}
  PROVE  /\ Quotient(a, b) \in Int /\ Remainder(a, b) = a - b * Quotient(a, b)
         /\ RemainderOf(a, b, Remainder(a, b))
         /\ (b * Quotient(a, b)) % Magnitude(b) = 0
         /\ b = -1 => Quotient(a, b) = -a
         /\ b # -1 /\ b # 1 => 2 * Magnitude(Quotient(a, b)) <= Magnitude(a)
         /\ b = 1 => Quotient(a, b) = a
         /\ Magnitude(a) < Magnitude(b) => Quotient(a, b) = 0
<1> DEFINE A == Magnitude(a)
           B == Magnitude(b)
           d == A \div B
           r == A % B
           q == Quotient(a, b)
<1>1. A \in Nat /\ B \in Nat \ {0} /\ (a = A \/ (a < 0 /\ a = -A)) /\ (b = B \/ (b < 0 /\ b = -B))
  BY DEF Magnitude
<1>2. (a < 0 <=> a # A) /\ (b < 0 <=> b # B)
  BY DEF Magnitude
<1> HIDE DEF A, B
<1>3. r \in 0 .. B - 1 /\ d \in Int /\ A = (B * d) + r
  BY <1>1, Division
<1>4. q = IF (a < 0) # (b < 0) THEN -d ELSE d
  BY DEF Quotient, A, B
<1>5. d \in Nat /\ (B >= 2 => 2 * d <= A) /\ (B = 1 => d = A) /\ (A < B => d = 0)
  <2> HIDE DEF A, B, d, r
  <2>1. d >= 0
    <3>1. ASSUME d <= -1 PROVE FALSE
      <4>1. B * d <= B * (-1)
        BY <1>1, <1>3, <3>1
      <4> QED BY <1>1, <1>3, <4>1
    <3> QED BY <1>3, <3>1
  <2>2. B >= 2 => 2 * d <= B * d
    BY <1>1, <1>3, <2>1
  <2>3. A < B => d = 0
    <3>1. ASSUME d >= 1 PROVE B * d >= B
      BY <1>1, <1>3, <3>1
    <3> QED BY <1>1, <1>3, <2>1, <3>1
  <2>4. B = 1 => d = A
    BY <1>1, <1>3
  <2>5. B >= 2 => 2 * d <= A
    BY <1>1, <1>3, <2>2
  <2> QED BY <1>3, <2>1, <2>3, <2>4, <2>5
<1> HIDE DEF A, B, d, r, q
<1>6. q \in Int
  BY <1>4, <1>5
<1>7. b * q = IF a < 0 THEN -(B * d) ELSE B * d
  <2>1. (-B) * (-d) = B * d /\ (-B) * d = -(B * d) /\ B * (-d) = -(B * d)
    BY <1>1, <1>3
  <2>2. b = IF b < 0 THEN -B ELSE B
    BY <1>1
  <2> QED BY <1>4, <2>1, <2>2
<1>8. a - b * q = IF a < 0 THEN -r ELSE r
  BY <1>1, <1>2, <1>3, <1>7
<1>9. Remainder(a, b) = a - b * q
  BY DEF Remainder, q
<1>10. RemainderOf(a, b, a - b * q)
  <2>1. Magnitude(a - b * q) = r
    BY <1>1, <1>3, <1>8 DEF Magnitude
  <2>2. a - b * q = 0 \/ ((a - b * q < 0) = (a < 0))
    BY <1>1, <1>3, <1>8
  <2>3. r < Magnitude(b)
    BY <1>1, <1>3 DEF B
  <2> QED BY <2>1, <2>2, <2>3 DEF RemainderOf
<1>11. (b * q) % B = 0
  BY <1>1, <1>3, <1>7, MultipleLeavesNothing
<1>12. b = -1 => B = 1 /\ q = -a
  <2>1. b = -1 => B = 1 /\ d = A
    BY <1>1, <1>5
  <2> QED BY <1>1, <1>2, <1>4, <2>1
<1>13. b # -1 /\ b # 1 => 2 * Magnitude(q) <= A
  <2>1. b # -1 /\ b # 1 => B >= 2
    BY <1>1
  <2>2. Magnitude(q) = d
    BY <1>4, <1>5 DEF Magnitude
  <2> QED BY <1>5, <2>1, <2>2
<1>14. b = 1 => q = a
  <2>1. b = 1 => B = 1 /\ d = A
    BY <1>1, <1>5
  <2> QED BY <1>1, <1>2, <1>4, <2>1
<1>15. A < B => q = 0
  <2>1. A < B => d = 0
    BY <1>5
  <2>2. d \in Nat /\ -d = 0 - d
    BY <1>5
  <2>3. q = 0 - d \/ q = d
    BY <1>4, <2>2
  <2> QED BY <2>1, <2>2, <2>3
<1> QED BY <1>6, <1>9, <1>10, <1>11, <1>12, <1>13, <1>14, <1>15 DEF A, B, q

-----------------------------------------------------------------------------
(* Arithmetic.                                                             *)

ArithmeticOps == {"add", "sub", "mul", "div", "mod"}

LEMMA Ranges ==
  /\ Two(Width) \in Nat \ {0} /\ Two(Width - 1) \in Nat \ {0} /\ Two(Width) = 2 * Two(Width - 1)
  /\ Two(2 * Width) \in Nat \ {0} /\ Two(2 * Width - 1) \in Nat \ {0} /\ Two(2 * Width) = 2 * Two(2 * Width - 1)
  /\ Representable("i32") = -Two(Width - 1) .. Two(Width - 1) - 1
  /\ Representable("u32") = 0 .. Two(Width) - 1
  /\ Representable("i64") = -Two(2 * Width - 1) .. Two(2 * Width - 1) - 1
<1>1. /\ Width \in Nat \ {0} /\ Width - 1 \in Nat /\ (Width - 1) + 1 = Width
      /\ 2 * Width \in Nat \ {0} /\ 2 * Width - 1 \in Nat /\ (2 * Width - 1) + 1 = 2 * Width
  BY WidthAssumption
<1>2. /\ Representable("i32") = -Two(Width - 1) .. Two(Width - 1) - 1
      /\ Representable("u32") = 0 .. Two(Width) - 1
      /\ Representable("i64") = -Two(2 * Width - 1) .. Two(2 * Width - 1) - 1
  BY DEF Representable, Signed, Unsigned
<1> QED BY <1>1, <1>2, Powers

\* Sums, differences and products wrap.
LEMMA WrapComputes ==
  ASSUME NEW dtype \in {"i32", "u32", "i64"}, NEW v \in Int
  PROVE  Wrap(dtype, v) \in Representable(dtype) /\ Congruent(dtype, Wrap(dtype, v), v)
<1>1. Width \in Nat \ {0} /\ 2 * Width \in Nat \ {0}
  BY WidthAssumption
<1>2. ASSUME NEW w \in Nat \ {0}
      PROVE  /\ WrapSigned(w, v) \in Signed(w) /\ (WrapSigned(w, v) - v) % Two(w) = 0
             /\ WrapUnsigned(w, v) \in Unsigned(w) /\ (WrapUnsigned(w, v) - v) % Two(w) = 0
  BY Wrapped
<1>3. /\ Cardinality(Representable("i32")) = Two(Width) /\ Cardinality(Representable("u32")) = Two(Width)
      /\ Cardinality(Representable("i64")) = Two(2 * Width)
  BY Sizes
<1>4. /\ Representable("i32") = Signed(Width) /\ Representable("u32") = Unsigned(Width)
      /\ Representable("i64") = Signed(2 * Width)
  BY DEF Representable
<1>5. /\ Wrap("i32", v) = WrapSigned(Width, v) /\ Wrap("u32", v) = WrapUnsigned(Width, v)
      /\ Wrap("i64", v) = WrapSigned(2 * Width, v)
  BY DEF Wrap, IsFloat
<1>6. CASE dtype = "i32"
  BY ONLY <1>1, <1>2, <1>3, <1>4, <1>5, <1>6 DEF Congruent
<1>7. CASE dtype = "u32"
  BY ONLY <1>1, <1>2, <1>3, <1>4, <1>5, <1>7 DEF Congruent
<1>8. CASE dtype = "i64"
  BY ONLY <1>1, <1>2, <1>3, <1>4, <1>5, <1>8 DEF Congruent
<1> QED BY <1>6, <1>7, <1>8

\* A quotient fits, but for that of the least integer and -1.
LEMMA QuotientFits ==
  ASSUME NEW H \in Nat \ {0}, NEW a \in -H .. H - 1, NEW b \in (-H .. H - 1) \ {0}
  PROVE  /\ Quotient(a, b) \in Int /\ Remainder(a, b) \in -H .. H - 1
         /\ Quotient(a, b) \in -H .. H - 1 <=> ~(b = -1 /\ a = -H)
<1>1. a \in Int /\ b \in Int \ {0}
  OBVIOUS
<1> DEFINE q == Quotient(a, b)
<1>2. /\ q \in Int /\ (b = -1 => q = -a) /\ (b = 1 => q = a)
      /\ (b # -1 /\ b # 1 => 2 * Magnitude(q) <= Magnitude(a))
      /\ RemainderOf(a, b, Remainder(a, b)) /\ Remainder(a, b) = a - b * q
  BY <1>1, Truncation
<1> HIDE DEF q
<1>3. CASE b = -1
  BY <1>2, <1>3 DEF q
<1>4. CASE b = 1
  BY <1>2, <1>4 DEF q
<1>5. b # -1 /\ b # 1 => q \in -H .. H - 1
  BY <1>2 DEF Magnitude
<1>6. Remainder(a, b) \in -H .. H - 1
  <2>1. b * q \in Int /\ a - b * q \in Int
    BY <1>1, <1>2
  <2>2. Magnitude(Remainder(a, b)) < Magnitude(b) /\ (Remainder(a, b) = 0 \/ (Remainder(a, b) < 0) = (a < 0))
    BY <1>2 DEF RemainderOf
  <2>3. Remainder(a, b) \in Int
    BY <1>2, <2>1
  <2> QED BY <2>2, <2>3 DEF Magnitude
<1> QED BY <1>2, <1>3, <1>4, <1>5, <1>6 DEF q

\* The arithmetic of the elements is that of the definition.
LEMMA ApplyComputes ==
  ASSUME NEW dtype \in {"i32", "u32", "i64"}, NEW op \in ArithmeticOps,
         NEW x \in Representable(dtype), NEW y \in Representable(dtype), op \in {"div", "mod"} => y # 0
  PROVE  Computes(dtype, op, x, y, Apply(dtype, op, x, y))
<1> DEFINE z == Apply(dtype, op, x, y)
           H == Two(Width - 1)
           G == Two(2 * Width - 1)
<1>1. /\ H \in Nat \ {0} /\ G \in Nat \ {0} /\ Two(Width) \in Nat \ {0}
      /\ Representable("i32") = -H .. H - 1 /\ Representable("u32") = 0 .. Two(Width) - 1
      /\ Representable("i64") = -G .. G - 1 /\ Signed(Width) = -H .. H - 1 /\ Signed(2 * Width) = -G .. G - 1
  BY Ranges DEF Signed
<1> HIDE DEF H, G
<1>2. x \in Int /\ y \in Int
  BY <1>1
<1>3. ~IsFloat(dtype)
  BY DEF IsFloat
<1>4. CASE op \in {"add", "sub", "mul"}
  <2>1. Exact(op, x, y) \in Int /\ z = Wrap(dtype, Exact(op, x, y))
    BY <1>2, <1>4 DEF Exact, Apply
  <2>2. z \in Representable(dtype) /\ Congruent(dtype, z, Exact(op, x, y))
    BY <2>1, WrapComputes
  <2> HIDE DEF z
  <2>3. Computes(dtype, op, x, y, z)
    BY <1>3, <1>4, <2>2 DEF Computes
  <2> QED BY <2>3 DEF z
<1>5. ASSUME op = "div", y # 0 PROVE Computes(dtype, "div", x, y, z)
  <2> DEFINE q == Quotient(x, y)
  <2>1. /\ q \in Int /\ (y = -1 => q = -x) /\ RemainderOf(x, y, Remainder(x, y)) /\ Remainder(x, y) = x - y * q
        /\ y * q = q * y
    <3>1. x \in Int /\ y \in Int \ {0}
      BY <1>2, <1>5
    <3>2. /\ q \in Int /\ (y = -1 => q = -x) /\ RemainderOf(x, y, Remainder(x, y)) /\ Remainder(x, y) = x - y * q
      BY <3>1, Truncation
    <3> HIDE DEF q
    <3> QED BY <1>2, <3>2
  <2>2. RemainderOf(x, y, x - q * y)
    BY <2>1
  <2>3. z = Divide(dtype, x, y)
    BY <1>5 DEF Apply
  <2>4. ASSUME z \in Representable(dtype),
               IF y = -1 THEN z = (IF -x \in Representable(dtype) THEN -x ELSE IF dtype = "i32" THEN 0 ELSE x)
               ELSE RemainderOf(x, y, x - z * y)
        PROVE  Computes(dtype, "div", x, y, z)
    <3> HIDE DEF z
    <3> QED BY <1>3, <2>4 DEF Computes
  <2>5. CASE dtype = "i32"
    <3>1. z = IF q \notin -H .. H - 1 THEN 0 ELSE q
      BY <1>1, <1>5, <2>3, <2>5 DEF Divide, DivNarrow, NarrowOverflows
    <3>2. q \in -H .. H - 1 <=> ~(y = -1 /\ x = -H)
      BY <1>1, <1>5, <2>5, QuotientFits
    <3> HIDE DEF q, z
    <3>3. z \in -H .. H - 1
      <4>1. 0 \in -H .. H - 1
        BY <1>1
      <4> QED BY <3>1, <4>1
    <3>4. y = -1 => z = IF -x \in -H .. H - 1 THEN -x ELSE 0
      BY <1>1, <2>1, <2>5, <3>1, <3>2
    <3>5. y # -1 => z = q
      BY <3>1, <3>2
    <3>6. Representable(dtype) = -H .. H - 1
      BY <1>1, <2>5
    <3>7. IF y = -1 THEN z = (IF -x \in -H .. H - 1 THEN -x ELSE 0) ELSE RemainderOf(x, y, x - z * y)
      BY ONLY <2>2, <3>4, <3>5
    <3>8. IF y = -1 THEN z = (IF -x \in Representable(dtype) THEN -x ELSE IF dtype = "i32" THEN 0 ELSE x)
          ELSE RemainderOf(x, y, x - z * y)
      BY ONLY <2>5, <3>6, <3>7
    <3> QED BY <2>4, <3>3, <3>6, <3>8
  <2>6. CASE dtype = "i64"
    <3>1. z = WrapSigned(2 * Width, q)
      BY <1>5, <2>3, <2>6 DEF Divide, DivWide
    <3>2. q \in -G .. G - 1 <=> ~(y = -1 /\ x = -G)
      BY <1>1, <1>5, <2>6, QuotientFits
    <3>3. 2 * Width \in Nat \ {0} /\ Two(2 * Width) = 2 * G /\ x \in -G .. G - 1
      <4>1. 2 * Width \in Nat \ {0}
        BY WidthAssumption
      <4>2. Two(2 * Width) = 2 * G
        BY Ranges DEF G
      <4>3. x \in -G .. G - 1
        BY <1>1, <2>6
      <4> QED BY <4>1, <4>2, <4>3
    <3>4. z \in -G .. G - 1 /\ (q \in -G .. G - 1 => z = q)
      <4>1. /\ WrapSigned(2 * Width, q) \in Signed(2 * Width)
            /\ q \in Signed(2 * Width) => WrapSigned(2 * Width, q) = q
        BY <2>1, <3>3, Wrapped
      <4> QED BY <1>1, <3>1, <4>1
    <3>5. y = -1 /\ x = -G => z = x
      <4> SUFFICES ASSUME y = -1, x = -G PROVE z = x
        OBVIOUS
      <4>1. q = G
        BY <1>1, <2>1
      <4>2. z = ((q + G) % (2 * G)) - G
        BY <3>1, <3>3 DEF WrapSigned, G
      <4>3. (G + G) % (2 * G) = 0
        <5>1. 2 * G \in Nat \ {0} /\ G + G \in Int /\ 1 \in Int /\ 0 \in 0 .. (2 * G) - 1 /\ G + G = ((2 * G) * 1) + 0
          BY <1>1
        <5> QED BY ONLY <5>1, DivisionUnique
      <4> QED BY <1>1, <4>1, <4>2, <4>3
    <3> HIDE DEF q, z
    <3>6. y = -1 => z = IF -x \in -G .. G - 1 THEN -x ELSE x
      BY <1>1, <2>1, <3>2, <3>3, <3>4, <3>5
    <3>7. y # -1 => z = q
      BY <3>2, <3>4
    <3> QED BY <1>1, <2>2, <2>4, <2>6, <3>4, <3>6, <3>7
  <2>7. CASE dtype = "u32"
    <3>1. x \in 0 .. Two(Width) - 1 /\ y \in 1 .. Two(Width) - 1
      BY <1>1, <1>5, <2>7
    <3>2. z = x \div y /\ q = x \div y
      BY <1>5, <2>3, <2>7, <3>1 DEF Divide, DivUnsigned, Quotient, Magnitude
    <3>3. x \div y \in 0 .. x
      <4>1. x \in Int /\ y \in Nat \ {0} /\ y >= 1 /\ x >= 0
        BY <1>1, <3>1
      <4>2. x \div y \in Int /\ x = (y * (x \div y)) + (x % y) /\ x % y \in 0 .. y - 1
        BY <4>1, Division
      <4>3. ASSUME NEW d \in Int, NEW r \in 0 .. y - 1, x = (y * d) + r PROVE d \in 0 .. x
        <5>1. ASSUME d <= -1 PROVE FALSE
          <6>1. y * d <= y * (-1)
            BY <4>1, <5>1
          <6> QED BY <4>1, <4>3, <6>1
        <5>2. d >= 0
          BY <5>1
        <5>3. d <= y * d
          BY <4>1, <5>2
        <5>4. y * d \in Int
          BY <4>1
        <5> QED BY <4>1, <4>3, <5>2, <5>3, <5>4
      <4> QED BY <4>2, <4>3
    <3> HIDE DEF q, z
    <3>4. y # -1 /\ z = q
      BY <1>1, <3>1, <3>2
    <3>5. z \in 0 .. Two(Width) - 1
      BY <1>1, <3>1, <3>2, <3>3
    <3> QED BY <1>1, <2>2, <2>4, <2>7, <3>4, <3>5
  <2> QED BY <2>5, <2>6, <2>7
<1>6. ASSUME op = "mod", y # 0 PROVE Computes(dtype, "mod", x, y, z)
  <2> DEFINE q == Quotient(x, y)
             r == Remainder(x, y)
             M == Magnitude(y)
  <2>1. q \in Int /\ r = x - y * q /\ RemainderOf(x, y, r) /\ (y * q) % M = 0 /\ (y = -1 => q = -x)
    <3>1. x \in Int /\ y \in Int \ {0}
      BY <1>2, <1>6
    <3> QED BY <3>1, Truncation
  <2>2. z = Modulo(dtype, x, y)
    BY <1>6 DEF Apply
  <2>3. ASSUME z \in Representable(dtype), z = r PROVE Computes(dtype, "mod", x, y, z)
    <3>1. (x - z) % Magnitude(y) = 0
      <4>1. x - z = y * q
        <5> HIDE DEF q, r, M, z
        <5> QED BY <1>2, <2>1, <2>3
      <4> QED BY <2>1, <4>1
    <3>2. RemainderOf(x, y, z)
      BY <2>1, <2>3
    <3> HIDE DEF z
    <3> QED BY <1>3, <2>3, <3>1, <3>2 DEF Computes
  <2>4. CASE dtype = "i32"
    <3>1. z = IF q \notin -H .. H - 1 THEN 0 ELSE r
      BY <1>1, <1>6, <2>2, <2>4 DEF Modulo, ModNarrow, NarrowOverflows
    <3>2. (q \in -H .. H - 1 <=> ~(y = -1 /\ x = -H)) /\ r \in -H .. H - 1
      BY <1>1, <1>6, <2>4, QuotientFits
    <3> HIDE DEF q, z, r
    <3>3. y = -1 => r = 0
      BY <1>2, <2>1
    <3>4. z = r
      BY <3>1, <3>2, <3>3
    <3> QED BY <1>1, <2>3, <2>4, <3>2, <3>4
  <2>5. CASE dtype = "i64"
    <3>1. z = r
      BY <1>6, <2>2, <2>5 DEF Modulo, ModWide
    <3>2. r \in -G .. G - 1
      BY <1>1, <1>6, <2>5, QuotientFits
    <3> QED BY <1>1, <2>3, <2>5, <3>1, <3>2
  <2>6. CASE dtype = "u32"
    <3>1. x \in 0 .. Two(Width) - 1 /\ y \in 1 .. Two(Width) - 1
      BY <1>1, <1>6, <2>6
    <3>2. z = x % y /\ q = x \div y
      BY <1>6, <2>2, <2>6, <3>1 DEF Modulo, ModUnsigned, Quotient, Magnitude
    <3>3. x % y \in 0 .. y - 1 /\ x = (y * (x \div y)) + (x % y) /\ x \div y \in Int
      <4>1. x \in Int /\ y \in Nat \ {0}
        BY <1>1, <3>1
      <4> QED BY <4>1, Division
    <3> HIDE DEF q, z, r
    <3>4. y * q \in Int /\ x \in Int
      BY <1>2, <2>1
    <3>5. z = r
      BY <2>1, <3>2, <3>3, <3>4
    <3>6. z \in 0 .. Two(Width) - 1
      BY <1>1, <3>1, <3>2, <3>3
    <3> QED BY <1>1, <2>3, <2>6, <3>5, <3>6
  <2> QED BY <2>4, <2>5, <2>6
<1>7. op \in {"add", "sub", "mul"} \/ (op = "div" /\ y # 0) \/ (op = "mod" /\ y # 0)
  BY DEF ArithmeticOps
<1> QED BY <1>4, <1>5, <1>6, <1>7

\* The negative of an element, and what floats give.
LEMMA NegationComputes ==
  ASSUME NEW dtype \in {"i32", "u32", "i64"}, NEW x \in Representable(dtype), NEW y
  PROVE  Computes(dtype, "neg", x, y, Wrap(dtype, -x))
<1>1. x \in Int /\ -x \in Int /\ Exact("neg", x, y) = -x /\ ~IsFloat(dtype)
  BY Ranges DEF Exact, IsFloat
<1>2. Wrap(dtype, -x) \in Representable(dtype) /\ Congruent(dtype, Wrap(dtype, -x), -x)
  BY <1>1, WrapComputes
<1> QED BY <1>1, <1>2 DEF Computes

LEMMA FloatsCompute ==
  ASSUME NEW dtype \in {"f64", "f32"}, NEW op \in {"add", "sub", "mul"}, NEW x, NEW y
  PROVE  /\ Computes(dtype, op, x, y, Apply(dtype, op, x, y))
         /\ Computes(dtype, "neg", x, y, Wrap(dtype, -x))
<1>1. IsFloat(dtype) /\ \A v : Wrap(dtype, v) = v
  BY DEF IsFloat, Wrap
<1> QED BY <1>1 DEF Computes, Exact, Apply

-----------------------------------------------------------------------------
(* Loops over elements.                                                    *)

\* Iteration k handles the rows from done[k - 1] up to done[k].
Progress(n, lanes, done) ==
  LET batches == Batches(n, lanes) IN
  /\ Len(batches) \in Nat /\ done \in [0 .. Len(batches) -> 0 .. n]
  /\ done[0] = 0 /\ done[Len(batches)] = n
  /\ \A k \in 1 .. Len(batches) :
       batches[k] = <<done[k - 1], done[k] - done[k - 1]>> /\ done[k - 1] <= done[k]

LEMMA BatchesProgress ==
  ASSUME NEW n \in Nat, NEW lanes \in Nat \ {0}
  PROVE  \E done : Progress(n, lanes, done)
<1> DEFINE groups == n \div lanes
           tail == n % lanes
           batches == Batches(n, lanes)
           L == groups + tail
           done == [k \in 0 .. L |-> IF k <= groups THEN lanes * k ELSE (lanes * groups) + (k - groups)]
<1>1. groups \in Int /\ tail \in 0 .. lanes - 1 /\ n = (lanes * groups) + tail
  BY Division
<1>2. batches = [g \in 1 .. groups |-> <<lanes * (g - 1), lanes>>] \o [t \in 1 .. tail |-> <<n - tail + t - 1, 1>>]
  BY DEF Batches
<1> HIDE DEF groups, tail, batches
<1>3. groups \in Nat /\ tail \in Nat /\ lanes * groups \in Nat
  <2>1. ASSUME groups <= -1 PROVE FALSE
    <3>1. lanes * groups <= lanes * (-1)
      BY <1>1, <2>1
    <3> QED BY <1>1, <3>1
  <2>2. groups >= 0
    BY <1>1, <2>1
  <2> QED BY <1>1, <2>2
<1>4. /\ Len(batches) = L
      /\ \A k \in 1 .. L : batches[k] = IF k <= groups THEN <<lanes * (k - 1), lanes>> ELSE <<n - tail + (k - groups) - 1, 1>>
  <2> DEFINE p == [g \in 1 .. groups |-> <<lanes * (g - 1), lanes>>]
             q == [t \in 1 .. tail |-> <<n - tail + t - 1, 1>>]
  <2>1. p \in Seq(Int \X Int) /\ Len(p) = groups /\ q \in Seq(Int \X Int) /\ Len(q) = tail
    <3>1. p \in Seq(Int \X Int) /\ Len(p) = groups
      BY <1>3
    <3>2. q \in Seq(Int \X Int) /\ Len(q) = tail
      BY <1>3
    <3> QED BY <3>1, <3>2
  <2> HIDE DEF p, q
  <2>2. Len(p \o q) = L /\ \A k \in 1 .. L : (p \o q)[k] = IF k <= groups THEN p[k] ELSE q[k - groups]
    <3>1. /\ p \o q \in Seq(Int \X Int) /\ Len(p \o q) = Len(p) + Len(q)
          /\ \A i \in 1 .. Len(p) + Len(q) : (p \o q)[i] = IF i <= Len(p) THEN p[i] ELSE q[i - Len(p)]
      BY <2>1, ConcatProperties
    <3> QED BY <2>1, <3>1
  <2>3. \A k \in 1 .. L : k <= groups => p[k] = <<lanes * (k - 1), lanes>>
    BY <1>3 DEF p
  <2>4. \A k \in 1 .. L : ~(k <= groups) => q[k - groups] = <<n - tail + (k - groups) - 1, 1>>
    BY <1>3 DEF q
  <2> QED BY <1>2, <2>2, <2>3, <2>4 DEF p, q
<1>5. done[0] = 0 /\ done[L] = n
  <2>1. done[0] = 0
    BY <1>3
  <2>2. CASE tail = 0
    BY <1>1, <1>3, <2>2
  <2>3. CASE tail # 0
    BY <1>1, <1>3, <2>3
  <2> QED BY <2>1, <2>2, <2>3
<1>6. \A k \in 0 .. L : done[k] \in 0 .. n
  <2> SUFFICES ASSUME NEW k \in 0 .. L PROVE done[k] \in 0 .. n
    OBVIOUS
  <2>1. CASE k <= groups
    <3>1. lanes * k <= lanes * groups /\ 0 <= lanes * k /\ lanes * k \in Int
      BY <1>3, <2>1
    <3> QED BY <1>1, <1>3, <2>1, <3>1
  <2>2. CASE ~(k <= groups)
    BY <1>1, <1>3, <2>2
  <2> QED BY <2>1, <2>2
<1>7. \A k \in 1 .. L : batches[k] = <<done[k - 1], done[k] - done[k - 1]>> /\ done[k - 1] <= done[k]
  <2> SUFFICES ASSUME NEW k \in 1 .. L PROVE batches[k] = <<done[k - 1], done[k] - done[k - 1]>> /\ done[k - 1] <= done[k]
    OBVIOUS
  <2>1. k \in 0 .. L /\ k - 1 \in 0 .. L
    BY <1>3
  <2>2. CASE k <= groups
    <3>1. done[k] = lanes * k /\ done[k - 1] = lanes * (k - 1)
      BY <1>3, <2>1, <2>2
    <3>2. (lanes * k) - (lanes * (k - 1)) = lanes /\ lanes * (k - 1) <= lanes * k
      <4>1. lanes * (k - 1) = (lanes * k) - lanes /\ lanes * k \in Int
        BY <1>3
      <4> QED BY <4>1
    <3> HIDE DEF done
    <3> QED BY <1>4, <2>2, <3>1, <3>2
  <2>3. CASE ~(k <= groups)
    <3>1. done[k] = (lanes * groups) + (k - groups) /\ done[k - 1] = (lanes * groups) + ((k - 1) - groups)
      <4>1. CASE k - 1 <= groups
        <5>1. k - 1 = groups
          BY <1>3, <2>3, <4>1
        <5> QED BY <1>3, <2>1, <2>3, <5>1
      <4>2. CASE ~(k - 1 <= groups)
        BY <1>3, <2>1, <2>3, <4>2
      <4> QED BY <4>1, <4>2
    <3>2. n - tail + (k - groups) - 1 = (lanes * groups) + ((k - 1) - groups)
      BY <1>1, <1>3
    <3>3. ((lanes * groups) + (k - groups)) - ((lanes * groups) + ((k - 1) - groups)) = 1
      BY <1>3
    <3> HIDE DEF done
    <3> QED BY <1>3, <1>4, <2>3, <3>1, <3>2, <3>3
  <2> QED BY <2>2, <2>3
<1>8. done \in [0 .. L -> 0 .. n]
  BY <1>6
<1> HIDE DEF done
<1>9. Progress(n, lanes, done)
  BY <1>3, <1>4, <1>5, <1>7, <1>8 DEF Progress, batches
<1> QED BY <1>9

\* The memory with the first d rows of v stored at out.
StoredAt(mem, out, v, d) == [x \in DOMAIN mem |-> IF x - out \in 0 .. d - 1 THEN v[x - out] ELSE mem[x]]

LEMMA StoresNothing ==
  ASSUME NEW mem, NEW out, NEW v, mem = [x \in DOMAIN mem |-> mem[x]] PROVE StoredAt(mem, out, v, 0) = mem
BY DEF StoredAt

\* w stores the rows from c up to d as well.
StoresAlso(w, mem, out, v, c, d) ==
  /\ w = [x \in DOMAIN mem |-> w[x]]
  /\ \A x \in DOMAIN mem : w[x] = IF x - out \in c .. d - 1 THEN v[x - out] ELSE StoredAt(mem, out, v, c)[x]

LEMMA StoresMore ==
  ASSUME NEW mem, DOMAIN mem \subseteq Int, NEW out \in Int, NEW v, NEW n \in Nat, NEW c \in 0 .. n, NEW d \in 0 .. n, c <= d,
         NEW w, StoresAlso(w, mem, out, v, c, d)
  PROVE  w = StoredAt(mem, out, v, d)
<1>0. w = [x \in DOMAIN mem |-> w[x]]
  BY DEF StoresAlso
<1>1. \A x \in DOMAIN mem : StoredAt(mem, out, v, c)[x] = IF x - out \in 0 .. c - 1 THEN v[x - out] ELSE mem[x]
  BY DEF StoredAt
<1>2. \A x \in DOMAIN mem : w[x] = IF x - out \in 0 .. d - 1 THEN v[x - out] ELSE mem[x]
  <2> SUFFICES ASSUME NEW x \in DOMAIN mem
               PROVE  w[x] = IF x - out \in 0 .. d - 1 THEN v[x - out] ELSE mem[x]
    OBVIOUS
  <2>1. x - out \in Int
    OBVIOUS
  <2>2. x - out \in 0 .. d - 1 <=> (x - out \in 0 .. c - 1 \/ x - out \in c .. d - 1)
    BY <2>1
  <2> QED BY <1>1, <2>2 DEF StoresAlso
<1> QED BY <1>0, <1>2 DEF StoredAt

\* Rows not stored yet are what they were, in the output's own buffer too.
LEMMA RowsAhead ==
  ASSUME NEW mem, DOMAIN mem \subseteq Int, NEW out \in Int, NEW v, NEW n \in Nat, NEW c \in 0 .. n,
         NEW a \in Int, Apart(a, out, n), NEW i \in 0 .. n - 1, i >= c, a + i \in DOMAIN mem
  PROVE  StoredAt(mem, out, v, c)[a + i] = mem[a + i]
<1>1. (a + i) - out \notin 0 .. c - 1
  BY DEF Apart
<1> QED BY <1>1 DEF StoredAt

LEMMA BinaryStores ==
  ASSUME NEW mem, DOMAIN mem \subseteq Int, NEW dtype, NEW out \in Int, NEW n \in Nat, NEW lanes \in Nat \ {0},
         NEW a \in Int, Apart(a, out, n), \A i \in 0 .. n - 1 : a + i \in DOMAIN mem, mem = [x \in DOMAIN mem |-> mem[x]],
         NEW op, NEW b \in Int, Apart(b, out, n), \A i \in 0 .. n - 1 : b + i \in DOMAIN mem
  PROVE  Binary(mem, dtype, op, a, b, out, n, lanes) = StoredAt(mem, out, [i \in 0 .. n - 1 |-> Apply(dtype, op, mem[a + i], mem[b + i])], n)
<1> DEFINE v == [i \in 0 .. n - 1 |-> Apply(dtype, op, mem[a + i], mem[b + i])]
           batches == Batches(n, lanes)
           L == Len(batches)
           Store(m, batch) ==
             LET part == batch[1] .. batch[1] + batch[2] - 1 IN
             [x \in DOMAIN m |-> IF x - out \in part THEN Apply(dtype, op, m[a + (x - out)], m[b + (x - out)]) ELSE m[x]]
           IsLoop(f) == f = [k \in 0 .. L |-> IF k = 0 THEN mem ELSE Store(f[k - 1], batches[k])]
           loop == CHOOSE f : IsLoop(f)
<1>1. Binary(mem, dtype, op, a, b, out, n, lanes) = loop[L]
  BY DEF Binary, Loop
<1>2. PICK done : Progress(n, lanes, done)
  BY BatchesProgress
<1>3. /\ L \in Nat /\ done \in [0 .. L -> 0 .. n] /\ done[0] = 0 /\ done[L] = n
      /\ \A k \in 1 .. L : batches[k] = <<done[k - 1], done[k] - done[k - 1]>> /\ done[k - 1] <= done[k]
  BY <1>2 DEF Progress
<1> HIDE DEF batches, L
<1>4. ASSUME NEW k \in 1 .. L
      PROVE  Store(StoredAt(mem, out, v, done[k - 1]), batches[k]) = StoredAt(mem, out, v, done[k])
  <2> DEFINE c == done[k - 1]
             d == done[k]
             m == StoredAt(mem, out, v, c)
  <2>1. c \in 0 .. n /\ d \in 0 .. n /\ c <= d /\ batches[k] = <<c, d - c>>
    BY <1>3
  <2> HIDE DEF c, d
  <2>2. batches[k][1] = c /\ batches[k][2] = d - c /\ c + (d - c) - 1 = d - 1
    BY <2>1
  <2>3. ASSUME NEW i \in c .. d - 1 PROVE Apply(dtype, op, m[a + i], m[b + i]) = v[i]
    <3>1. i \in 0 .. n - 1 /\ i >= c
      BY <2>1
    <3>2. m[a + i] = mem[a + i] /\ m[b + i] = mem[b + i]
      <4>1. a + i \in DOMAIN mem /\ b + i \in DOMAIN mem
        BY <3>1
      <4> HIDE DEF v
      <4>2. DOMAIN mem \subseteq Int /\ out \in Int /\ n \in Nat /\ c \in 0 .. n
        BY <2>1
      <4>3. a \in Int /\ Apart(a, out, n) /\ b \in Int /\ Apart(b, out, n)
        OBVIOUS
      <4>4. m[a + i] = mem[a + i]
        BY ONLY <3>1, <4>1, <4>2, <4>3, RowsAhead
      <4>5. m[b + i] = mem[b + i]
        BY ONLY <3>1, <4>1, <4>2, <4>3, RowsAhead
      <4> QED BY <4>4, <4>5
    <3> HIDE DEF m
    <3> QED BY <3>1, <3>2
  <2>4. Store(m, batches[k]) = [x \in DOMAIN m |-> IF x - out \in c .. d - 1 THEN Apply(dtype, op, m[a + (x - out)], m[b + (x - out)]) ELSE m[x]]
    <3> HIDE DEF m
    <3> QED BY <2>2
  <2>5. [x \in DOMAIN m |-> IF x - out \in c .. d - 1 THEN Apply(dtype, op, m[a + (x - out)], m[b + (x - out)]) ELSE m[x]]
          = [x \in DOMAIN m |-> IF x - out \in c .. d - 1 THEN v[x - out] ELSE m[x]]
    <3> HIDE DEF m, v
    <3> QED BY <2>3
  <2>6. [x \in DOMAIN m |-> IF x - out \in c .. d - 1 THEN v[x - out] ELSE m[x]] = StoredAt(mem, out, v, d)
    <3> DEFINE w == [x \in DOMAIN m |-> IF x - out \in c .. d - 1 THEN v[x - out] ELSE m[x]]
    <3>1. DOMAIN m = DOMAIN mem
      BY DEF StoredAt
    <3> HIDE DEF v
    <3>2. w = [x \in DOMAIN mem |-> w[x]] /\ \A x \in DOMAIN mem : w[x] = IF x - out \in c .. d - 1 THEN v[x - out] ELSE m[x]
      <4> HIDE DEF m
      <4> QED BY <3>1
    <3> HIDE DEF w
    <3>3. StoresAlso(w, mem, out, v, c, d)
      BY <3>2 DEF StoresAlso
    <3>4. w = StoredAt(mem, out, v, d)
      BY <2>1, <3>3, StoresMore
    <3> QED BY <3>4 DEF w
  <2> QED BY <2>4, <2>5, <2>6 DEF c, d
<1>5. StoredAt(mem, out, v, 0) = mem
  BY StoresNothing
<1>6. IsLoop([k \in 0 .. L |-> StoredAt(mem, out, v, done[k])])
  <2> DEFINE f == [k \in 0 .. L |-> StoredAt(mem, out, v, done[k])]
  <2>1. \A k \in 0 .. L : f[k] = IF k = 0 THEN mem ELSE Store(f[k - 1], batches[k])
    <3> SUFFICES ASSUME NEW k \in 0 .. L PROVE f[k] = IF k = 0 THEN mem ELSE Store(f[k - 1], batches[k])
      OBVIOUS
    <3>1. CASE k = 0
      BY <1>3, <1>5, <3>1
    <3>2. CASE k # 0
      <4>1. k \in 1 .. L /\ k - 1 \in 0 .. L
        BY <1>3, <3>2
      <4>2. f[k - 1] = StoredAt(mem, out, v, done[k - 1]) /\ f[k] = StoredAt(mem, out, v, done[k])
        BY <4>1
      <4> HIDE DEF Store, f
      <4> QED BY <1>4, <3>2, <4>1, <4>2
    <3> QED BY <3>1, <3>2
  <2> HIDE DEF Store
  <2> QED BY <2>1
<1>7. IsLoop(loop)
  <2>1. \E g : IsLoop(g)
    BY <1>6
  <2> HIDE DEF IsLoop
  <2> QED BY <2>1
<1> HIDE DEF loop
<1>8. \A k \in 0 .. L : loop[k] = StoredAt(mem, out, v, done[k])
  <2> DEFINE G == {k \in 0 .. L : loop[k] = StoredAt(mem, out, v, done[k])}
  <2>1. \A k \in 0 .. L : loop[k] = IF k = 0 THEN mem ELSE Store(loop[k - 1], batches[k])
    BY <1>7
  <2>2. 0 \in G
    <3>1. 0 \in 0 .. L
      BY <1>3
    <3> HIDE DEF Store, v
    <3>2. loop[0] = mem
      BY <2>1, <3>1
    <3> QED BY <1>3, <1>5, <3>1, <3>2
  <2>3. \A k \in 1 .. L : k - 1 \in G => k \in G
    <3> SUFFICES ASSUME NEW k \in 1 .. L, k - 1 \in G PROVE k \in G
      OBVIOUS
    <3>1. k \in 0 .. L /\ k # 0
      BY <1>3
    <3> HIDE DEF Store
    <3> QED BY <1>4, <2>1, <3>1
  <2> HIDE DEF G
  <2>4. \A k \in 0 .. L : k \in G
    BY <1>3, <2>2, <2>3, StepByStep
  <2> QED BY <2>4 DEF G
<1> QED BY <1>1, <1>3, <1>8

LEMMA ScalarStores ==
  ASSUME NEW mem, DOMAIN mem \subseteq Int, NEW dtype, NEW out \in Int, NEW n \in Nat, NEW lanes \in Nat \ {0},
         NEW a \in Int, Apart(a, out, n), \A i \in 0 .. n - 1 : a + i \in DOMAIN mem, mem = [x \in DOMAIN mem |-> mem[x]], NEW op, NEW s
  PROVE  BinaryScalar(mem, dtype, op, a, s, out, n, lanes) = StoredAt(mem, out, [i \in 0 .. n - 1 |-> Apply(dtype, op, mem[a + i], s)], n)
<1> DEFINE v == [i \in 0 .. n - 1 |-> Apply(dtype, op, mem[a + i], s)]
           batches == Batches(n, lanes)
           L == Len(batches)
           Store(m, batch) ==
             LET part == batch[1] .. batch[1] + batch[2] - 1 IN
             [x \in DOMAIN m |-> IF x - out \in part THEN Apply(dtype, op, m[a + (x - out)], s) ELSE m[x]]
           IsLoop(f) == f = [k \in 0 .. L |-> IF k = 0 THEN mem ELSE Store(f[k - 1], batches[k])]
           loop == CHOOSE f : IsLoop(f)
<1>1. BinaryScalar(mem, dtype, op, a, s, out, n, lanes) = loop[L]
  BY DEF BinaryScalar, Loop
<1>2. PICK done : Progress(n, lanes, done)
  BY BatchesProgress
<1>3. /\ L \in Nat /\ done \in [0 .. L -> 0 .. n] /\ done[0] = 0 /\ done[L] = n
      /\ \A k \in 1 .. L : batches[k] = <<done[k - 1], done[k] - done[k - 1]>> /\ done[k - 1] <= done[k]
  BY <1>2 DEF Progress
<1> HIDE DEF batches, L
<1>4. ASSUME NEW k \in 1 .. L
      PROVE  Store(StoredAt(mem, out, v, done[k - 1]), batches[k]) = StoredAt(mem, out, v, done[k])
  <2> DEFINE c == done[k - 1]
             d == done[k]
             m == StoredAt(mem, out, v, c)
  <2>1. c \in 0 .. n /\ d \in 0 .. n /\ c <= d /\ batches[k] = <<c, d - c>>
    BY <1>3
  <2> HIDE DEF c, d
  <2>2. batches[k][1] = c /\ batches[k][2] = d - c /\ c + (d - c) - 1 = d - 1
    BY <2>1
  <2>3. ASSUME NEW i \in c .. d - 1 PROVE Apply(dtype, op, m[a + i], s) = v[i]
    <3>1. i \in 0 .. n - 1 /\ i >= c
      BY <2>1
    <3>2. m[a + i] = mem[a + i]
      <4>1. a + i \in DOMAIN mem
        BY <3>1
      <4> HIDE DEF v
      <4> QED BY <2>1, <3>1, <4>1, RowsAhead
    <3> HIDE DEF m
    <3> QED BY <3>1, <3>2
  <2>4. Store(m, batches[k]) = [x \in DOMAIN m |-> IF x - out \in c .. d - 1 THEN Apply(dtype, op, m[a + (x - out)], s) ELSE m[x]]
    <3> HIDE DEF m
    <3> QED BY <2>2
  <2>5. [x \in DOMAIN m |-> IF x - out \in c .. d - 1 THEN Apply(dtype, op, m[a + (x - out)], s) ELSE m[x]]
          = [x \in DOMAIN m |-> IF x - out \in c .. d - 1 THEN v[x - out] ELSE m[x]]
    <3> HIDE DEF m, v
    <3> QED BY <2>3
  <2>6. [x \in DOMAIN m |-> IF x - out \in c .. d - 1 THEN v[x - out] ELSE m[x]] = StoredAt(mem, out, v, d)
    <3> DEFINE w == [x \in DOMAIN m |-> IF x - out \in c .. d - 1 THEN v[x - out] ELSE m[x]]
    <3>1. DOMAIN m = DOMAIN mem
      BY DEF StoredAt
    <3> HIDE DEF v
    <3>2. w = [x \in DOMAIN mem |-> w[x]] /\ \A x \in DOMAIN mem : w[x] = IF x - out \in c .. d - 1 THEN v[x - out] ELSE m[x]
      <4> HIDE DEF m
      <4> QED BY <3>1
    <3> HIDE DEF w
    <3>3. StoresAlso(w, mem, out, v, c, d)
      BY <3>2 DEF StoresAlso
    <3>4. w = StoredAt(mem, out, v, d)
      BY <2>1, <3>3, StoresMore
    <3> QED BY <3>4 DEF w
  <2> QED BY <2>4, <2>5, <2>6 DEF c, d
<1>5. StoredAt(mem, out, v, 0) = mem
  BY StoresNothing
<1>6. IsLoop([k \in 0 .. L |-> StoredAt(mem, out, v, done[k])])
  <2> DEFINE f == [k \in 0 .. L |-> StoredAt(mem, out, v, done[k])]
  <2>1. \A k \in 0 .. L : f[k] = IF k = 0 THEN mem ELSE Store(f[k - 1], batches[k])
    <3> SUFFICES ASSUME NEW k \in 0 .. L PROVE f[k] = IF k = 0 THEN mem ELSE Store(f[k - 1], batches[k])
      OBVIOUS
    <3>1. CASE k = 0
      BY <1>3, <1>5, <3>1
    <3>2. CASE k # 0
      <4>1. k \in 1 .. L /\ k - 1 \in 0 .. L
        BY <1>3, <3>2
      <4>2. f[k - 1] = StoredAt(mem, out, v, done[k - 1]) /\ f[k] = StoredAt(mem, out, v, done[k])
        BY <4>1
      <4> HIDE DEF Store, f
      <4> QED BY <1>4, <3>2, <4>1, <4>2
    <3> QED BY <3>1, <3>2
  <2> HIDE DEF Store
  <2> QED BY <2>1
<1>7. IsLoop(loop)
  <2>1. \E g : IsLoop(g)
    BY <1>6
  <2> HIDE DEF IsLoop
  <2> QED BY <2>1
<1> HIDE DEF loop
<1>8. \A k \in 0 .. L : loop[k] = StoredAt(mem, out, v, done[k])
  <2> DEFINE G == {k \in 0 .. L : loop[k] = StoredAt(mem, out, v, done[k])}
  <2>1. \A k \in 0 .. L : loop[k] = IF k = 0 THEN mem ELSE Store(loop[k - 1], batches[k])
    BY <1>7
  <2>2. 0 \in G
    <3>1. 0 \in 0 .. L
      BY <1>3
    <3> HIDE DEF Store, v
    <3>2. loop[0] = mem
      BY <2>1, <3>1
    <3> QED BY <1>3, <1>5, <3>1, <3>2
  <2>3. \A k \in 1 .. L : k - 1 \in G => k \in G
    <3> SUFFICES ASSUME NEW k \in 1 .. L, k - 1 \in G PROVE k \in G
      OBVIOUS
    <3>1. k \in 0 .. L /\ k # 0
      BY <1>3
    <3> HIDE DEF Store
    <3> QED BY <1>4, <2>1, <3>1
  <2> HIDE DEF G
  <2>4. \A k \in 0 .. L : k \in G
    BY <1>3, <2>2, <2>3, StepByStep
  <2> QED BY <2>4 DEF G
<1> QED BY <1>1, <1>3, <1>8

LEMMA NegateStores ==
  ASSUME NEW mem, DOMAIN mem \subseteq Int, NEW dtype, NEW out \in Int, NEW n \in Nat, NEW lanes \in Nat \ {0},
         NEW a \in Int, Apart(a, out, n), \A i \in 0 .. n - 1 : a + i \in DOMAIN mem, mem = [x \in DOMAIN mem |-> mem[x]]
  PROVE  Negate(mem, dtype, a, out, n, lanes) = StoredAt(mem, out, [i \in 0 .. n - 1 |-> Wrap(dtype, -mem[a + i])], n)
<1> DEFINE v == [i \in 0 .. n - 1 |-> Wrap(dtype, -mem[a + i])]
           batches == Batches(n, lanes)
           L == Len(batches)
           Store(m, batch) ==
             LET part == batch[1] .. batch[1] + batch[2] - 1 IN
             [x \in DOMAIN m |-> IF x - out \in part THEN Wrap(dtype, -m[a + (x - out)]) ELSE m[x]]
           IsLoop(f) == f = [k \in 0 .. L |-> IF k = 0 THEN mem ELSE Store(f[k - 1], batches[k])]
           loop == CHOOSE f : IsLoop(f)
<1>1. Negate(mem, dtype, a, out, n, lanes) = loop[L]
  BY DEF Negate, Loop
<1>2. PICK done : Progress(n, lanes, done)
  BY BatchesProgress
<1>3. /\ L \in Nat /\ done \in [0 .. L -> 0 .. n] /\ done[0] = 0 /\ done[L] = n
      /\ \A k \in 1 .. L : batches[k] = <<done[k - 1], done[k] - done[k - 1]>> /\ done[k - 1] <= done[k]
  BY <1>2 DEF Progress
<1> HIDE DEF batches, L
<1>4. ASSUME NEW k \in 1 .. L
      PROVE  Store(StoredAt(mem, out, v, done[k - 1]), batches[k]) = StoredAt(mem, out, v, done[k])
  <2> DEFINE c == done[k - 1]
             d == done[k]
             m == StoredAt(mem, out, v, c)
  <2>1. c \in 0 .. n /\ d \in 0 .. n /\ c <= d /\ batches[k] = <<c, d - c>>
    BY <1>3
  <2> HIDE DEF c, d
  <2>2. batches[k][1] = c /\ batches[k][2] = d - c /\ c + (d - c) - 1 = d - 1
    BY <2>1
  <2>3. ASSUME NEW i \in c .. d - 1 PROVE Wrap(dtype, -m[a + i]) = v[i]
    <3>1. i \in 0 .. n - 1 /\ i >= c
      BY <2>1
    <3>2. m[a + i] = mem[a + i]
      <4>1. a + i \in DOMAIN mem
        BY <3>1
      <4> HIDE DEF v
      <4> QED BY <2>1, <3>1, <4>1, RowsAhead
    <3> HIDE DEF m
    <3> QED BY <3>1, <3>2
  <2>4. Store(m, batches[k]) = [x \in DOMAIN m |-> IF x - out \in c .. d - 1 THEN Wrap(dtype, -m[a + (x - out)]) ELSE m[x]]
    <3> HIDE DEF m
    <3> QED BY <2>2
  <2>5. [x \in DOMAIN m |-> IF x - out \in c .. d - 1 THEN Wrap(dtype, -m[a + (x - out)]) ELSE m[x]]
          = [x \in DOMAIN m |-> IF x - out \in c .. d - 1 THEN v[x - out] ELSE m[x]]
    <3> HIDE DEF m, v
    <3> QED BY <2>3
  <2>6. [x \in DOMAIN m |-> IF x - out \in c .. d - 1 THEN v[x - out] ELSE m[x]] = StoredAt(mem, out, v, d)
    <3> DEFINE w == [x \in DOMAIN m |-> IF x - out \in c .. d - 1 THEN v[x - out] ELSE m[x]]
    <3>1. DOMAIN m = DOMAIN mem
      BY DEF StoredAt
    <3> HIDE DEF v
    <3>2. w = [x \in DOMAIN mem |-> w[x]] /\ \A x \in DOMAIN mem : w[x] = IF x - out \in c .. d - 1 THEN v[x - out] ELSE m[x]
      <4> HIDE DEF m
      <4> QED BY <3>1
    <3> HIDE DEF w
    <3>3. StoresAlso(w, mem, out, v, c, d)
      BY <3>2 DEF StoresAlso
    <3>4. w = StoredAt(mem, out, v, d)
      BY <2>1, <3>3, StoresMore
    <3> QED BY <3>4 DEF w
  <2> QED BY <2>4, <2>5, <2>6 DEF c, d
<1>5. StoredAt(mem, out, v, 0) = mem
  BY StoresNothing
<1>6. IsLoop([k \in 0 .. L |-> StoredAt(mem, out, v, done[k])])
  <2> DEFINE f == [k \in 0 .. L |-> StoredAt(mem, out, v, done[k])]
  <2>1. \A k \in 0 .. L : f[k] = IF k = 0 THEN mem ELSE Store(f[k - 1], batches[k])
    <3> SUFFICES ASSUME NEW k \in 0 .. L PROVE f[k] = IF k = 0 THEN mem ELSE Store(f[k - 1], batches[k])
      OBVIOUS
    <3>1. CASE k = 0
      BY <1>3, <1>5, <3>1
    <3>2. CASE k # 0
      <4>1. k \in 1 .. L /\ k - 1 \in 0 .. L
        BY <1>3, <3>2
      <4>2. f[k - 1] = StoredAt(mem, out, v, done[k - 1]) /\ f[k] = StoredAt(mem, out, v, done[k])
        BY <4>1
      <4> HIDE DEF Store, f
      <4> QED BY <1>4, <3>2, <4>1, <4>2
    <3> QED BY <3>1, <3>2
  <2> HIDE DEF Store
  <2> QED BY <2>1
<1>7. IsLoop(loop)
  <2>1. \E g : IsLoop(g)
    BY <1>6
  <2> HIDE DEF IsLoop
  <2> QED BY <2>1
<1> HIDE DEF loop
<1>8. \A k \in 0 .. L : loop[k] = StoredAt(mem, out, v, done[k])
  <2> DEFINE G == {k \in 0 .. L : loop[k] = StoredAt(mem, out, v, done[k])}
  <2>1. \A k \in 0 .. L : loop[k] = IF k = 0 THEN mem ELSE Store(loop[k - 1], batches[k])
    BY <1>7
  <2>2. 0 \in G
    <3>1. 0 \in 0 .. L
      BY <1>3
    <3> HIDE DEF Store, v
    <3>2. loop[0] = mem
      BY <2>1, <3>1
    <3> QED BY <1>3, <1>5, <3>1, <3>2
  <2>3. \A k \in 1 .. L : k - 1 \in G => k \in G
    <3> SUFFICES ASSUME NEW k \in 1 .. L, k - 1 \in G PROVE k \in G
      OBVIOUS
    <3>1. k \in 0 .. L /\ k # 0
      BY <1>3
    <3> HIDE DEF Store
    <3> QED BY <1>4, <2>1, <3>1
  <2> HIDE DEF G
  <2>4. \A k \in 0 .. L : k \in G
    BY <1>3, <2>2, <2>3, StepByStep
  <2> QED BY <2>4 DEF G
<1> QED BY <1>1, <1>3, <1>8

-----------------------------------------------------------------------------
(* Arithmetic.                                                             *)

\* A row of a result is valid where both validities say so.
LEMMA CombinedBits ==
  ASSUME NEW a, NEW b, NEW n \in Nat, NEW i \in 0 .. n - 1
  PROVE  Bit(CombineValidity(a, b, n), i) <=> Bit(a, i) /\ Bit(b, i)
<1> DEFINE both == ValidityAnd(a, b, n)
<1>1. i \div 8 \in 0 .. BytesFor(n) - 1
  BY BytesOfRows
<1>2. i \div 8 \in DOMAIN both /\ both[i \div 8] = a[i \div 8] \cap b[i \div 8]
  BY <1>1 DEF ValidityAnd
<1>3. both # << >>
  <2>1. DOMAIN << >> = {}
    OBVIOUS
  <2> QED BY <1>2, <2>1
<1> HIDE DEF both
<1>4. CombineValidity(a, b, n) = IF a = NullPtr THEN b ELSE IF b = NullPtr THEN a ELSE both
  BY DEF CombineValidity, both
<1> QED BY <1>2, <1>3, <1>4 DEF Bit, NullPtr

\* The mask of the divisors.
LEMMA DivisorBits ==
  ASSUME NEW dtype, NEW mem, NEW at \in Int, NEW n \in Nat, NEW i \in 0 .. n - 1,
         \A j \in 0 .. n - 1 : mem[at + j] \in Int
  PROVE  Bit(NonZeroMask(dtype, mem, at, n), i) <=> mem[at + i] # 0
<1> DEFINE nonZero == {j \in 0 .. n - 1 : Compare("ne", mem[at + j], 0)}
           blank == [k \in 0 .. BytesFor(n) - 1 |-> {}]
           mask == NonZeroMask(dtype, mem, at, n)
           k == i \div 8
<1>1. \A j \in 0 .. n - 1 : j \in nonZero <=> mem[at + j] # 0
  <2> SUFFICES ASSUME NEW j \in 0 .. n - 1 PROVE Compare("ne", mem[at + j], 0) <=> mem[at + j] # 0
    OBVIOUS
  <2>1. PosInf \in Nat \ {0} /\ NaN = PosInf + 1
    BY PosInfAssumption DEF NaN
  <2> QED BY <2>1 DEF Compare, AtMost
<1>2. k \in 0 .. BytesFor(n) - 1 /\ i % 8 \in 0 .. 7 /\ 8 * k + (i % 8) = i
  BY BytesOfRows
<1>3. mask = IF dtype = "i64" THEN MaskOfWide(nonZero, n, blank)
             ELSE IF dtype = "i32" THEN MaskOfNarrow(nonZero, n, blank)
             ELSE MaskOfScalar(nonZero, n, blank)
  BY DEF NonZeroMask
<1> HIDE DEF nonZero
<1>4. DOMAIN blank = 0 .. BytesFor(n) - 1 /\ DOMAIN blank \subseteq Nat /\ k \in DOMAIN blank /\ k < BytesFor(n)
  <2>1. BytesFor(n) \in Nat
    BY DEF BytesFor
  <2> QED BY <1>2, <2>1
<1> HIDE DEF blank
<1>5. /\ MaskOfWide(nonZero, n, blank)[k] = RowBits(nonZero, n, k)
      /\ MaskOfNarrow(nonZero, n, blank)[k] = RowBits(nonZero, n, k)
      /\ MaskOfScalar(nonZero, n, blank)[k] = RowBits(nonZero, n, k)
  BY <1>4, MaskBytes
<1>6. /\ DOMAIN MaskOfWide(nonZero, n, blank) = DOMAIN blank /\ DOMAIN MaskOfNarrow(nonZero, n, blank) = DOMAIN blank
      /\ DOMAIN MaskOfScalar(nonZero, n, blank) = DOMAIN blank
  BY DEF MaskOfWide, MaskOfNarrow, MaskOfScalar, MaskOf
<1> HIDE DEF mask
<1>7. mask[k] = RowBits(nonZero, n, k) /\ DOMAIN mask = DOMAIN blank
  BY <1>3, <1>5, <1>6
<1>8. mask # << >>
  <2>1. DOMAIN << >> = {}
    OBVIOUS
  <2> QED BY <1>4, <1>7, <2>1
<1>9. Bit(mask, i) <=> i % 8 \in RowBits(nonZero, n, k)
  BY <1>7, <1>8 DEF Bit, NullPtr
<1>10. i % 8 \in RowBits(nonZero, n, k) <=> i \in nonZero
  BY <1>2 DEF RowBits
<1> QED BY <1>1, <1>9, <1>10 DEF mask

\* What one row of an operation gives.
LEMMA RowComputes ==
  ASSUME NEW dtype \in {"i32", "u32", "i64", "f64", "f32"}, NEW op \in ArithmeticOps,
         IsFloat(dtype) => op \in {"add", "sub", "mul"},
         NEW x, NEW y, ~IsFloat(dtype) => x \in Representable(dtype) /\ y \in Representable(dtype),
         op \in {"div", "mod"} => y # 0
  PROVE  Computes(dtype, op, x, y, Apply(dtype, op, x, y))
<1>1. CASE IsFloat(dtype)
  <2>1. dtype \in {"f64", "f32"} /\ op \in {"add", "sub", "mul"}
    BY <1>1 DEF IsFloat
  <2> QED BY <2>1, FloatsCompute
<1>2. CASE ~IsFloat(dtype)
  <2>1. dtype \in {"i32", "u32", "i64"}
    BY <1>2 DEF IsFloat
  <2> QED BY <1>2, <2>1, ApplyComputes
<1> QED BY <1>1, <1>2

LEMMA StoredRows ==
  ASSUME NEW mem, DOMAIN mem \subseteq Int, NEW out \in Int, NEW v, NEW n \in Nat, \A i \in 0 .. n - 1 : out + i \in DOMAIN mem
  PROVE  /\ \A i \in 0 .. n - 1 : StoredAt(mem, out, v, n)[out + i] = v[i]
         /\ \A a \in DOMAIN mem : a - out \notin 0 .. n - 1 => StoredAt(mem, out, v, n)[a] = mem[a]
<1>1. ASSUME NEW i \in 0 .. n - 1 PROVE StoredAt(mem, out, v, n)[out + i] = v[i]
  <2>1. (out + i) - out = i /\ out + i \in DOMAIN mem
    OBVIOUS
  <2> QED BY <2>1 DEF StoredAt
<1>2. ASSUME NEW a \in DOMAIN mem, a - out \notin 0 .. n - 1 PROVE StoredAt(mem, out, v, n)[a] = mem[a]
  BY <1>2 DEF StoredAt
<1> QED BY <1>1, <1>2

LEMMA BitTruth == ASSUME NEW vp, NEW i, NEW t \in BOOLEAN, Bit(vp, i) <=> t PROVE Bit(vp, i) = t
BY DEF Bit

\* Arithmetic gives each row the exact result, wrapped to its width, and a null where an
\* operand is null or a divisor is 0, for every width, number of rows, number of lanes and
\* layout of the buffers, the result in an operand's own among them, and touches no other
\* element (arithVec, arithScalar and evalNeg of compile.ts, elementwise.rs).
THEOREM ArithmeticOfRows == Spec => []ArithmeticExact
<1>1. Computed => ArithmeticExact
  <2> SUFFICES ASSUME Computed, Ran({"arithmetic", "scalar", "negate"}) PROVE ArithmeticExact
    BY DEF ArithmeticExact
  <2> DEFINE n == call.n
             mem == call.mem
             dtype == call.dtype
             op == IF call.kind = "negate" THEN "neg" ELSE call.op
             x(i) == call.mem[call.l.at + i]
             y(i) == CASE call.kind = "arithmetic" -> call.mem[call.r.at + i]
                       [] call.kind = "scalar" -> call.s
                       [] OTHER -> 1
             known(i) == /\ Bit(call.l.vp, i)
                         /\ call.kind = "arithmetic" => Bit(call.r.vp, i)
                         /\ call.kind = "scalar" => call.s # NoScalar
             defined(i) == known(i) /\ (op \in {"div", "mod"} => y(i) # 0)
             rowsOf == 0 .. n - 1
             buffers == {call.l.at, call.r.at, call.fresh}
  <2>1. /\ dtype \in {"i32", "u32", "i64", "f64", "f32"} /\ call.op \in ArithmeticOps
        /\ IsFloat(dtype) => call.op \in {"add", "sub", "mul"}
        /\ n \in Nat /\ call.lanes \in Nat \ {0}
        /\ DOMAIN mem \subseteq Int /\ mem \in [DOMAIN mem -> Int]
        /\ buffers \subseteq Int
        /\ \A a, b \in buffers : Apart(a, b, n)
        /\ \A a \in buffers, i \in rowsOf :
             a + i \in DOMAIN mem /\ (~IsFloat(dtype) => mem[a + i] \in Representable(dtype))
        /\ call.kind = "scalar" /\ ~IsFloat(dtype) => call.s = NoScalar \/ call.s \in Representable(dtype)
    BY CallsAssumption DEF Computed, Ran, ArithmeticOps
  <2>2. mem = [a \in DOMAIN mem |-> mem[a]] /\ \A a \in buffers, i \in rowsOf : mem[a + i] \in Int
    BY <2>1
  <2>3. ASSUME NEW out \in buffers, NEW v, result.out = out, result.mem = StoredAt(mem, out, v, n),
               \A i \in rowsOf : Bit(result.vp, i) = defined(i) /\ (defined(i) => Computes(dtype, op, x(i), y(i), v[i]))
        PROVE  ArithmeticExact
    <3>1. \A i \in rowsOf : result.mem[result.out + i] = v[i]
      BY <2>1, <2>3, StoredRows
    <3>2. \A a \in DOMAIN mem : a - result.out \notin rowsOf => result.mem[a] = mem[a]
      BY <2>1, <2>3, StoredRows
    <3> QED BY <2>3, <3>1, <3>2 DEF ArithmeticExact
  <2>4. CASE call.kind = "arithmetic"
    <3> DEFINE out == IF call.l.owns THEN call.l.at ELSE IF call.r.owns THEN call.r.at ELSE call.fresh
               v == [i \in 0 .. n - 1 |-> Apply(dtype, call.op, mem[call.l.at + i], mem[call.r.at + i])]
               divisors == IF call.op \in {"div", "mod"} /\ ~IsFloat(dtype) THEN NonZeroMask(dtype, mem, call.r.at, n) ELSE NullPtr
    <3>1. /\ result.out = out /\ result.mem = Binary(mem, dtype, call.op, call.l.at, call.r.at, out, n, call.lanes)
          /\ result.vp = CombineValidity(CombineValidity(call.l.vp, call.r.vp, n), divisors, n)
      BY <2>4 DEF Computed, Ran, ArithVec
    <3>2. out \in buffers
      OBVIOUS
    <3> HIDE DEF out
    <3>3. result.mem = StoredAt(mem, out, v, n)
      <4>1. /\ DOMAIN mem \subseteq Int /\ out \in Int /\ n \in Nat /\ call.lanes \in Nat \ {0}
            /\ call.l.at \in Int /\ Apart(call.l.at, out, n) /\ (\A i \in 0 .. n - 1 : call.l.at + i \in DOMAIN mem)
            /\ call.r.at \in Int /\ Apart(call.r.at, out, n) /\ (\A i \in 0 .. n - 1 : call.r.at + i \in DOMAIN mem)
            /\ mem = [a \in DOMAIN mem |-> mem[a]]
        BY <2>1, <2>2, <3>2
      <4>2. Binary(mem, dtype, call.op, call.l.at, call.r.at, out, n, call.lanes) = StoredAt(mem, out, v, n)
        BY ONLY <4>1, BinaryStores, SMTT(30)
      <4> QED BY <3>1, <4>2
    <3>4. ASSUME NEW i \in rowsOf PROVE Bit(result.vp, i) = defined(i)
      <4>1. Bit(result.vp, i) <=> (Bit(call.l.vp, i) /\ Bit(call.r.vp, i)) /\ Bit(divisors, i)
        <5> HIDE DEF divisors
        <5> QED BY <2>1, <3>1, CombinedBits
      <4>2. Bit(divisors, i) <=> (call.op \in {"div", "mod"} => mem[call.r.at + i] # 0)
        <5>1. CASE call.op \in {"div", "mod"}
          <6>1. divisors = NonZeroMask(dtype, mem, call.r.at, n)
            BY <2>1, <5>1
          <6>2. \A j \in 0 .. n - 1 : mem[call.r.at + j] \in Int
            BY <2>2
          <6>3. call.r.at \in Int
            BY <2>1
          <6> QED BY <2>1, <5>1, <6>1, <6>2, <6>3, DivisorBits
        <5>2. CASE call.op \notin {"div", "mod"}
          BY <5>2 DEF Bit
        <5> QED BY <5>1, <5>2
      <4>3. Bit(result.vp, i) <=> defined(i)
        BY <2>4, <4>1, <4>2
      <4> QED BY <4>3, BitTruth
    <3>5. ASSUME NEW i \in rowsOf, defined(i) PROVE Computes(dtype, op, x(i), y(i), v[i])
      <4>1. v[i] = Apply(dtype, call.op, mem[call.l.at + i], mem[call.r.at + i])
        OBVIOUS
      <4>2. op = call.op /\ x(i) = mem[call.l.at + i] /\ y(i) = mem[call.r.at + i] /\ (call.op \in {"div", "mod"} => mem[call.r.at + i] # 0)
        BY <2>4, <3>5
      <4>3. ~IsFloat(dtype) => mem[call.l.at + i] \in Representable(dtype) /\ mem[call.r.at + i] \in Representable(dtype)
        BY <2>1
      <4> HIDE DEF x, y, v, op
      <4> QED BY <2>1, <4>1, <4>2, <4>3, RowComputes
    <3> HIDE DEF v, defined, x, y, op
    <3> QED BY <2>3, <3>1, <3>2, <3>3, <3>4, <3>5
  <2>5. CASE call.kind = "scalar"
    <3> DEFINE out == IF call.l.owns THEN call.l.at ELSE call.fresh
               allNull == call.s = NoScalar \/ (~IsFloat(dtype) /\ call.op \in {"div", "mod"} /\ call.s = 0)
    <3>1. result = IF allNull
                   THEN [mem |-> [a \in DOMAIN mem |-> IF a - out \in 0 .. n - 1 THEN 0 ELSE mem[a]], out |-> out,
                         vp |-> [k \in 0 .. BytesFor(n) - 1 |-> {}]]
                   ELSE [mem |-> BinaryScalar(mem, dtype, call.op, call.l.at, call.s, out, n, call.lanes), out |-> out, vp |-> call.l.vp]
      BY <2>5 DEF Computed, Ran, ArithScalar
    <3>2. out \in buffers
      OBVIOUS
    <3>3. op = call.op /\ \A i \in rowsOf : y(i) = call.s /\ (defined(i) <=> Bit(call.l.vp, i) /\ ~allNull)
      BY <2>1, <2>5
    <3> HIDE DEF out
    <3>4. CASE allNull
      <4> DEFINE v == [i \in 0 .. n - 1 |-> 0]
      <4>1. result.out = out /\ result.vp = [k \in 0 .. BytesFor(n) - 1 |-> {}]
            /\ result.mem = [a \in DOMAIN mem |-> IF a - out \in 0 .. n - 1 THEN 0 ELSE mem[a]]
        <5> HIDE DEF allNull
        <5> QED BY <3>1, <3>4
      <4>2. result.mem = StoredAt(mem, out, v, n)
        BY <4>1 DEF StoredAt
      <4>3. ASSUME NEW i \in rowsOf PROVE ~Bit(result.vp, i)
        <5>1. i \div 8 \in 0 .. BytesFor(n) - 1
          BY <2>1, BytesOfRows
        <5>2. i \div 8 \in DOMAIN result.vp /\ result.vp[i \div 8] = {}
          BY <4>1, <5>1
        <5>3. result.vp # << >>
          <6>1. DOMAIN << >> = {}
            OBVIOUS
          <6> QED BY <5>2, <6>1
        <5> QED BY <5>2, <5>3 DEF Bit, NullPtr
      <4>4. \A i \in rowsOf : Bit(result.vp, i) = defined(i) /\ ~defined(i)
        <5> SUFFICES ASSUME NEW i \in rowsOf PROVE Bit(result.vp, i) = defined(i) /\ ~defined(i)
          OBVIOUS
        <5>1. ~defined(i) /\ ~Bit(result.vp, i)
          BY <3>3, <3>4, <4>3
        <5>2. Bit(result.vp, i) <=> defined(i)
          BY <5>1
        <5>3. Bit(result.vp, i) = defined(i)
          BY <5>2, BitTruth
        <5> QED BY <5>1, <5>3
      <4> HIDE DEF v, defined, x, y, op, allNull
      <4> QED BY <2>3, <3>2, <4>1, <4>2, <4>4
    <3>5. CASE ~allNull
      <4> DEFINE v == [i \in 0 .. n - 1 |-> Apply(dtype, call.op, mem[call.l.at + i], call.s)]
      <4>1. result.out = out /\ result.vp = call.l.vp
            /\ result.mem = BinaryScalar(mem, dtype, call.op, call.l.at, call.s, out, n, call.lanes)
        <5> HIDE DEF allNull
        <5> QED BY <3>1, <3>5
      <4>2. result.mem = StoredAt(mem, out, v, n)
        <5>1. /\ DOMAIN mem \subseteq Int /\ out \in Int /\ n \in Nat /\ call.lanes \in Nat \ {0}
              /\ call.l.at \in Int /\ Apart(call.l.at, out, n) /\ (\A i \in 0 .. n - 1 : call.l.at + i \in DOMAIN mem)
              /\ mem = [a \in DOMAIN mem |-> mem[a]]
          BY <2>1, <2>2, <3>2
        <5> QED BY <4>1, <5>1, ScalarStores
      <4>3. \A i \in rowsOf : Bit(result.vp, i) = defined(i)
        <5> SUFFICES ASSUME NEW i \in rowsOf PROVE Bit(result.vp, i) = defined(i)
          OBVIOUS
        <5>1. Bit(result.vp, i) <=> defined(i)
          BY <3>3, <3>5, <4>1
        <5> QED BY <5>1, BitTruth
      <4>4. ASSUME NEW i \in rowsOf PROVE Computes(dtype, op, x(i), y(i), v[i])
        <5>1. v[i] = Apply(dtype, call.op, mem[call.l.at + i], call.s) /\ x(i) = mem[call.l.at + i]
          OBVIOUS
        <5>2. ~IsFloat(dtype) => mem[call.l.at + i] \in Representable(dtype) /\ call.s \in Representable(dtype)
          BY <2>1, <2>5, <3>5
        <5>3. call.op \in {"div", "mod"} => call.s # 0
          BY <2>1, <3>5
        <5> HIDE DEF x, y, v, op
        <5> QED BY <2>1, <3>3, <5>1, <5>2, <5>3, RowComputes
      <4> HIDE DEF v, defined, x, y, op, allNull
      <4> QED BY <2>3, <3>2, <4>1, <4>2, <4>3, <4>4
    <3> QED BY <3>4, <3>5
  <2>6. CASE call.kind = "negate"
    <3> DEFINE out == IF call.l.owns THEN call.l.at ELSE call.fresh
               v == [i \in 0 .. n - 1 |-> Wrap(dtype, -mem[call.l.at + i])]
    <3>1. result.out = out /\ result.vp = call.l.vp /\ result.mem = Negate(mem, dtype, call.l.at, out, n, call.lanes)
      BY <2>6 DEF Computed, Ran
    <3>2. out \in buffers
      OBVIOUS
    <3> HIDE DEF out
    <3>3. result.mem = StoredAt(mem, out, v, n)
      <4>1. /\ DOMAIN mem \subseteq Int /\ out \in Int /\ n \in Nat /\ call.lanes \in Nat \ {0}
            /\ call.l.at \in Int /\ Apart(call.l.at, out, n) /\ (\A i \in 0 .. n - 1 : call.l.at + i \in DOMAIN mem)
            /\ mem = [a \in DOMAIN mem |-> mem[a]]
        BY <2>1, <2>2, <3>2
      <4> QED BY <3>1, <4>1, NegateStores
    <3>4. op = "neg" /\ \A i \in rowsOf : defined(i) <=> Bit(call.l.vp, i)
      BY <2>6
    <3>5. \A i \in rowsOf : Bit(result.vp, i) = defined(i)
      <4> SUFFICES ASSUME NEW i \in rowsOf PROVE Bit(result.vp, i) = defined(i)
        OBVIOUS
      <4>1. Bit(result.vp, i) <=> defined(i)
        BY <3>1, <3>4
      <4> QED BY <4>1, BitTruth
    <3>6. ASSUME NEW i \in rowsOf PROVE Computes(dtype, "neg", x(i), y(i), v[i])
      <4>1. v[i] = Wrap(dtype, -mem[call.l.at + i]) /\ x(i) = mem[call.l.at + i]
        OBVIOUS
      <4>2. ~IsFloat(dtype) => mem[call.l.at + i] \in Representable(dtype)
        BY <2>1
      <4> HIDE DEF x, y, v
      <4>3. CASE dtype \in {"f64", "f32"}
        BY <4>1, <4>3, FloatsCompute
      <4>4. CASE dtype \in {"i32", "u32", "i64"}
        <5>1. ~IsFloat(dtype)
          BY <4>4 DEF IsFloat
        <5> QED BY <4>1, <4>2, <4>4, <5>1, NegationComputes
      <4> QED BY <2>1, <4>3, <4>4
    <3> HIDE DEF v, defined, x, y, op
    <3> QED BY <2>3, <3>1, <3>2, <3>3, <3>4, <3>5, <3>6
  <2> QED BY <2>4, <2>5, <2>6 DEF Ran
<1> QED BY <1>1, AlwaysComputed, PTL

-----------------------------------------------------------------------------
(* Casts.                                                                  *)

LEMMA PowersMultiply ==
  ASSUME NEW a \in Nat, NEW b \in Nat
  PROVE  Two(a + b) = Two(a) * Two(b)
<1> DEFINE G == {k \in 0 .. b : Two(a + k) = Two(a) * Two(k)}
<1>1. \A k \in 0 .. b : Two(k) \in Nat \ {0} /\ Two(a + k) \in Nat \ {0} /\ Two(k + 1) = 2 * Two(k) /\ Two((a + k) + 1) = 2 * Two(a + k)
  <2> SUFFICES ASSUME NEW k \in 0 .. b
               PROVE  Two(k) \in Nat \ {0} /\ Two(a + k) \in Nat \ {0} /\ Two(k + 1) = 2 * Two(k) /\ Two((a + k) + 1) = 2 * Two(a + k)
    OBVIOUS
  <2>1. k \in Nat /\ a + k \in Nat
    OBVIOUS
  <2> QED BY <2>1, Powers
<1>2. Two(0) = 1 /\ Two(a) \in Nat \ {0} /\ a + 0 = a
  BY Powers
<1>3. 0 \in G
  BY <1>2
<1>4. \A k \in 1 .. b : k - 1 \in G => k \in G
  <2> SUFFICES ASSUME NEW k \in 1 .. b, k - 1 \in G PROVE k \in G
    OBVIOUS
  <2>1. k - 1 \in 0 .. b /\ (k - 1) + 1 = k /\ (a + (k - 1)) + 1 = a + k
    OBVIOUS
  <2>2. Two(a + (k - 1)) = Two(a) * Two(k - 1)
    OBVIOUS
  <2>3. Two(k) = 2 * Two(k - 1) /\ Two(a + k) = 2 * Two(a + (k - 1)) /\ Two(k - 1) \in Nat
    BY <1>1, <2>1
  <2>4. 2 * (Two(a) * Two(k - 1)) = Two(a) * (2 * Two(k - 1))
    BY <1>2, <2>3
  <2>5. Two(a + k) = Two(a) * Two(k)
    BY <2>2, <2>3, <2>4
  <2> QED BY <2>5
<1> HIDE DEF G
<1>5. \A k \in 0 .. b : k \in G
  BY <1>3, <1>4, StepByStep
<1> QED BY <1>5 DEF G

\* The bounds of the types, H that of i32 and W that of i64.
LEMMA Bounds ==
  /\ Two(Width - 1) \in Nat /\ Two(Width - 1) >= 2
  /\ Two(Width) = 2 * Two(Width - 1) /\ Two(Width) <= Two(2 * Width - 1)
  /\ Two(2 * Width - 1) \in Nat \ {0} /\ Two(2 * Width) = 2 * Two(2 * Width - 1)
  /\ Two(2 * Width - 1) = Two(Width - 1) * Two(Width)
  /\ PosInf \in Nat /\ PosInf > 4 * Two(2 * Width - 1) /\ NegInf = -PosInf /\ NaN = PosInf + 1
<1>1. /\ Width \in Nat /\ Width >= 2 /\ Width - 2 \in Nat /\ Width - 1 \in Nat /\ (Width - 2) + 1 = Width - 1 /\ (Width - 1) + 1 = Width
      /\ 2 * Width - 1 \in Nat /\ (2 * Width - 1) + 1 = 2 * Width /\ 2 * Width \in Nat
      /\ (Width - 1) + Width = 2 * Width - 1
  BY WidthAssumption, RangeAssumption
<1>2. /\ Two(Width - 2) \in Nat \ {0} /\ Two(Width - 1) = 2 * Two(Width - 2) /\ Two(Width) = 2 * Two(Width - 1)
      /\ Two(Width) \in Nat \ {0} /\ Two(2 * Width - 1) \in Nat \ {0} /\ Two(2 * Width) = 2 * Two(2 * Width - 1)
      /\ Two(2 * Width + 1) = 2 * Two(2 * Width) /\ Two(2 * Width) \in Nat
  <2>1. Two(Width - 2) \in Nat \ {0} /\ Two((Width - 2) + 1) = 2 * Two(Width - 2)
    BY <1>1, Powers
  <2>2. Two(Width - 1) \in Nat \ {0} /\ Two((Width - 1) + 1) = 2 * Two(Width - 1)
    BY <1>1, Powers
  <2>3. Two(2 * Width - 1) \in Nat \ {0} /\ Two((2 * Width - 1) + 1) = 2 * Two(2 * Width - 1)
    BY <1>1, Powers
  <2>4. Two(2 * Width) \in Nat \ {0} /\ Two(2 * Width + 1) = 2 * Two(2 * Width) /\ Two(Width) \in Nat \ {0}
    BY <1>1, Powers
  <2> QED BY <1>1, <2>1, <2>2, <2>3, <2>4
<1>3. Two(2 * Width - 1) = Two(Width - 1) * Two(Width)
  BY <1>1, PowersMultiply
<1>4. Two(Width - 1) \in Nat /\ Two(Width - 1) >= 2
  BY <1>2
<1>5. Two(Width) <= Two(Width - 1) * Two(Width)
  <2>1. \A p, q \in Nat : p >= 2 => q <= p * q
    OBVIOUS
  <2> QED BY <1>2, <1>4, <2>1
<1>6. PosInf \in Nat /\ PosInf > 4 * Two(2 * Width - 1)
  BY <1>2, RangeAssumption, PosInfAssumption
<1> QED BY <1>2, <1>3, <1>4, <1>5, <1>6 DEF NegInf, NaN

\* A float goes towards zero.
LEMMA TruncatedFacts ==
  ASSUME NEW h \in Int
  PROVE  /\ Truncated(h) \in Int
         /\ 2 * Magnitude(Truncated(h)) <= Magnitude(h) /\ Magnitude(h) < 2 * Magnitude(Truncated(h)) + 2
         /\ Truncated(h) = 0 \/ (Truncated(h) < 0) = (h < 0)
         /\ \A v \in Int : h = 2 * v => Truncated(h) = v
<1> DEFINE q == Magnitude(h) \div 2
<1>1. q \in Int /\ Magnitude(h) = 2 * q + (Magnitude(h) % 2) /\ Magnitude(h) % 2 \in 0 .. 1 /\ Magnitude(h) \in Nat
  BY DEF Magnitude
<1>2. Truncated(h) = IF h < 0 THEN -q ELSE q
  BY DEF Truncated, Quotient, Magnitude
<1>3. Magnitude(h) = IF h < 0 THEN -h ELSE h
  BY DEF Magnitude
<1> HIDE DEF q
<1>4. q >= 0
  BY <1>1
<1>5. Truncated(h) \in Int /\ Magnitude(Truncated(h)) = q
  BY <1>1, <1>2, <1>4 DEF Magnitude
<1>6. \A v \in Int : h = 2 * v => Truncated(h) = v
  BY <1>1, <1>2, <1>3
<1>7. Truncated(h) = 0 \/ (Truncated(h) < 0) = (h < 0)
  BY <1>1, <1>2, <1>4
<1> QED BY <1>1, <1>5, <1>6, <1>7

\* The integers a number of halves may become are its truncation, if that fits.
LEMMA IntegersOfHalves ==
  ASSUME NEW dtype \in {"i32", "u32", "i64"}, NEW h \in Int
  PROVE  Integers(dtype, h) = IF Finite(h) /\ Truncated(h) \in Representable(dtype) /\ (dtype = "u32" => h >= 0)
                              THEN {Truncated(h)} ELSE {}
<1> DEFINE t == Truncated(h)
<1>1. Representable(dtype) \subseteq Int
  BY Ranges
<1>2. /\ t \in Int /\ 2 * Magnitude(t) <= Magnitude(h) /\ Magnitude(h) < 2 * Magnitude(t) + 2
      /\ t = 0 \/ (t < 0) = (h < 0)
  BY TruncatedFacts
<1> HIDE DEF t
<1>3. ASSUME NEW s \in Int, 2 * Magnitude(s) <= Magnitude(h), Magnitude(h) < 2 * Magnitude(s) + 2, s = 0 \/ (s < 0) = (h < 0)
      PROVE  s = t
  <2>1. Magnitude(s) = Magnitude(t)
    BY <1>2, <1>3 DEF Magnitude
  <2> QED BY <1>2, <1>3, <2>1 DEF Magnitude
<1>4. ASSUME NEW s \in Integers(dtype, h)
      PROVE  s = t /\ s \in Representable(dtype) /\ Finite(h) /\ (dtype = "u32" => h >= 0)
  <2>1. /\ s \in Representable(dtype) /\ Finite(h) /\ 2 * Magnitude(s) <= Magnitude(h) /\ Magnitude(h) < 2 * Magnitude(s) + 2
        /\ s = 0 \/ (s < 0) = (h < 0)
        /\ dtype = "u32" => h >= 0
    BY <1>4 DEF Integers
  <2> QED BY <1>1, <1>3, <2>1
<1>5. ASSUME Finite(h), t \in Representable(dtype), dtype = "u32" => h >= 0 PROVE t \in Integers(dtype, h)
  BY <1>2, <1>5 DEF Integers
<1> QED BY <1>4, <1>5 DEF t

\* A multiple of the size apart within a range of that size is nothing apart.
LEMMA ResidueUnique ==
  ASSUME NEW T \in Nat \ {0}, NEW lo \in Int, NEW a \in lo .. lo + T - 1, NEW b \in lo .. lo + T - 1, NEW v \in Int,
         (a - v) % T = 0, (b - v) % T = 0
  PROVE  a = b
<1> DEFINE q == (a - v) \div T
           r == (b - v) \div T
<1>1. a \in Int /\ b \in Int /\ a - v \in Int /\ b - v \in Int
  OBVIOUS
<1>2. q \in Int /\ r \in Int /\ a - v = (T * q) + 0 /\ b - v = (T * r) + 0
  BY <1>1, Division
<1> HIDE DEF q, r
<1>3. a - b = (T * q) - (T * r) /\ T * q \in Int /\ T * r \in Int
  BY <1>1, <1>2
<1>4. ~(q < r)
  <2>1. ASSUME q < r PROVE T * (q + 1) <= T * r
    BY <1>2, <2>1
  <2>2. T * (q + 1) = (T * q) + T
    BY <1>2
  <2> QED BY <1>1, <1>2, <1>3, <2>1, <2>2
<1>5. ~(r < q)
  <2>1. ASSUME r < q PROVE T * (r + 1) <= T * q
    BY <1>2, <2>1
  <2>2. T * (r + 1) = (T * r) + T
    BY <1>2
  <2> QED BY <1>1, <1>2, <1>3, <2>1, <2>2
<1>6. q = r
  BY <1>2, <1>4, <1>5
<1> QED BY <1>1, <1>3, <1>6

\* The integer of a narrow type that a wide one wraps to is the only congruent one.
LEMMA Narrowed ==
  ASSUME NEW dtype \in {"i32", "u32"}, NEW v \in Int
  PROVE  {t \in Representable(dtype) : Congruent(dtype, t, v)} = {Wrap(dtype, v)}
<1> DEFINE T == Two(Width)
           lo == IF dtype = "u32" THEN 0 ELSE -Two(Width - 1)
<1>1. T \in Nat \ {0} /\ lo \in Int /\ Representable(dtype) = lo .. lo + T - 1
  BY Ranges
<1>2. \A t : Congruent(dtype, t, v) <=> (t - v) % T = 0
  BY Sizes DEF Congruent
<1>3. Wrap(dtype, v) \in Representable(dtype) /\ Congruent(dtype, Wrap(dtype, v), v)
  BY WrapComputes
<1> HIDE DEF T, lo
<1>4. ASSUME NEW t \in Representable(dtype), Congruent(dtype, t, v) PROVE t = Wrap(dtype, v)
  <2> DEFINE w == Wrap(dtype, v)
  <2>1. T \in Nat \ {0} /\ lo \in Int /\ v \in Int /\ t \in lo .. lo + T - 1 /\ w \in lo .. lo + T - 1
    BY <1>1, <1>3, <1>4
  <2>2. (t - v) % T = 0 /\ (w - v) % T = 0
    BY <1>2, <1>3, <1>4
  <2> HIDE DEF w
  <2>3. t = w
    BY ONLY <2>1, <2>2, ResidueUnique
  <2> QED BY <2>3 DEF w
<1> QED BY <1>3, <1>4

\* What a conversion gives is the one value there is, or nothing where there is none.
Gives(r, results) == r.valid = (results # {}) /\ (r.valid => results = {r.data})

LEMMA GivesConverted == ASSUME NEW v, NEW results, results = {v} PROVE Gives(Converted(v), results)
BY DEF Gives, Converted

LEMMA GivesWhen ==
  ASSUME NEW test \in BOOLEAN, NEW v, NEW results, results = IF test THEN {v} ELSE {}
  PROVE  Gives(When(test, v), results)
<1>1. CASE test
  BY <1>1 DEF Gives, When, Converted
<1>2. CASE ~test
  BY <1>2 DEF Gives, When, Fails
<1> QED BY <1>1, <1>2

LEMMA ValuesAre ==
  /\ \A dtype \in {"f64", "f32"} : Values(dtype) = NegInf .. NaN /\ IsFloat(dtype)
  /\ \A dtype \in {"i32", "u32", "i64", "bool"} : ~IsFloat(dtype)
  /\ Values("bool") = {0, 1}
  /\ \A dtype \in {"i32", "u32", "i64"} : Values(dtype) = Representable(dtype)
  /\ Representable("i32") = Signed(Width) /\ Representable("u32") = Unsigned(Width) /\ Representable("i64") = Signed(2 * Width)
BY DEF Values, IsFloat, Representable

\* A float to an integer.
LEMMA FloatToInteger ==
  ASSUME NEW h \in NegInf .. NaN
  PROVE  /\ Gives(FloatToI32(h), Integers("i32", h))
         /\ Gives(FloatToU32(h), Integers("u32", h))
         /\ Granular(h) => Gives(FloatToI64(h), Integers("i64", h))
<1> DEFINE H == Two(Width - 1)
           T == Two(Width)
           G == Two(2 * Width - 1)
           t == Truncated(h)
<1>1. /\ H \in Nat /\ H >= 2 /\ T = 2 * H /\ T <= G /\ G \in Nat /\ G >= 1
      /\ PosInf \in Nat /\ PosInf > 4 * G /\ NegInf = -PosInf /\ NaN = PosInf + 1
  BY Bounds
<1>2. /\ Representable("i32") = -H .. H - 1 /\ Representable("u32") = 0 .. T - 1 /\ Representable("i64") = -G .. G - 1
  BY Ranges
<1>3. h \in Int /\ -PosInf <= h /\ h <= PosInf + 1
  BY <1>1
<1>4. /\ t \in Int /\ 2 * Magnitude(t) <= Magnitude(h) /\ Magnitude(h) < 2 * Magnitude(t) + 2
      /\ t = 0 \/ (t < 0) = (h < 0)
  BY <1>3, TruncatedFacts
<1>5. /\ Integers("i32", h) = IF Finite(h) /\ t \in -H .. H - 1 THEN {t} ELSE {}
      /\ Integers("u32", h) = IF Finite(h) /\ t \in 0 .. T - 1 /\ h >= 0 THEN {t} ELSE {}
      /\ Integers("i64", h) = IF Finite(h) /\ t \in -G .. G - 1 THEN {t} ELSE {}
  <2>1. \A dtype \in {"i32", "u32", "i64"} :
          Integers(dtype, h) = IF Finite(h) /\ t \in Representable(dtype) /\ (dtype = "u32" => h >= 0) THEN {t} ELSE {}
    BY <1>3, IntegersOfHalves
  <2> HIDE DEF t, H, T, G
  <2> QED BY <1>2, <2>1
<1>6. /\ FloatToI32(h) = When(Below(2 * (-H - 1), h) /\ Below(h, 2 * H), t)
      /\ FloatToU32(h) = When(AtMost(0, h) /\ Below(h, 2 * T), t)
      /\ FloatToI64(h) = When(AtMost(-2 * G, h) /\ Below(h, 2 * G), t)
  BY DEF FloatToI32, FloatToU32, FloatToI64
<1>7. Granular(h) <=> (Finite(h) => h % 2 = 0 \/ Magnitude(h) < G)
  BY DEF Granular
<1> HIDE DEF H, T, G, t
<1>8. (Below(2 * (-H - 1), h) /\ Below(h, 2 * H)) <=> Finite(h) /\ t \in -H .. H - 1
  <2>1. (Below(2 * (-H - 1), h) /\ Below(h, 2 * H)) <=> 2 * (-H - 1) < h /\ h < 2 * H
    BY <1>1, <1>3 DEF Below
  <2>2. Finite(h) <=> -PosInf < h /\ h < PosInf
    BY <1>1 DEF Finite
  <2>3. t \in -H .. H - 1 <=> 2 * (-H - 1) < h /\ h < 2 * H
    BY <1>1, <1>3, <1>4 DEF Magnitude
  <2> QED BY <1>1, <1>3, <2>1, <2>2, <2>3
<1>9. (AtMost(0, h) /\ Below(h, 2 * T)) <=> Finite(h) /\ t \in 0 .. T - 1 /\ h >= 0
  <2>1. (AtMost(0, h) /\ Below(h, 2 * T)) <=> 0 <= h /\ h < 2 * T
    BY <1>1, <1>3 DEF Below, AtMost
  <2>2. Finite(h) <=> -PosInf < h /\ h < PosInf
    BY <1>1 DEF Finite
  <2>3. h >= 0 => (t \in 0 .. T - 1 <=> h < 2 * T)
    BY <1>1, <1>3, <1>4 DEF Magnitude
  <2> QED BY <1>1, <1>3, <2>1, <2>2, <2>3
<1>10. Granular(h) => ((AtMost(-2 * G, h) /\ Below(h, 2 * G)) <=> Finite(h) /\ t \in -G .. G - 1)
  <2> SUFFICES ASSUME Granular(h) PROVE (AtMost(-2 * G, h) /\ Below(h, 2 * G)) <=> Finite(h) /\ t \in -G .. G - 1
    OBVIOUS
  <2>0. -2 * G = 0 - 2 * G
    BY <1>1
  <2>1. (AtMost(-2 * G, h) /\ Below(h, 2 * G)) <=> 0 - 2 * G <= h /\ h < 2 * G
    BY <1>1, <1>3, <2>0 DEF Below, AtMost
  <2>2. Finite(h) <=> -PosInf < h /\ h < PosInf
    BY <1>1 DEF Finite
  <2>3. t \in -G .. G - 1 <=> 0 - 2 * G - 2 < h /\ h < 2 * G
    BY <1>1, <1>3, <1>4 DEF Magnitude
  <2>4. Finite(h) => h # 0 - 2 * G - 1
    <3> SUFFICES ASSUME Finite(h), h = 0 - 2 * G - 1 PROVE FALSE
      OBVIOUS
    <3>1. Magnitude(h) >= G
      BY <1>1 DEF Magnitude
    <3>2. h % 2 = 0
      <4>1. Magnitude(h) \in Int
        BY <1>3 DEF Magnitude
      <4> QED BY <1>1, <1>7, <3>1, <4>1
    <3> QED BY <1>1, <3>2
  <2> QED BY <1>1, <1>3, <2>1, <2>2, <2>3, <2>4
<1>11. Gives(FloatToI32(h), Integers("i32", h))
  <2> DEFINE test == Below(2 * (-H - 1), h) /\ Below(h, 2 * H)
  <2>1. test \in BOOLEAN /\ Integers("i32", h) = IF test THEN {t} ELSE {}
    BY <1>5, <1>8
  <2> HIDE DEF test
  <2>2. Gives(When(test, t), Integers("i32", h))
    BY <2>1, GivesWhen
  <2> QED BY <1>6, <2>2 DEF test
<1>12. Gives(FloatToU32(h), Integers("u32", h))
  <2> DEFINE test == AtMost(0, h) /\ Below(h, 2 * T)
  <2>1. test \in BOOLEAN /\ Integers("u32", h) = IF test THEN {t} ELSE {}
    BY <1>5, <1>9
  <2> HIDE DEF test
  <2>2. Gives(When(test, t), Integers("u32", h))
    BY <2>1, GivesWhen
  <2> QED BY <1>6, <2>2 DEF test
<1>13. Granular(h) => Gives(FloatToI64(h), Integers("i64", h))
  <2> SUFFICES ASSUME Granular(h) PROVE Gives(FloatToI64(h), Integers("i64", h))
    OBVIOUS
  <2> DEFINE test == AtMost(-2 * G, h) /\ Below(h, 2 * G)
  <2>1. test \in BOOLEAN /\ Integers("i64", h) = IF test THEN {t} ELSE {}
    BY <1>5, <1>10
  <2> HIDE DEF test
  <2>2. Gives(When(test, t), Integers("i64", h))
    BY <2>1, GivesWhen
  <2> QED BY <1>6, <2>2 DEF test
<1> QED BY <1>11, <1>12, <1>13

\* An integer or a truth value of a type, as another integer.
LEMMA WholeNumbers ==
  ASSUME NEW from \in {"i32", "u32", "i64", "bool"}, NEW v \in Values(from)
  PROVE  /\ v \in Int /\ InHalves(from, v) = 2 * v /\ Finite(2 * v) /\ 2 * v # NaN
         /\ -Two(2 * Width - 1) <= v /\ v < Two(2 * Width - 1)
         /\ \A to \in {"i32", "u32", "i64"} : Integers(to, 2 * v) = IF v \in Representable(to) THEN {v} ELSE {}
<1> DEFINE H == Two(Width - 1)
           T == Two(Width)
           G == Two(2 * Width - 1)
<1>1. /\ H \in Nat /\ H >= 2 /\ T = 2 * H /\ T <= G /\ G \in Nat /\ G >= 1
      /\ PosInf \in Nat /\ PosInf > 4 * G /\ NegInf = -PosInf /\ NaN = PosInf + 1
  BY Bounds
<1>2. /\ Representable("i32") = -H .. H - 1 /\ Representable("u32") = 0 .. T - 1 /\ Representable("i64") = -G .. G - 1
  BY Ranges
<1>3. Values("i32") = -H .. H - 1 /\ Values("u32") = 0 .. T - 1 /\ Values("i64") = -G .. G - 1 /\ Values("bool") = {0, 1}
  <2> HIDE DEF H, T, G
  <2> QED BY <1>2, ValuesAre
<1> HIDE DEF H, T, G
<1>4. v \in Int /\ -G <= v /\ v < G
  BY <1>1, <1>3
<1>5. InHalves(from, v) = 2 * v
  BY <1>3 DEF InHalves, IsFloat
<1>6. Finite(2 * v) /\ 2 * v # NaN
  BY <1>1, <1>4 DEF Finite
<1>7. ASSUME NEW to \in {"i32", "u32", "i64"} PROVE Integers(to, 2 * v) = IF v \in Representable(to) THEN {v} ELSE {}
  <2>1. 2 * v \in Int /\ Truncated(2 * v) = v
    BY <1>4, TruncatedFacts
  <2>2. to = "u32" /\ v \in Representable(to) => 2 * v >= 0
    BY <1>1, <1>2
  <2>3. Integers(to, 2 * v) = IF Finite(2 * v) /\ Truncated(2 * v) \in Representable(to) /\ (to = "u32" => 2 * v >= 0)
                              THEN {Truncated(2 * v)} ELSE {}
    BY <2>1, IntegersOfHalves
  <2> QED BY <1>6, <2>1, <2>2, <2>3
<1> QED BY <1>4, <1>5, <1>6, <1>7 DEF G

\* What a column's cast may give, case by case.
LEMMA ResultsOf ==
  ASSUME NEW from \in DTypes, NEW to \in DTypes, from # to, NEW v
  PROVE  /\ IsFloat(to) => CastResults(from, to, v) = {InHalves(from, v)}
         /\ to = "bool" => CastResults(from, to, v) =
              IF InHalves(from, v) = NaN THEN {} ELSE {IF InHalves(from, v) = 0 THEN 0 ELSE 1}
         /\ from = "i64" /\ to \in {"i32", "u32"} => CastResults(from, to, v) = {t \in Representable(to) : Congruent(to, t, v)}
         /\ to \in {"i32", "u32", "i64"} /\ ~(from = "i64" /\ to \in {"i32", "u32"}) =>
              CastResults(from, to, v) = Integers(to, InHalves(from, v))
BY DEF CastResults, IsFloat, DTypes

LEMMA FloatsCast ==
  ASSUME NEW from \in {"f64", "f32"}, NEW to \in DTypes, from # to, NEW v \in NegInf .. NaN, to = "i64" => Granular(v)
  PROVE  Gives(CastTo(from, to, v), CastResults(from, to, v)) /\ (to \in {"f64", "f32"} => CastTo(from, to, v).valid)
<1>1. from \in DTypes /\ InHalves(from, v) = v /\ IsFloat(from)
  BY DEF DTypes, InHalves, IsFloat
<1>2. CASE to \in {"f64", "f32"}
  <2>1. CastTo(from, to, v) = Converted(v) /\ IsFloat(to)
    BY <1>2 DEF CastTo, IsFloat
  <2>2. CastResults(from, to, v) = {v}
    BY <1>1, <2>1, ResultsOf
  <2> QED BY <2>1, <2>2, GivesConverted DEF Converted
<1>3. CASE to = "bool"
  <2>1. CastTo(from, to, v) = When(v # NaN, IF v # 0 THEN 1 ELSE 0)
    BY <1>3 DEF CastTo, IsFloat, FloatToBool
  <2>2. CastResults(from, to, v) = IF v # NaN THEN {IF v # 0 THEN 1 ELSE 0} ELSE {}
    <3>1. CastResults(from, to, v) = IF v = NaN THEN {} ELSE {IF v = 0 THEN 0 ELSE 1}
      BY <1>1, <1>3, ResultsOf
    <3> QED BY <3>1
  <2>3. Gives(CastTo(from, to, v), CastResults(from, to, v))
    BY <2>1, <2>2, GivesWhen
  <2> QED BY <1>3, <2>3
<1>4. CASE to \in {"i32", "u32", "i64"}
  <2>1. CastTo(from, to, v) = IF to = "i32" THEN FloatToI32(v) ELSE IF to = "u32" THEN FloatToU32(v) ELSE FloatToI64(v)
    BY <1>4 DEF CastTo, IsFloat
  <2>2. CastResults(from, to, v) = Integers(to, v)
    BY <1>1, <1>4, ResultsOf
  <2>3. Gives(CastTo(from, to, v), CastResults(from, to, v))
    BY <1>4, <2>1, <2>2, FloatToInteger
  <2> QED BY <1>4, <2>3
<1> QED BY <1>2, <1>3, <1>4 DEF DTypes

LEMMA WholesCast ==
  ASSUME NEW from \in {"i32", "u32", "i64", "bool"}, NEW to \in DTypes, from # to, NEW v \in Values(from)
  PROVE  /\ Gives(CastTo(from, to, v), CastResults(from, to, v))
         /\ <<from, to>> \notin {<<"i32", "u32">>, <<"u32", "i32">>} => CastTo(from, to, v).valid
<1> DEFINE H == Two(Width - 1)
           T == Two(Width)
           G == Two(2 * Width - 1)
<1>1. /\ H \in Nat /\ H >= 2 /\ T = 2 * H /\ T <= G /\ G \in Nat /\ G >= 1
  BY Bounds
<1>2. /\ Representable("i32") = -H .. H - 1 /\ Representable("u32") = 0 .. T - 1 /\ Representable("i64") = -G .. G - 1
  BY Ranges
<1>3. Values("i32") = -H .. H - 1 /\ Values("u32") = 0 .. T - 1 /\ Values("i64") = -G .. G - 1 /\ Values("bool") = {0, 1}
  <2> HIDE DEF H, T, G
  <2> QED BY <1>2, ValuesAre
<1>4. /\ v \in Int /\ InHalves(from, v) = 2 * v /\ 2 * v # NaN
      /\ \A dtype \in {"i32", "u32", "i64"} : Integers(dtype, 2 * v) = IF v \in Representable(dtype) THEN {v} ELSE {}
  BY WholeNumbers
<1>5. from \in DTypes /\ ~IsFloat(from)
  BY DEF DTypes, IsFloat
<1>6. CASE to \in {"f64", "f32"}
  <2>1. CastTo(from, to, v) = Converted(2 * v) /\ IsFloat(to)
    <3>1. IsFloat(to) /\ CastTo(from, to, v) = IF from = "bool" THEN BoolToFloat(v) ELSE IntToFloat(v)
      BY <1>6 DEF CastTo, IsFloat
    <3>2. from = "bool" => (IF v # 0 THEN 2 ELSE 0) = 2 * v
      BY <1>3
    <3> QED BY <3>1, <3>2 DEF BoolToFloat, IntToFloat
  <2>2. CastResults(from, to, v) = {2 * v}
    BY <1>4, <1>5, <2>1, ResultsOf
  <2> QED BY <2>1, <2>2, GivesConverted DEF Converted
<1>7. CASE to = "bool"
  <2>1. CastTo(from, to, v) = Converted(IF v # 0 THEN 1 ELSE 0)
    BY <1>7 DEF CastTo, IsFloat, IntToBool
  <2>2. CastResults(from, to, v) = {IF v # 0 THEN 1 ELSE 0}
    <3>1. CastResults(from, to, v) = IF 2 * v = NaN THEN {} ELSE {IF 2 * v = 0 THEN 0 ELSE 1}
      BY <1>4, <1>5, <1>7, ResultsOf
    <3> QED BY <1>4, <3>1
  <2> QED BY <2>1, <2>2, GivesConverted DEF Converted
<1>8. CASE from = "i64" /\ to \in {"i32", "u32"}
  <2>1. CastTo(from, to, v) = Converted(Wrap(to, v))
    BY <1>8 DEF CastTo, IsFloat, WideToI32, WideToU32, Wrap
  <2>2. CastResults(from, to, v) = {Wrap(to, v)}
    <3>1. CastResults(from, to, v) = {t \in Representable(to) : Congruent(to, t, v)}
      BY <1>5, <1>8, ResultsOf
    <3> QED BY <1>4, <1>8, <3>1, Narrowed
  <2> QED BY <2>1, <2>2, GivesConverted DEF Converted
<1>9. CASE to \in {"i32", "u32", "i64"} /\ ~(from = "i64" /\ to \in {"i32", "u32"})
  <2>1. CastResults(from, to, v) = IF v \in Representable(to) THEN {v} ELSE {}
    <3>1. CastResults(from, to, v) = Integers(to, InHalves(from, v))
      BY <1>5, <1>9, ResultsOf
    <3> QED BY <1>4, <1>9, <3>1
  <2>2. CASE from = "i32" /\ to = "u32"
    <3>1. CastTo(from, to, v) = When(v >= 0, v)
      BY <2>2 DEF CastTo, IsFloat, I32ToU32
    <3> HIDE DEF H, T, G
    <3>2. CastResults(from, to, v) = IF v >= 0 THEN {v} ELSE {}
      BY <1>1, <1>2, <1>3, <2>1, <2>2
    <3>3. Gives(CastTo(from, to, v), CastResults(from, to, v))
      <4>1. (v >= 0) \in BOOLEAN
        OBVIOUS
      <4> QED BY <3>1, <3>2, <4>1, GivesWhen
    <3> QED BY <2>2, <3>3
  <2>3. CASE from = "u32" /\ to = "i32"
    <3>1. CastTo(from, to, v) = When(v <= H - 1, v)
      BY <2>3 DEF CastTo, IsFloat, U32ToI32
    <3> HIDE DEF H, T, G
    <3>2. CastResults(from, to, v) = IF v <= H - 1 THEN {v} ELSE {}
      BY <1>1, <1>2, <1>3, <2>1, <2>3
    <3>3. Gives(CastTo(from, to, v), CastResults(from, to, v))
      <4>1. (v <= H - 1) \in BOOLEAN
        OBVIOUS
      <4> QED BY <3>1, <3>2, <4>1, GivesWhen
    <3> QED BY <2>3, <3>3
  <2>4. CASE from = "bool" \/ (from \in {"i32", "u32"} /\ to = "i64")
    <3>1. CastTo(from, to, v) = Converted(v)
      <4>1. CASE from = "bool"
        <5>1. CastTo(from, to, v) = Converted(IF v # 0 THEN 1 ELSE 0)
          BY <1>9, <4>1 DEF CastTo, IsFloat, BoolToInt
        <5>2. (IF v # 0 THEN 1 ELSE 0) = v
          BY <1>3, <4>1
        <5> QED BY <5>1, <5>2
      <4>2. CASE from \in {"i32", "u32"} /\ to = "i64"
        BY <4>2 DEF CastTo, IsFloat, IntToWide
      <4> QED BY <2>4, <4>1, <4>2
    <3> HIDE DEF H, T, G
    <3>2. v \in Representable(to)
      BY <1>1, <1>2, <1>3, <1>9, <2>4
    <3> QED BY <2>1, <3>1, <3>2, GivesConverted DEF Converted
  <2> QED BY <1>9, <2>2, <2>3, <2>4
<1> QED BY <1>6, <1>7, <1>8, <1>9 DEF DTypes

\* A scalar casts as a row of a column does.
LEMMA ScalarCasts ==
  ASSUME NEW from \in DTypes, NEW to \in DTypes, NEW v \in Values(from), IsFloat(from) /\ to = "i64" => Granular(v)
  PROVE  Gives(CastScalar(from, to, v), CastResults(from, to, v))
<1> DEFINE H == Two(Width - 1)
           T == Two(Width)
           G == Two(2 * Width - 1)
<1>1. /\ Representable("i32") = Signed(Width) /\ Representable("u32") = Unsigned(Width) /\ Representable("i64") = Signed(2 * Width)
  BY ValuesAre
<1>2. CASE from = to
  <2>1. CastScalar(from, to, v) = Converted(v) /\ CastResults(from, to, v) = {v}
    BY <1>2 DEF CastScalar, CastResults
  <2> QED BY <2>1, GivesConverted
<1>3. CASE from # to /\ from = "i64"
  <2>1. CastTo(from, to, v) = CastScalar(from, to, v)
    <3>1. CASE to \in {"f64", "f32"}
      BY <1>3, <3>1 DEF CastScalar, CastTo, IsFloat, IntToFloat
    <3>2. CASE to = "bool"
      BY <1>3, <3>2 DEF CastScalar, CastTo, IsFloat, IntToBool
    <3>3. CASE to = "i32"
      BY <1>3, <3>3 DEF CastScalar, CastTo, IsFloat, WideToI32
    <3>4. CASE to = "u32"
      BY <1>3, <3>4 DEF CastScalar, CastTo, IsFloat, WideToU32
    <3> QED BY <1>3, <3>1, <3>2, <3>3, <3>4 DEF DTypes
  <2>2. Gives(CastTo(from, to, v), CastResults(from, to, v))
    BY <1>3, WholesCast
  <2> QED BY <2>1, <2>2
<1>4. CASE from # to /\ from \in {"f64", "f32"}
  <2>1. IsFloat(from) /\ v \in NegInf .. NaN /\ from # "i64" /\ from # "bool"
    BY <1>4, ValuesAre
  <2>2. v \in Int
    BY <2>1, Bounds
  <2>3. CASE to \in {"f64", "f32", "bool"}
    <3>1. Gives(CastTo(from, to, v), CastResults(from, to, v))
      BY <1>4, <2>1, <2>3, FloatsCast
    <3>2. CastTo(from, to, v) = CastScalar(from, to, v)
      <4>1. CASE to = "bool"
        BY <1>4, <4>1 DEF CastScalar, CastTo, IsFloat, FloatToBool
      <4>2. CASE to \in {"f64", "f32"}
        BY <1>4, <4>2 DEF CastScalar, CastTo, IsFloat
      <4> QED BY <2>3, <4>1, <4>2
    <3> QED BY <3>1, <3>2
  <2>4. CASE to \in {"i32", "u32", "i64"}
    <3> DEFINE t == Truncated(v)
               test == Finite(v) /\ t \in Representable(to) /\ (to = "u32" => v >= 0)
    <3>1. CastResults(from, to, v) = IF test THEN {t} ELSE {}
      <4>1. CastResults(from, to, v) = Integers(to, v)
        <5>1. InHalves(from, v) = v
          BY <2>1 DEF InHalves
        <5> QED BY <1>4, <2>4, <5>1, ResultsOf
      <4> QED BY <2>2, <2>4, <4>1, IntegersOfHalves
    <3>2. Finite(v) => v # NaN
      BY <2>2, Bounds DEF Finite
    <3>3. CASE ~Finite(v)
      <4>1. CastScalar(from, to, v) = Fails
        BY <1>4, <2>1, <2>4, <3>3 DEF CastScalar, IsFloat
      <4>2. CastResults(from, to, v) = {}
        BY <3>1, <3>3
      <4>3. Gives(When(FALSE, 0), {})
        BY GivesWhen
      <4>4. When(FALSE, 0) = Fails
        BY DEF When
      <4> QED BY <4>1, <4>2, <4>3, <4>4
    <3>4. CASE Finite(v)
      <4>1. CastScalar(from, to, v) =
              IF to = "i64" THEN When(t \in Signed(2 * Width), t)
              ELSE IF to = "i32" THEN When(t \in Signed(Width), t)
              ELSE When(~(v < 0) /\ t \in Unsigned(Width), t)
        BY <1>4, <2>1, <2>4, <3>2, <3>4 DEF CastScalar, IsFloat
      <4> HIDE DEF t
      <4>2. CastScalar(from, to, v) = When(test, t)
        <5>1. CASE to = "i64"
          <6>1. test = (t \in Signed(2 * Width))
            BY <1>1, <3>4, <5>1
          <6> QED BY <4>1, <5>1, <6>1
        <5>2. CASE to = "i32"
          <6>1. test = (t \in Signed(Width))
            BY <1>1, <3>4, <5>2
          <6> QED BY <4>1, <5>2, <6>1
        <5>3. CASE to = "u32"
          <6>1. test = (~(v < 0) /\ t \in Unsigned(Width))
            BY <1>1, <2>2, <3>4, <5>3
          <6> QED BY <4>1, <5>3, <6>1
        <5> QED BY <2>4, <5>1, <5>2, <5>3
      <4>3. test \in BOOLEAN
        OBVIOUS
      <4> HIDE DEF test
      <4> QED BY <3>1, <4>2, <4>3, GivesWhen
    <3> QED BY <3>3, <3>4
  <2> QED BY <2>3, <2>4 DEF DTypes
<1>5. CASE from # to /\ from \in {"i32", "u32", "bool"}
  <2> DEFINE num == IF from = "bool" THEN (IF v # 0 THEN 1 ELSE 0) ELSE v
  <2>1. ~IsFloat(from) /\ from # "i64"
    BY <1>5 DEF IsFloat
  <2>2. /\ v \in Int /\ InHalves(from, v) = 2 * v /\ 2 * v # NaN
        /\ \A dtype \in {"i32", "u32", "i64"} : Integers(dtype, 2 * v) = IF v \in Representable(dtype) THEN {v} ELSE {}
    BY <1>5, WholeNumbers
  <2>3. num = v
    BY <1>5, <2>2, ValuesAre
  <2>4. CASE to = "bool"
    <3>1. CastScalar(from, to, v) = When(TRUE, IF v # 0 THEN 1 ELSE 0)
      BY <1>5, <2>1, <2>4 DEF CastScalar
    <3>2. CastResults(from, to, v) = {IF v # 0 THEN 1 ELSE 0}
      <4>1. CastResults(from, to, v) = IF 2 * v = NaN THEN {} ELSE {IF 2 * v = 0 THEN 0 ELSE 1}
        BY <1>5, <2>2, <2>4, ResultsOf
      <4> QED BY <2>2, <4>1
    <3> QED BY <3>1, <3>2, GivesWhen
  <2>5. CASE to \in {"f64", "f32"}
    <3>1. CastScalar(from, to, v) = Converted(2 * v)
      <4>1. IsFloat(to) /\ to # "bool"
        BY <2>5 DEF IsFloat
      <4>2. CastScalar(from, to, v) = Converted(2 * num)
        BY <1>5, <2>1, <4>1 DEF CastScalar
      <4> QED BY <2>3, <4>2
    <3>2. CastResults(from, to, v) = {2 * v}
      BY <1>5, <2>2, <2>5, ResultsOf, ValuesAre
    <3> QED BY <3>1, <3>2, GivesConverted
  <2>6. CASE to \in {"i32", "u32", "i64"}
    <3>1. CastScalar(from, to, v) =
            IF to = "i64" THEN When(num \in Signed(2 * Width), num)
            ELSE IF to = "i32" THEN When(num \in Signed(Width), num)
            ELSE When(~(FALSE /\ v < 0) /\ num \in Unsigned(Width), num)
      <4>1. ~IsFloat(to) /\ to # "bool"
        BY <2>6 DEF IsFloat
      <4> QED BY <1>5, <2>1, <2>6, <4>1 DEF CastScalar
    <3>2. CastScalar(from, to, v) = When(v \in Representable(to), v)
      <4> HIDE DEF num
      <4>1. (~(FALSE /\ v < 0) /\ v \in Unsigned(Width)) = (v \in Unsigned(Width))
        OBVIOUS
      <4> QED BY <1>1, <2>3, <2>6, <3>1, <4>1
    <3>3. CastResults(from, to, v) = IF v \in Representable(to) THEN {v} ELSE {}
      <4>1. CastResults(from, to, v) = Integers(to, InHalves(from, v))
        BY <1>5, <2>6, ResultsOf
      <4> QED BY <2>2, <2>6, <4>1
    <3>4. (v \in Representable(to)) \in BOOLEAN
      OBVIOUS
    <3> QED BY <3>2, <3>3, <3>4, GivesWhen
  <2> QED BY <2>4, <2>5, <2>6 DEF DTypes
<1> QED BY <1>2, <1>3, <1>4, <1>5 DEF DTypes

-----------------------------------------------------------------------------
(* Dates.                                                                  *)

\* The day an instant lies in, with days of any length.
LEMMA DayFloor ==
  ASSUME NEW D \in Nat \ {0}, NEW ms \in Int
  PROVE  LET q == Quotient(ms, D)
             d == IF Remainder(ms, D) # 0 /\ ms < 0 THEN q - 1 ELSE q
         IN d \in Int /\ d * D <= ms /\ ms < (d + 1) * D
<1> DEFINE q == Quotient(ms, D)
           r == Remainder(ms, D)
           d == IF r # 0 /\ ms < 0 THEN q - 1 ELSE q
<1>1. q \in Int /\ r = ms - D * q /\ Magnitude(r) < Magnitude(D) /\ (r = 0 \/ (r < 0) = (ms < 0))
  <2>1. D \in Int \ {0}
    OBVIOUS
  <2>2. q \in Int /\ r = ms - D * q /\ RemainderOf(ms, D, r)
    BY <2>1, Truncation
  <2> HIDE DEF q, r
  <2> QED BY <2>2 DEF RemainderOf
<1> HIDE DEF q, r
<1>2. D * q \in Int /\ r \in Int /\ ms = (D * q) + r
  BY <1>1
<1>3. -D < r /\ r < D
  BY <1>1, <1>2 DEF Magnitude
<1>4. q * D = D * q /\ (q + 1) * D = (D * q) + D /\ (q - 1) * D = (D * q) - D /\ ((q - 1) + 1) * D = D * q
  BY <1>1
<1>5. d \in Int /\ d * D <= ms /\ ms < (d + 1) * D
  <2>1. CASE r # 0 /\ ms < 0
    <3>1. d = q - 1 /\ r < 0
      BY <1>1, <2>1
    <3> HIDE DEF d
    <3> QED BY <1>1, <1>2, <1>3, <1>4, <3>1
  <2>2. CASE ~(r # 0 /\ ms < 0)
    <3>1. d = q /\ r >= 0
      BY <1>1, <1>2, <2>2
    <3> HIDE DEF d
    <3> QED BY <1>1, <1>2, <1>3, <1>4, <3>1
  <2> QED BY <2>1, <2>2
<1> QED BY <1>5 DEF d, q, r

LEMMA OneDay ==
  ASSUME NEW D \in Nat \ {0}, NEW ms \in Int, NEW d \in Int, NEW e \in Int,
         d * D <= ms, ms < (d + 1) * D, e * D <= ms, ms < (e + 1) * D
  PROVE  d = e
<1>1. d * D \in Int /\ e * D \in Int /\ (d + 1) * D \in Int /\ (e + 1) * D \in Int
  OBVIOUS
<1>2. ~(d < e)
  <2>1. ASSUME d < e PROVE (d + 1) * D <= e * D
    BY <2>1
  <2> QED BY <1>1, <2>1
<1>3. ~(e < d)
  <2>1. ASSUME e < d PROVE (e + 1) * D <= d * D
    BY <2>1
  <2> QED BY <1>1, <2>1
<1> QED BY <1>2, <1>3

\* d is the day of instant x, and what a cast to a date gives if there is such a date.
DayFound(x, d) ==
  /\ d \in Int /\ d * DayMs <= x /\ x < (d + 1) * DayMs
  /\ d \in Signed(Width) => TimestampToDate(x) = d

LEMMA DatesCast ==
  ASSUME NEW day \in Signed(Width), NEW ms \in Signed(2 * Width)
  PROVE  /\ DateToTimestamp(day) = day * DayMs
         /\ TimestampToDate(DateToTimestamp(day)) = day
         /\ LET d == TimestampToDate(ms) IN
            \/ d * DayMs <= ms /\ ms < (d + 1) * DayMs
            \/ ~\E e \in Signed(Width) : e * DayMs <= ms /\ ms < (e + 1) * DayMs
<1> DEFINE H == Two(Width - 1)
           T == Two(Width)
           G == Two(2 * Width - 1)
<1>1. /\ H \in Nat /\ H >= 2 /\ T = 2 * H /\ G = H * T /\ T \in Nat
      /\ Signed(Width) = -H .. H - 1 /\ Signed(2 * Width) = -G .. G - 1 /\ G \in Nat
      /\ Width \in Nat \ {0} /\ 2 * Width \in Nat \ {0} /\ DayMs \in 1 .. T
  BY Bounds, WidthAssumption, RangeAssumption DEF Signed
<1> HIDE DEF H, T, G
<1>2. DayMs \in Nat \ {0} /\ day \in Int /\ ms \in Int /\ DayMs <= T
  BY <1>1
<1>4. \A x \in Int : \E d : DayFound(x, d)
  <2> SUFFICES ASSUME NEW x \in Int PROVE \E d : DayFound(x, d)
    OBVIOUS
  <2> DEFINE d == IF Remainder(x, DayMs) # 0 /\ x < 0 THEN Quotient(x, DayMs) - 1 ELSE Quotient(x, DayMs)
  <2>1. d \in Int /\ d * DayMs <= x /\ x < (d + 1) * DayMs
    BY <1>2, DayFloor
  <2>2. TimestampToDate(x) = WrapSigned(Width, d)
    BY DEF TimestampToDate
  <2> HIDE DEF d
  <2>3. d \in Signed(Width) => WrapSigned(Width, d) = d
    BY <1>1, <2>1, Wrapped
  <2>4. DayFound(x, d)
    BY <2>1, <2>2, <2>3 DEF DayFound
  <2> QED BY <2>4
<1>5. DateToTimestamp(day) = day * DayMs
  <2>1. day * DayMs \in Signed(2 * Width)
    <3>1. day * DayMs \in Int
      BY <1>2
    <3>2. -G <= day * DayMs
      <4>1. (-H) * DayMs <= day * DayMs
        BY <1>1, <1>2
      <4>2. H * DayMs <= H * T
        BY <1>1, <1>2
      <4>3. (-H) * DayMs = -(H * DayMs) /\ H * DayMs \in Int
        BY <1>1, <1>2
      <4> QED BY <1>1, <3>1, <4>1, <4>2, <4>3
    <3>3. day * DayMs <= G - 1
      <4>1. day * DayMs <= (H - 1) * DayMs
        BY <1>1, <1>2
      <4>2. (H - 1) * DayMs <= (H - 1) * T
        BY <1>1, <1>2
      <4>3. (H - 1) * T = (H * T) - T /\ H * T \in Int /\ (H - 1) * DayMs \in Int
        BY <1>1, <1>2
      <4> QED BY <1>1, <3>1, <4>1, <4>2, <4>3
    <3> QED BY <1>1, <3>1, <3>2, <3>3
  <2>2. day * DayMs \in Int
    BY <1>2
  <2>3. WrapSigned(2 * Width, day * DayMs) = day * DayMs
    BY <1>1, <2>1, <2>2, Wrapped
  <2> QED BY <2>3 DEF DateToTimestamp, IntToWide, Converted
<1>6. TimestampToDate(day * DayMs) = day
  <2>1. day * DayMs \in Int /\ day * DayMs <= day * DayMs /\ day * DayMs < (day + 1) * DayMs
    BY <1>2
  <2>2. PICK d : DayFound(day * DayMs, d)
    BY <1>4, <2>1
  <2>3. d = day
    <3> DEFINE x == day * DayMs
    <3>1. x \in Int /\ day * DayMs <= x /\ x < (day + 1) * DayMs /\ d * DayMs <= x /\ x < (d + 1) * DayMs
      BY <2>1, <2>2 DEF DayFound
    <3>2. d \in Int
      BY <2>2 DEF DayFound
    <3> HIDE DEF x
    <3> QED BY <1>2, <3>1, <3>2, OneDay
  <2> QED BY <2>2, <2>3 DEF DayFound
<1>7. LET d == TimestampToDate(ms) IN
      \/ d * DayMs <= ms /\ ms < (d + 1) * DayMs
      \/ ~\E e \in Signed(Width) : e * DayMs <= ms /\ ms < (e + 1) * DayMs
  <2>0. PICK d : DayFound(ms, d)
    BY <1>2, <1>4
  <2>1. /\ d \in Int /\ d * DayMs <= ms /\ ms < (d + 1) * DayMs
        /\ d \in Signed(Width) => TimestampToDate(ms) = d
    BY <2>0 DEF DayFound
  <2>2. ASSUME NEW e \in Signed(Width), e * DayMs <= ms, ms < (e + 1) * DayMs PROVE d = e
    <3>1. e \in Int
      BY <1>1
    <3> QED BY <1>2, <2>1, <2>2, <3>1, OneDay
  <2>3. CASE d \in Signed(Width)
    BY <2>1, <2>3
  <2>4. CASE d \notin Signed(Width)
    <3>1. ~\E e \in Signed(Width) : e * DayMs <= ms /\ ms < (e + 1) * DayMs
      BY <2>2, <2>4
    <3> QED BY <3>1
  <2> QED BY <2>3, <2>4
<1> QED BY <1>5, <1>6, <1>7

\* A cast gives each row the one value its element has in the new type and a null where it
\* has none, a scalar and a column alike, for every width, number of rows and value; a date
\* survives the way through a timestamp (the casts of elementwise.rs, evalCast, castScalar).
THEOREM CastsOfRows == Spec => []CastsExact
<1>1. Computed /\ Ran({"cast"}) =>
        LET results(i) == CastResults(call.from, call.to, call.col.data[i]) IN
        /\ \A i \in 0 .. call.n - 1 :
             /\ Bit(result.column.vp, i) = (Bit(call.col.vp, i) /\ results(i) # {})
             /\ Bit(result.column.vp, i) => results(i) = {result.column.data[i]}
        /\ result.scalar.valid = (results(0) # {})
        /\ result.scalar.valid => results(0) = {result.scalar.data}
  <2> SUFFICES ASSUME Computed, Ran({"cast"})
               PROVE  LET results(i) == CastResults(call.from, call.to, call.col.data[i]) IN
                      /\ \A i \in 0 .. call.n - 1 :
                           /\ Bit(result.column.vp, i) = (Bit(call.col.vp, i) /\ results(i) # {})
                           /\ Bit(result.column.vp, i) => results(i) = {result.column.data[i]}
                      /\ result.scalar.valid = (results(0) # {})
                      /\ result.scalar.valid => results(0) = {result.scalar.data}
    OBVIOUS
  <2> DEFINE n == call.n
             from == call.from
             to == call.to
             col == call.col
             results(i) == CastResults(from, to, col.data[i])
             r(i) == CastTo(from, to, col.data[i])
             row(i) == IF Bit(col.vp, i) THEN r(i) ELSE Fails
  <2>1. /\ n \in Nat /\ from \in DTypes /\ to \in DTypes
        /\ \A i \in {0} \cup {j \in 0 .. n - 1 : Bit(col.vp, j)} :
             col.data[i] \in Values(from) /\ (IsFloat(from) /\ to = "i64" => Granular(col.data[i]))
    BY CallsAssumption DEF Computed, Ran
  <2>2. result.column = EvalCast(from, to, col, n) /\ result.scalar = CastScalar(from, to, col.data[0])
    BY DEF Computed
  <2> HIDE DEF n, from, to, col
  <2>3. Gives(result.scalar, results(0))
    BY <2>1, <2>2, ScalarCasts
  <2>4. ASSUME from # to, NEW i \in 0 .. n - 1, Bit(col.vp, i)
        PROVE  Gives(r(i), results(i)) /\ (~Lossy(from, to) => r(i).valid)
    <3>1. col.data[i] \in Values(from) /\ (IsFloat(from) /\ to = "i64" => Granular(col.data[i]))
      BY <2>1, <2>4
    <3>2. CASE from \in {"f64", "f32"}
      <4>1. col.data[i] \in NegInf .. NaN /\ IsFloat(from)
        BY <3>1, <3>2, ValuesAre
      <4>2. Gives(r(i), results(i)) /\ (to \in {"f64", "f32"} => r(i).valid)
        BY <2>1, <2>4, <3>1, <3>2, <4>1, FloatsCast
      <4>3. ~Lossy(from, to) => to \in {"f64", "f32"}
        BY <2>1, <4>1 DEF Lossy, DTypes
      <4> QED BY <4>2, <4>3
    <3>3. CASE from \in {"i32", "u32", "i64", "bool"}
      <4>1. Gives(r(i), results(i)) /\ (<<from, to>> \notin {<<"i32", "u32">>, <<"u32", "i32">>} => r(i).valid)
        BY <2>1, <2>4, <3>1, <3>3, WholesCast
      <4>2. ~Lossy(from, to) => <<from, to>> \notin {<<"i32", "u32">>, <<"u32", "i32">>}
        BY DEF Lossy
      <4> QED BY <4>1, <4>2
    <3> QED BY <2>1, <3>2, <3>3 DEF DTypes
  <2>5. ASSUME NEW i \in 0 .. n - 1
        PROVE  /\ Bit(result.column.vp, i) = (Bit(col.vp, i) /\ results(i) # {})
               /\ Bit(result.column.vp, i) => results(i) = {result.column.data[i]}
    <3>1. CASE from = to
      <4>1. result.column = col
        BY <2>2, <3>1 DEF EvalCast
      <4>2. results(i) = {col.data[i]}
        BY <3>1 DEF CastResults
      <4>3. Bit(col.vp, i) <=> (Bit(col.vp, i) /\ results(i) # {})
        BY <4>2
      <4>4. Bit(col.vp, i) = (Bit(col.vp, i) /\ results(i) # {})
        BY <4>3, BitTruth
      <4> QED BY <4>1, <4>2, <4>4
    <3>2. CASE from # to
      <4> DEFINE valid == {j \in 0 .. n - 1 : row(j).valid}
                 out == CastColumn(col, from, to, n)
      <4>1. out = Column([j \in 0 .. n - 1 |-> row(j).data], Packed(n, valid))
        <5> DEFINE rows_ == [j \in 0 .. n - 1 |-> row(j)]
        <5>1. out = Column([j \in 0 .. n - 1 |-> rows_[j].data], Packed(n, {j \in 0 .. n - 1 : rows_[j].valid}))
          BY DEF CastColumn
        <5>2. \A j \in 0 .. n - 1 : rows_[j] = row(j)
          OBVIOUS
        <5> HIDE DEF rows_, row, out
        <5>3. [j \in 0 .. n - 1 |-> rows_[j].data] = [j \in 0 .. n - 1 |-> row(j).data]
          BY <5>2
        <5>4. {j \in 0 .. n - 1 : rows_[j].valid} = valid
          BY <5>2
        <5> QED BY <5>1, <5>3, <5>4
      <4> HIDE DEF out
      <4>2. out.vp = Packed(n, valid) /\ out.data[i] = row(i).data
        BY <4>1 DEF Column
      <4>3. result.column = IF Lossy(from, to) THEN out ELSE Column(out.data, col.vp)
        BY <2>2, <3>2 DEF EvalCast, out
      <4>4. Bit(out.vp, i) <=> row(i).valid
        <5> HIDE DEF row
        <5>1. Bit(Packed(n, valid), i) <=> i \in valid
          <6> HIDE DEF valid
          <6> QED BY <2>1, PackedBits
        <5> QED BY <4>2, <5>1
      <4>5. /\ row(i).valid <=> Bit(col.vp, i) /\ r(i).valid
            /\ Bit(col.vp, i) => row(i).data = r(i).data
        BY DEF Fails
      <4>6. Bit(result.column.vp, i) <=> Bit(col.vp, i) /\ r(i).valid
        <5> HIDE DEF row, r
        <5>1. CASE Lossy(from, to)
          BY <4>3, <4>4, <4>5, <5>1
        <5>2. CASE ~Lossy(from, to)
          <6>1. result.column.vp = col.vp
            BY <4>3, <5>2 DEF Column
          <6>2. Bit(col.vp, i) => r(i).valid
            BY <2>4, <3>2, <5>2
          <6> QED BY <6>1, <6>2
        <5> QED BY <5>1, <5>2
      <4>7. result.column.data[i] = row(i).data
        <5> HIDE DEF row
        <5> QED BY <4>2, <4>3 DEF Column
      <4>8. Bit(col.vp, i) => (r(i).valid <=> results(i) # {}) /\ (r(i).valid => results(i) = {r(i).data})
        <5> HIDE DEF r, results
        <5> QED BY <2>4, <3>2 DEF Gives
      <4> HIDE DEF r, row, results
      <4>9. Bit(result.column.vp, i) <=> (Bit(col.vp, i) /\ results(i) # {})
        BY <4>6, <4>8
      <4>10. Bit(result.column.vp, i) = (Bit(col.vp, i) /\ results(i) # {})
        BY <4>9, BitTruth
      <4> QED BY <4>5, <4>6, <4>7, <4>8, <4>10
    <3> QED BY <3>1, <3>2
  <2>6. result.scalar.valid = (results(0) # {}) /\ (result.scalar.valid => results(0) = {result.scalar.data})
    BY <2>3 DEF Gives
  <2> QED BY <2>5, <2>6 DEF n, from, to, col
<1>2. Computed /\ Ran({"date"}) =>
        /\ result.back = call.day
        /\ result.ms = call.day * DayMs
        /\ LET day == result.day IN
           \/ day * DayMs <= call.ms /\ call.ms < (day + 1) * DayMs
           \/ ~\E d \in Signed(Width) : d * DayMs <= call.ms /\ call.ms < (d + 1) * DayMs
  <2> SUFFICES ASSUME Computed, Ran({"date"})
               PROVE  /\ result.back = call.day
                      /\ result.ms = call.day * DayMs
                      /\ LET day == result.day IN
                         \/ day * DayMs <= call.ms /\ call.ms < (day + 1) * DayMs
                         \/ ~\E d \in Signed(Width) : d * DayMs <= call.ms /\ call.ms < (d + 1) * DayMs
    OBVIOUS
  <2>1. call.day \in Signed(Width) /\ call.ms \in Signed(2 * Width)
    BY CallsAssumption DEF Computed, Ran
  <2>2. /\ result.ms = DateToTimestamp(call.day) /\ result.day = TimestampToDate(call.ms)
        /\ result.back = TimestampToDate(DateToTimestamp(call.day))
    BY DEF Computed
  <2> QED BY <2>1, <2>2, DatesCast
<1>3. Computed => CastsExact
  BY <1>1, <1>2 DEF CastsExact
<1> QED BY <1>3, AlwaysComputed, PTL

-----------------------------------------------------------------------------
(* The text the CSV reader is given.                                       *)

\* The characters of a text and the LF that completes one: strings, which the
\* prover does not know of a literal.
Char == STRING \cup {LF}

\* A sequence over a set is one over a larger set.
LEMMA LargerSeq ==
  ASSUME NEW S, NEW t \in Seq(S), NEW x
  PROVE  t \in Seq(S \cup {x})
OBVIOUS

\* What the parser builds.
Field == Seq(Char)
Row == Seq(Field)
Results == [rows : Seq(Row), row : Row, field : Field]

\* The quotes before a character are finitely many.
LEMMA QuotesBefore ==
  ASSUME NEW t, NEW i \in Nat
  PROVE  Cardinality({k \in 1 .. i - 1 : t[k] = Quote}) \in Nat /\ IsFiniteSet({k \in 1 .. i - 1 : t[k] = Quote})
<1>1. IsFiniteSet(1 .. i - 1)
  BY FS_Interval
<1>2. IsFiniteSet({k \in 1 .. i - 1 : t[k] = Quote})
  BY <1>1, FS_Subset, Zenon
<1> QED BY <1>2, FS_CardinalityType

\* A quote changes what is within quotes, another character does not.
LEMMA InsideNext ==
  ASSUME NEW t, NEW i \in Nat \ {0}
  PROVE  /\ Inside(t, i) \in BOOLEAN
         /\ t[i] = Quote => (Inside(t, i + 1) <=> ~Inside(t, i))
         /\ t[i] # Quote => (Inside(t, i + 1) <=> Inside(t, i))
<1> DEFINE Q == {k \in 1 .. i - 1 : t[k] = Quote}
           R == {k \in 1 .. i : t[k] = Quote}
<1>1. IsFiniteSet(Q) /\ Cardinality(Q) \in Nat
  BY QuotesBefore
<1>2. Inside(t, i) <=> Cardinality(Q) % 2 = 1
  BY DEF Inside
<1>3. Inside(t, i + 1) <=> Cardinality(R) % 2 = 1
  <2>1. (i + 1) - 1 = i
    OBVIOUS
  <2> QED BY <2>1 DEF Inside
<1>4. CASE t[i] = Quote
  <2>1. R = Q \cup {i} /\ i \notin Q
    BY <1>4
  <2>2. Cardinality(R) = Cardinality(Q) + 1
    BY <1>1, <2>1, FS_AddElement, Zenon
  <2> HIDE DEF Q, R
  <2>3. (Cardinality(Q) + 1) % 2 = 1 <=> Cardinality(Q) % 2 # 1
    BY <1>1
  <2> QED BY <1>2, <1>3, <1>4, <2>2, <2>3 DEF Inside
<1>5. CASE t[i] # Quote
  <2>1. R = Q
    BY <1>5
  <2> QED BY <1>2, <1>3, <1>5, <2>1 DEF Inside
<1> QED BY <1>4, <1>5

\* Nothing stands before the first character.
LEMMA NothingInside == ASSUME NEW t PROVE ~Inside(t, 1)
<1>1. {k \in 1 .. 1 - 1 : t[k] = Quote} = {}
  OBVIOUS
<1>2. Cardinality({}) = 0
  BY FS_EmptySet
<1> QED BY <1>1, <1>2 DEF Inside

-----------------------------------------------------------------------------
(* What the reference takes of it.                                         *)

AfterCharacters(t, d, f, k) ==
  IF k = 0 THEN Untaken ELSE Take(f[k - 1], Kind(t, d, k), t[k])

\* The function Taken is defined by exists, for a prefix of any length.
LEMMA TakenPrefix ==
  ASSUME NEW t, NEW d, NEW n \in Nat
  PROVE  \E f : f = [k \in 0 .. n |-> AfterCharacters(t, d, f, k)]
<1> DEFINE T == {m \in Nat : ~\E f : f = [k \in 0 .. m |-> AfterCharacters(t, d, f, k)]}
<1>1. SUFFICES ASSUME T # {} PROVE FALSE
  OBVIOUS
<1>2. PICK m \in T : \A l \in T : m <= l
  BY <1>1, LeastElement
<1>3. CASE m = 0
  <2> DEFINE f == [k \in 0 .. 0 |-> Untaken]
  <2>1. f = [k \in 0 .. 0 |-> AfterCharacters(t, d, f, k)]
    BY DEF AfterCharacters
  <2> QED BY <1>2, <1>3, <2>1
<1>4. CASE m # 0
  <2>1. m \in Nat /\ m - 1 \in Nat /\ m - 1 \notin T
    BY <1>2, <1>4
  <2>2. PICK g : g = [k \in 0 .. m - 1 |-> AfterCharacters(t, d, g, k)]
    BY <2>1
  <2> DEFINE f == [k \in 0 .. m |-> AfterCharacters(t, d, g, k)]
  <2>3. \A k \in 0 .. m : AfterCharacters(t, d, f, k) = AfterCharacters(t, d, g, k)
    <3>1. ASSUME NEW k \in 0 .. m, k # 0 PROVE f[k - 1] = g[k - 1]
      <4>1. k - 1 \in 0 .. m - 1 /\ k - 1 \in 0 .. m
        BY <2>1, <3>1
      <4>2. g[k - 1] = AfterCharacters(t, d, g, k - 1)
        BY <2>2, <4>1
      <4> QED BY <4>1, <4>2
    <3> HIDE DEF f
    <3> QED BY <3>1 DEF AfterCharacters
  <2>4. f = [k \in 0 .. m |-> AfterCharacters(t, d, f, k)]
    <3> HIDE DEF f
    <3>1. f = [k \in 0 .. m |-> AfterCharacters(t, d, g, k)]
      BY DEF f
    <3> QED BY <2>3, <3>1
  <2> QED BY <1>2, <2>4
<1> QED BY <1>3, <1>4

\* A sequence with one element more.
LEMMA Appended ==
  ASSUME NEW S, NEW s \in Seq(S), NEW e \in S
  PROVE  Append(s, e) \in Seq(S) /\ << >> \in Seq(S)
OBVIOUS

\* What Take gives is again rows, a row and a field.
LEMMA TakeTypes ==
  ASSUME NEW taken \in Results, NEW kind \in {"data", "separator", "row end", "nothing"}, NEW ch \in Char
  PROVE  Take(taken, kind, ch) \in Results
<1>1. /\ taken.rows \in Seq(Row) /\ taken.row \in Row /\ taken.field \in Field
      /\ taken = [rows |-> taken.rows, row |-> taken.row, field |-> taken.field]
  BY DEF Results
<1>2. Append(taken.field, ch) \in Field /\ << >> \in Field
  BY <1>1, Appended DEF Field
<1>3. Append(taken.row, taken.field) \in Row /\ << >> \in Row
  BY <1>1, Appended DEF Row
<1>4. Append(taken.rows, Append(taken.row, taken.field)) \in Seq(Row)
  BY <1>1, <1>3, Appended
<1>5. CASE kind = "data"
  BY <1>1, <1>2, <1>5 DEF Take, Results
<1>6. CASE kind = "separator"
  BY <1>1, <1>2, <1>3, <1>6 DEF Take, Results
<1>7. CASE kind = "row end"
  BY <1>2, <1>3, <1>4, <1>7 DEF Take, Results
<1>8. CASE kind = "nothing"
  BY <1>8 DEF Take
<1> QED BY <1>5, <1>6, <1>7, <1>8

\* Every character is of one of the four kinds.
LEMMA Kinds ==
  ASSUME NEW t, NEW d, NEW i
  PROVE  Kind(t, d, i) \in {"data", "separator", "row end", "nothing"}
BY Zenon DEF Kind

\* Taken follows the text character by character.
LEMMA TakenFacts ==
  ASSUME NEW t \in Seq(Char), NEW d
  PROVE  /\ Taken(t, d)[0] = Untaken
         /\ \A k \in 1 .. Len(t) : Taken(t, d)[k] = Take(Taken(t, d)[k - 1], Kind(t, d, k), t[k])
         /\ \A k \in 0 .. Len(t) : Taken(t, d)[k] \in Results
<1> DEFINE n == Len(t)
           F == Taken(t, d)
<1>1. n \in Nat
  OBVIOUS
<1>2. F = [k \in 0 .. n |-> AfterCharacters(t, d, F, k)]
  <2>1. F = CHOOSE f : f = [k \in 0 .. n |-> IF k = 0 THEN Untaken ELSE Take(f[k - 1], Kind(t, d, k), t[k])]
    BY DEF Taken
  <2>2. F = CHOOSE f : f = [k \in 0 .. n |-> AfterCharacters(t, d, f, k)]
    BY <2>1 DEF AfterCharacters
  <2>3. \E f : f = [k \in 0 .. n |-> AfterCharacters(t, d, f, k)]
    BY <1>1, TakenPrefix
  <2> HIDE DEF n, F
  <2> QED BY <2>2, <2>3
<1> HIDE DEF F
<1>3. \A k \in 0 .. n : F[k] = AfterCharacters(t, d, F, k)
  BY <1>2
<1>4. F[0] = Untaken
  BY <1>1, <1>3 DEF AfterCharacters
<1>5. \A k \in 1 .. n : F[k] = Take(F[k - 1], Kind(t, d, k), t[k])
  BY <1>1, <1>3 DEF AfterCharacters
<1>6. \A k \in 0 .. n : F[k] \in Results
  <2> DEFINE T == {k \in 0 .. n : F[k] \notin Results}
  <2>1. SUFFICES ASSUME T # {} PROVE FALSE
    OBVIOUS
  <2>2. T \subseteq Nat
    BY <1>1
  <2>3. PICK k \in T : \A l \in T : k <= l
    BY <2>1, <2>2, LeastElement
  <2>4. Untaken \in Results
    BY DEF Untaken, Results, Row, Field
  <2>5. k # 0
    BY <1>4, <2>3, <2>4
  <2>6. k \in 1 .. n /\ k - 1 \in 0 .. n /\ k - 1 \notin T
    BY <1>1, <2>2, <2>3, <2>5
  <2>7. F[k - 1] \in Results /\ t[k] \in Char
    BY <2>6
  <2>8. F[k] \in Results
    BY <1>5, <2>6, <2>7, Kinds, TakeTypes
  <2> QED BY <2>3, <2>8
<1> QED BY <1>4, <1>5, <1>6 DEF F

-----------------------------------------------------------------------------
(* What the reader takes of it: a CR at the end of the text is a line end.  *)

\* The kinds of the characters of the completed text, in terms of the text.
ReadKind(t, d, i) ==
  CASE t[i] = Quote -> IF ~Inside(t, i) /\ SecondQuote(t, i) THEN "data" ELSE "nothing"
    [] t[i] # Quote /\ Inside(t, i) -> "data"
    [] t[i] # Quote /\ ~Inside(t, i) /\ StartsWith(t, d, i) -> "separator"
    [] t[i] # Quote /\ ~Inside(t, i) /\ ~StartsWith(t, d, i) ->
         CASE InDelimiter(t, d, i) -> "nothing"
           [] ~InDelimiter(t, d, i) /\ t[i] = CR -> IF i = Len(t) \/ t[i + 1] = LF THEN "row end" ELSE "data"
           [] ~InDelimiter(t, d, i) /\ t[i] = LF -> IF i > 1 /\ t[i - 1] = CR THEN "nothing" ELSE "row end"
           [] ~InDelimiter(t, d, i) /\ t[i] \notin {CR, LF} -> "data"

ReadTaken(t, d) == Taken(Completed(t), d)

\* No plain delimiter contains a quote, a CR or an LF.
LEMMA SpecialOutside ==
  ASSUME NEW t \in Seq(Char), NEW d \in Seq(Char) \ {<< >>}, Plain(d), NEW i \in Nat \ {0}, t[i] \in {Quote, CR, LF}
  PROVE  ~InDelimiter(t, d, i) /\ ~StartsWith(t, d, i)
<1>1. ASSUME NEW k \in 1 .. Len(d) - 1, k < i, StartsWith(t, d, i - k) PROVE FALSE
  <2>1. k + 1 \in DOMAIN d /\ (i - k) + (k + 1) - 1 = i
    OBVIOUS
  <2>2. t[(i - k) + (k + 1) - 1] = d[k + 1]
    BY <1>1, <2>1 DEF StartsWith
  <2> QED BY <2>1, <2>2 DEF Plain
<1>2. ASSUME StartsWith(t, d, i) PROVE FALSE
  <2>1. 1 \in DOMAIN d /\ i + 1 - 1 = i
    OBVIOUS
  <2>2. t[i + 1 - 1] = d[1]
    BY <1>2, <2>1 DEF StartsWith
  <2> QED BY <2>1, <2>2 DEF Plain
<1> QED BY <1>1, <1>2 DEF InDelimiter

\* The completed text is the text, or has an LF behind the CR that ends it.
LEMMA CompletedIs ==
  ASSUME NEW t \in Seq(Char)
  PROVE  LET T == Completed(t) IN
         /\ T \in Seq(Char) /\ Len(T) \in Nat /\ Len(t) \in Nat
         /\ \A i \in 1 .. Len(t) : T[i] = t[i]
         /\ \/ T = t /\ ~(t # << >> /\ t[Len(t)] = CR /\ ~Inside(t, Len(t)))
            \/ /\ Len(T) = Len(t) + 1 /\ T[Len(t) + 1] = LF
               /\ Len(t) >= 1 /\ t[Len(t)] = CR /\ ~Inside(t, Len(t))
<1>1. LF \in Char
  BY DEF Char
<1>2. CASE t # << >> /\ t[Len(t)] = CR /\ ~Inside(t, Len(t))
  <2>1. Completed(t) = Append(t, LF)
    BY <1>2 DEF Completed
  <2>2. /\ Append(t, LF) \in Seq(Char) /\ Len(Append(t, LF)) = Len(t) + 1 /\ Append(t, LF)[Len(t) + 1] = LF
        /\ \A i \in 1 .. Len(t) : Append(t, LF)[i] = t[i]
    BY <1>1, AppendProperties
  <2>3. Len(t) >= 1 /\ Len(t) \in Nat
    BY <1>2
  <2> QED BY <1>2, <2>1, <2>2, <2>3
<1>3. CASE ~(t # << >> /\ t[Len(t)] = CR /\ ~Inside(t, Len(t)))
  <2>1. Completed(t) = t
    BY <1>3 DEF Completed
  <2> QED BY <1>3, <2>1
<1> QED BY <1>2, <1>3

\* What stands before a character of the text is the same.
LEMMA InsideCompleted ==
  ASSUME NEW t \in Seq(Char), NEW i \in 1 .. Len(t) + 1
  PROVE  Inside(Completed(t), i) <=> Inside(t, i)
<1>1. \A k \in 1 .. i - 1 : Completed(t)[k] = t[k]
  <2>1. \A k \in 1 .. i - 1 : k \in 1 .. Len(t)
    OBVIOUS
  <2> QED BY <2>1, CompletedIs
<1>2. {k \in 1 .. i - 1 : Completed(t)[k] = Quote} = {k \in 1 .. i - 1 : t[k] = Quote}
  BY <1>1
<1> QED BY <1>2 DEF Inside

\* So is where a delimiter stands.
LEMMA StartsCompleted ==
  ASSUME NEW t \in Seq(Char), NEW d \in Seq(Char) \ {<< >>}, Plain(d), NEW i \in 1 .. Len(t)
  PROVE  StartsWith(Completed(t), d, i) <=> StartsWith(t, d, i)
<1> DEFINE T == Completed(t)
<1>1. /\ Len(T) \in Nat /\ Len(t) \in Nat /\ \A j \in 1 .. Len(t) : T[j] = t[j]
      /\ T = t \/ (Len(T) = Len(t) + 1 /\ T[Len(t) + 1] = LF)
  BY CompletedIs
<1> HIDE DEF T
<1>2. Len(d) \in Nat \ {0} /\ DOMAIN d = 1 .. Len(d) /\ i \in Nat /\ 1 <= i
  BY <1>1
<1>3. CASE T = t
  BY <1>3 DEF T
<1>4. CASE Len(T) = Len(t) + 1 /\ T[Len(t) + 1] = LF
  <2>1. ASSUME StartsWith(T, d, i) PROVE i + Len(d) - 1 <= Len(t)
    <3>1. SUFFICES ASSUME i + Len(d) - 1 = Len(t) + 1 PROVE FALSE
      <4>1. i + Len(d) - 1 <= Len(T)
        BY <2>1 DEF StartsWith
      <4> QED BY <1>1, <1>2, <1>4, <4>1
    <3>2. Len(d) \in DOMAIN d
      BY <1>2
    <3>3. T[i + Len(d) - 1] = d[Len(d)]
      BY <2>1, <3>2 DEF StartsWith
    <3> QED BY <1>4, <3>1, <3>2, <3>3 DEF Plain
  <2>2. ASSUME i + Len(d) - 1 <= Len(t), NEW k \in DOMAIN d PROVE T[i + k - 1] = t[i + k - 1]
    <3>1. i + k - 1 \in 1 .. Len(t)
      BY <1>1, <1>2, <2>2
    <3> QED BY <1>1, <3>1
  <2>3. i + Len(d) - 1 <= Len(t) => i + Len(d) - 1 <= Len(T)
    BY <1>1, <1>2, <1>4
  <2>4. StartsWith(T, d, i) <=> StartsWith(t, d, i)
    BY <2>1, <2>2, <2>3 DEF StartsWith
  <2> QED BY <2>4 DEF T
<1> QED BY <1>1, <1>3, <1>4

\* The reader takes a character for what it is in the completed text.
LEMMA ReadAsCompleted ==
  ASSUME NEW t \in Seq(Char), NEW d \in Seq(Char) \ {<< >>}, Plain(d), NEW i \in 1 .. Len(t)
  PROVE  Kind(Completed(t), d, i) = ReadKind(t, d, i) /\ Completed(t)[i] = t[i]
<1> DEFINE T == Completed(t)
<1>1. /\ Len(T) \in Nat /\ Len(t) \in Nat /\ \A j \in 1 .. Len(t) : T[j] = t[j]
      /\ \/ T = t /\ ~(t # << >> /\ t[Len(t)] = CR /\ ~Inside(t, Len(t)))
         \/ Len(T) = Len(t) + 1 /\ T[Len(t) + 1] = LF
  BY CompletedIs
<1>2. Inside(T, i) <=> Inside(t, i)
  BY InsideCompleted
<1>3. StartsWith(T, d, i) <=> StartsWith(t, d, i)
  BY StartsCompleted
<1>4. InDelimiter(T, d, i) <=> InDelimiter(t, d, i)
  <2>1. ASSUME NEW k \in 1 .. Len(d) - 1, k < i PROVE StartsWith(T, d, i - k) <=> StartsWith(t, d, i - k)
    <3>1. i - k \in 1 .. Len(t)
      BY <1>1, <2>1
    <3> QED BY <3>1, StartsCompleted
  <2> QED BY <2>1 DEF InDelimiter
<1>5. SecondQuote(T, i) <=> SecondQuote(t, i)
  <2>1. CASE i > 1
    <3>1. i - 1 \in 1 .. Len(t) /\ i - 1 \in 1 .. Len(t) + 1
      BY <1>1, <2>1
    <3>2. Inside(T, i - 1) <=> Inside(t, i - 1)
      BY <3>1, InsideCompleted
    <3>3. T[i - 1] = t[i - 1]
      BY <1>1, <3>1
    <3> QED BY <3>2, <3>3 DEF SecondQuote
  <2>2. CASE ~(i > 1)
    BY <2>2 DEF SecondQuote
  <2> QED BY <2>1, <2>2
<1>6. T[i] = t[i] /\ (i > 1 => T[i - 1] = t[i - 1])
  <2>1. i > 1 => i - 1 \in 1 .. Len(t)
    BY <1>1
  <2> QED BY <1>1, <2>1
<1>7. ~Inside(t, i) /\ t[i] = CR => ((i < Len(T) /\ T[i + 1] = LF) <=> (i = Len(t) \/ t[i + 1] = LF))
  <2>1. CASE i = Len(t)
    <3>1. t # << >>
      BY <1>1, <2>1
    <3> QED BY <1>1, <2>1, <3>1
  <2>2. CASE i < Len(t)
    <3>1. i + 1 \in 1 .. Len(t) /\ i < Len(T)
      BY <1>1, <2>2
    <3> QED BY <1>1, <2>2, <3>1
  <2> QED BY <1>1, <2>1, <2>2
<1> HIDE DEF T
<1>8. CASE t[i] = Quote
  <2>1. Kind(T, d, i) = IF ~Inside(T, i) /\ SecondQuote(T, i) THEN "data" ELSE "nothing"
    BY <1>6, <1>8 DEF Kind
  <2>2. ReadKind(t, d, i) = IF ~Inside(t, i) /\ SecondQuote(t, i) THEN "data" ELSE "nothing"
    BY <1>8 DEF ReadKind
  <2> QED BY <1>2, <1>5, <1>6, <2>1, <2>2 DEF T
<1>9. CASE t[i] # Quote /\ (Inside(t, i) \/ StartsWith(t, d, i) \/ InDelimiter(t, d, i))
  <2>1. Kind(T, d, i) = ReadKind(t, d, i)
    BY <1>2, <1>3, <1>4, <1>6, <1>9 DEF Kind, ReadKind
  <2> QED BY <1>6, <2>1 DEF T
<1>10. CASE t[i] # Quote /\ ~Inside(t, i) /\ ~StartsWith(t, d, i) /\ ~InDelimiter(t, d, i)
  <2>1. CR # LF
    BY DEF CR, LF
  <2>2. CASE t[i] = CR
    <3>1. Kind(T, d, i) = IF i < Len(T) /\ T[i + 1] = LF THEN "row end" ELSE "data"
      BY <1>2, <1>3, <1>4, <1>6, <1>10, <2>1, <2>2 DEF Kind
    <3>2. ReadKind(t, d, i) = IF i = Len(t) \/ t[i + 1] = LF THEN "row end" ELSE "data"
      BY <1>10, <2>1, <2>2 DEF ReadKind
    <3> QED BY <1>6, <1>7, <1>10, <2>2, <3>1, <3>2 DEF T
  <2>3. CASE t[i] = LF
    <3>1. Kind(T, d, i) = IF i > 1 /\ T[i - 1] = CR THEN "nothing" ELSE "row end"
      BY <1>2, <1>3, <1>4, <1>6, <1>10, <2>1, <2>3 DEF Kind
    <3>2. ReadKind(t, d, i) = IF i > 1 /\ t[i - 1] = CR THEN "nothing" ELSE "row end"
      BY <1>10, <2>1, <2>3 DEF ReadKind
    <3>3. Kind(T, d, i) = ReadKind(t, d, i)
      <4>1. i > 1 /\ T[i - 1] = CR <=> i > 1 /\ t[i - 1] = CR
        BY <1>6
      <4>2. CASE i > 1 /\ t[i - 1] = CR
        BY ONLY <3>1, <3>2, <4>1, <4>2
      <4>3. CASE ~(i > 1 /\ t[i - 1] = CR)
        BY ONLY <3>1, <3>2, <4>1, <4>3
      <4> QED BY ONLY <4>2, <4>3
    <3> QED BY <1>6, <3>3 DEF T
  <2>4. CASE t[i] \notin {CR, LF}
    <3>1. Kind(T, d, i) = "data"
      BY <1>2, <1>3, <1>4, <1>6, <1>10, <2>4 DEF Kind
    <3>2. ReadKind(t, d, i) = "data"
      BY <1>10, <2>4 DEF ReadKind
    <3> QED BY <1>6, <3>1, <3>2 DEF T
  <2> QED BY <2>2, <2>3, <2>4
<1> QED BY <1>8, <1>9, <1>10

\* ReadTaken follows the text character by character.
LEMMA ReadFacts ==
  ASSUME NEW t \in Seq(Char), NEW d \in Seq(Char) \ {<< >>}, Plain(d)
  PROVE  /\ ReadTaken(t, d)[0] = Untaken
         /\ \A k \in 1 .. Len(t) : ReadTaken(t, d)[k] = Take(ReadTaken(t, d)[k - 1], ReadKind(t, d, k), t[k])
         /\ \A k \in 0 .. Len(t) : ReadTaken(t, d)[k] \in Results
<1> DEFINE T == Completed(t)
<1>1. T \in Seq(Char) /\ Len(T) \in Nat /\ Len(t) \in Nat /\ Len(t) <= Len(T)
  <2>1. T \in Seq(Char) /\ Len(T) \in Nat /\ Len(t) \in Nat /\ (T = t \/ Len(T) = Len(t) + 1)
    BY CompletedIs
  <2> HIDE DEF T
  <2>2. T = t => Len(T) = Len(t)
    OBVIOUS
  <2> QED BY <2>1, <2>2
<1> HIDE DEF T
<1>2. /\ Taken(T, d)[0] = Untaken
      /\ \A k \in 1 .. Len(T) : Taken(T, d)[k] = Take(Taken(T, d)[k - 1], Kind(T, d, k), T[k])
      /\ \A k \in 0 .. Len(T) : Taken(T, d)[k] \in Results
  BY <1>1, TakenFacts
<1>3. ASSUME NEW k \in 1 .. Len(t) PROVE Taken(T, d)[k] = Take(Taken(T, d)[k - 1], ReadKind(t, d, k), t[k])
  <2>1. Kind(T, d, k) = ReadKind(t, d, k) /\ T[k] = t[k]
    BY ReadAsCompleted DEF T
  <2>2. k \in 1 .. Len(T)
    BY <1>1
  <2> QED BY <1>2, <2>1, <2>2
<1>4. \A k \in 0 .. Len(t) : k \in 0 .. Len(T)
  BY <1>1
<1>5. ReadTaken(t, d) = Taken(T, d)
  BY DEF ReadTaken, T
<1> QED BY <1>2, <1>3, <1>4, <1>5

\* Behind the end of a line that ends a text nothing is left of a row.
LEMMA NothingLeft ==
  ASSUME NEW t \in Seq(Char), NEW d \in Seq(Char) \ {<< >>}, Plain(d), ~Unended(t)
  PROVE  Taken(t, d)[Len(t)].row = << >> /\ Taken(t, d)[Len(t)].field = << >> /\ ~Open(t)
<1> DEFINE n == Len(t)
<1>1. n \in Nat
  OBVIOUS
<1>2. /\ Taken(t, d)[0] = Untaken
      /\ \A k \in 1 .. n : Taken(t, d)[k] = Take(Taken(t, d)[k - 1], Kind(t, d, k), t[k])
  BY TakenFacts
<1>3. CASE t = << >>
  <2>1. n = 0
    BY <1>3
  <2>2. ~Open(t)
    BY <2>1, NothingInside DEF Open
  <2> QED BY <1>2, <2>1, <2>2 DEF Untaken
<1>4. CASE t # << >>
  <2>1. n \in Nat \ {0} /\ n \in 1 .. n /\ t[n] = LF /\ ~Inside(t, n)
    BY <1>4 DEF Unended
  <2>2. Quote # LF /\ CR # LF /\ CR # Quote
    BY DEF Quote, CR, LF
  <2>3. ~Open(t)
    BY <2>1, <2>2, InsideNext DEF Open
  <2> HIDE DEF n
  <2>4. ~InDelimiter(t, d, n) /\ ~StartsWith(t, d, n)
    BY <2>1, SpecialOutside
  <2>5. Kind(t, d, n) = IF n > 1 /\ t[n - 1] = CR THEN "nothing" ELSE "row end"
    BY <2>1, <2>2, <2>4 DEF Kind
  <2>6. ASSUME NEW k \in 1 .. n, Kind(t, d, k) = "row end"
        PROVE  Taken(t, d)[k].row = << >> /\ Taken(t, d)[k].field = << >>
    <3>1. Taken(t, d)[k] = Take(Taken(t, d)[k - 1], "row end", t[k])
      BY <1>2, <2>6
    <3> QED BY <3>1 DEF Take
  <2>7. CASE ~(n > 1 /\ t[n - 1] = CR)
    BY <2>1, <2>3, <2>5, <2>6, <2>7 DEF n
  <2>8. CASE n > 1 /\ t[n - 1] = CR
    <3> DEFINE m == n - 1
    <3>1. m \in Nat \ {0} /\ m \in 1 .. n /\ m + 1 = n /\ m < n /\ t[m] = CR /\ t[m + 1] = LF
      BY <1>1, <2>1, <2>8
    <3>2. Taken(t, d)[n] = Taken(t, d)[m]
      BY <1>2, <2>1, <2>5, <2>8 DEF Take
    <3> HIDE DEF m
    <3>3. ~Inside(t, m)
      BY <2>1, <2>2, <3>1, InsideNext
    <3>4. ~InDelimiter(t, d, m) /\ ~StartsWith(t, d, m)
      BY <3>1, SpecialOutside
    <3>5. m < Len(t)
      BY <3>1 DEF n
    <3>6. Kind(t, d, m) = "row end"
      BY <2>2, <3>1, <3>3, <3>4, <3>5 DEF Kind
    <3> QED BY <2>3, <2>6, <3>1, <3>2, <3>6 DEF n
  <2> QED BY <2>7, <2>8
<1> QED BY <1>3, <1>4

\* The LF that completes a text adds nothing to what the reader took.
LEMMA CompletedTaken ==
  ASSUME NEW t \in Seq(Char), NEW d \in Seq(Char) \ {<< >>}, Plain(d)
  PROVE  /\ Taken(Completed(t), d)[Len(Completed(t))] = ReadTaken(t, d)[Len(t)]
         /\ Open(Completed(t)) <=> Inside(t, Len(t) + 1)
<1> DEFINE T == Completed(t)
           n == Len(t)
<1>1. /\ T \in Seq(Char) /\ Len(T) \in Nat /\ n \in Nat /\ \A i \in 1 .. n : T[i] = t[i]
      /\ T = t \/ /\ Len(T) = n + 1 /\ T[n + 1] = LF
                  /\ n >= 1 /\ t[n] = CR /\ ~Inside(t, n)
  BY CompletedIs
<1>2. \A i \in 1 .. n + 1 : Inside(T, i) <=> Inside(t, i)
  BY InsideCompleted
<1>3. ReadTaken(t, d) = Taken(T, d)
  BY DEF ReadTaken
<1> HIDE DEF T
<1>4. CASE T = t
  BY <1>3, <1>4 DEF Open, T
<1>5. CASE Len(T) = n + 1 /\ T[n + 1] = LF /\ n >= 1 /\ t[n] = CR /\ ~Inside(t, n)
  <2>1. n \in 1 .. n /\ n \in 1 .. n + 1 /\ n + 1 \in 1 .. n + 1 /\ n \in Nat \ {0} /\ n + 1 \in Nat \ {0} /\ (n + 1) - 1 = n
    BY <1>1, <1>5
  <2>2. T[n] = CR /\ ~Inside(T, n)
    BY <1>1, <1>2, <1>5, <2>1
  <2>3. Quote # LF /\ CR # LF /\ CR # Quote
    BY DEF Quote, CR, LF
  <2> HIDE DEF n
  <2>4. ~Inside(T, n + 1)
    BY <2>1, <2>2, <2>3, InsideNext
  <2>5. ~Inside(T, (n + 1) + 1)
    BY <1>5, <2>1, <2>3, <2>4, InsideNext
  <2>6. ~InDelimiter(T, d, n + 1) /\ ~StartsWith(T, d, n + 1)
    BY <1>1, <1>5, <2>1, SpecialOutside
  <2>7. n + 1 > 1 /\ T[(n + 1) - 1] = CR
    BY <2>1, <2>2
  <2>8. Kind(T, d, n + 1) = "nothing"
    BY <1>5, <2>3, <2>4, <2>6, <2>7 DEF Kind
  <2>9. Taken(T, d)[n + 1] = Take(Taken(T, d)[(n + 1) - 1], Kind(T, d, n + 1), T[n + 1])
    <3>1. n + 1 \in 1 .. Len(T)
      BY <1>5, <2>1
    <3> QED BY <1>1, <3>1, TakenFacts
  <2>10. Taken(T, d)[n + 1] = Taken(T, d)[n]
    BY <2>1, <2>8, <2>9 DEF Take
  <2>11. ~Inside(t, n + 1)
    BY <1>2, <2>1, <2>4
  <2> QED BY <1>3, <1>5, <2>5, <2>10, <2>11 DEF Open, T, n
<1> QED BY <1>1, <1>4, <1>5

\* What finish makes of what the reader took is what the text says.
LEMMA RowsOfText ==
  ASSUME NEW t \in Seq(Char), NEW d \in Seq(Char) \ {<< >>}, Plain(d),
         NEW inQuote \in BOOLEAN, inQuote <=> Inside(t, Len(t) + 1), NEW got, NEW left,
         left <=> ReadTaken(t, d)[Len(t)].row # << >> \/ ReadTaken(t, d)[Len(t)].field # << >>,
         got = ReadTaken(t, d)[Len(t)].rows \o
                 IF left /\ ~inQuote
                 THEN <<Append(ReadTaken(t, d)[Len(t)].row, ReadTaken(t, d)[Len(t)].field)>> ELSE << >>
  PROVE  /\ Reference(Completed(t), d) = got \o Unseen(Completed(t), d)
         /\ left /\ inQuote <=> Open(Completed(t)) /\ ~Blank(Completed(t), d)
<1> DEFINE T == Completed(t)
           end == ReadTaken(t, d)[Len(t)]
<1>1. T \in Seq(Char)
  BY CompletedIs
<1>2. Taken(T, d)[Len(T)] = end /\ (Open(T) <=> inQuote)
  BY CompletedTaken
<1>3. end \in Results
  <2>1. Len(t) \in 0 .. Len(t)
    OBVIOUS
  <2> QED BY <2>1, ReadFacts
<1>4. /\ left <=> end.row # << >> \/ end.field # << >>
      /\ got = end.rows \o IF left /\ ~inQuote THEN <<Append(end.row, end.field)>> ELSE << >>
  OBVIOUS
<1>5. /\ Reference(T, d) = end.rows \o IF Unended(T) /\ ~inQuote THEN <<Append(end.row, end.field)>> ELSE << >>
      /\ Blank(T, d) <=> Unended(T) /\ ~left
      /\ Unseen(T, d) = IF Blank(T, d) /\ ~inQuote THEN <<<< << >> >>>> ELSE << >>
  BY <1>2, <1>4 DEF Reference, Blank, Unseen
<1> HIDE DEF T, end
<1>6. ~Unended(T) => ~left /\ ~inQuote
  BY <1>1, <1>2, <1>4, NothingLeft
<1>7. /\ end.rows \in Seq(Row) /\ end.row \in Row /\ end.field \in Field /\ Append(end.row, end.field) \in Row
      /\ end.rows \o << >> = end.rows
  <2>1. end.rows \in Seq(Row) /\ end.row \in Row /\ end.field \in Field
    BY <1>3 DEF Results
  <2>2. Append(end.row, end.field) \in Row
    BY <2>1, Appended DEF Row
  <2>3. end.rows \o << >> = end.rows
    BY <2>1
  <2> QED BY <2>1, <2>2, <2>3
<1>8. left /\ inQuote <=> Open(T) /\ ~Blank(T, d)
  BY <1>2, <1>5, <1>6
<1>9. Reference(T, d) = got \o Unseen(T, d)
  <2>1. CASE Unseen(T, d) = << >>
    <3>1. Unended(T) /\ ~inQuote <=> left /\ ~inQuote
      <4>1. <<<< << >> >>>> # << >>
        OBVIOUS
      <4> QED BY <1>5, <1>6, <2>1, <4>1
    <3>2. got = Reference(T, d)
      BY <1>4, <1>5, <3>1
    <3>3. got \in Seq(Row)
      <4>1. <<Append(end.row, end.field)>> \in Seq(Row)
        BY <1>7
      <4>2. end.rows \o <<Append(end.row, end.field)>> \in Seq(Row)
        BY ONLY <1>7, <4>1
      <4> QED BY ONLY <1>4, <1>7, <4>2
    <3>4. got \o << >> = got
      BY ONLY <3>3
    <3> QED BY ONLY <2>1, <3>2, <3>4
  <2>2. CASE Unseen(T, d) # << >>
    <3>1. Unended(T) /\ ~left /\ ~inQuote
      BY <1>5, <2>2
    <3>2. Unseen(T, d) = <<<< << >> >>>> /\ got = end.rows
      BY <1>4, <1>5, <1>7, <3>1
    <3>3. Append(end.row, end.field) = << << >> >>
      <4>1. end.row = << >> /\ end.field = << >>
        BY <1>4, <3>1
      <4> QED BY <4>1
    <3> QED BY <1>5, <3>1, <3>2, <3>3
  <2> QED BY <2>1, <2>2
<1> QED BY <1>8, <1>9 DEF T
-----------------------------------------------------------------------------
(* Where a step of the parser may begin, and what it takes.                *)

\* At i no escaped quote, no delimiter and no CRLF is half read.
Begins(t, d, i) ==
  i <= Len(t) /\ ~Inside(t, i) =>
    /\ ~(t[i] = Quote /\ SecondQuote(t, i))
    /\ ~InDelimiter(t, d, i)
    /\ ~(t[i] = LF /\ i > 1 /\ t[i - 1] = CR)

\* No plain delimiter contains a quote, a CR or an LF.
LEMMA AfterSpecial ==
  ASSUME NEW t \in Seq(Char), NEW d \in Seq(Char), Plain(d), NEW i \in Nat \ {0}, t[i] \in {Quote, CR, LF}
  PROVE  (~InDelimiter(t, d, i + 1) /\ ~StartsWith(t, d, i)) \/ d = << >>
<1>1. ASSUME NEW k \in 1 .. Len(d) - 1, StartsWith(t, d, (i + 1) - k) PROVE FALSE
  <2>1. k \in DOMAIN d /\ ((i + 1) - k) + k - 1 = i
    OBVIOUS
  <2>2. t[((i + 1) - k) + k - 1] = d[k]
    BY <1>1, <2>1 DEF StartsWith
  <2> QED BY <2>1, <2>2 DEF Plain
<1>2. ASSUME d # << >>, StartsWith(t, d, i) PROVE FALSE
  <2>1. 1 \in DOMAIN d /\ i + 1 - 1 = i
    BY <1>2
  <2>2. t[i + 1 - 1] = d[1]
    BY <1>2, <2>1 DEF StartsWith
  <2> QED BY <2>1, <2>2 DEF Plain
<1> QED BY <1>1, <1>2 DEF InDelimiter

\* A character of the field.
LEMMA DataTaken ==
  ASSUME NEW t \in Seq(Char), NEW d \in Seq(Char) \ {<< >>}, Plain(d),
         NEW i \in 1 .. Len(t), Begins(t, d, i), t[i] # Quote,
         Inside(t, i) \/ /\ ~StartsWith(t, d, i) /\ t[i] # LF
                         /\ t[i] = CR => i < Len(t) /\ t[i + 1] # LF
  PROVE  ReadKind(t, d, i) = "data" /\ (Inside(t, i + 1) <=> Inside(t, i)) /\ Begins(t, d, i + 1)
<1>1. i \in Nat \ {0} /\ Len(t) \in Nat /\ (i + 1) - 1 = i
  OBVIOUS
<1>2. Inside(t, i + 1) <=> Inside(t, i)
  BY <1>1, InsideNext
<1>3. ReadKind(t, d, i) = "data"
  <2>1. CASE Inside(t, i)
    BY <2>1 DEF ReadKind
  <2>2. CASE ~Inside(t, i)
    <3>1. ~InDelimiter(t, d, i)
      BY <1>1, <2>2 DEF Begins
    <3> QED BY <2>2, <3>1 DEF ReadKind
  <2> QED BY <2>1, <2>2
<1>4. ASSUME i + 1 <= Len(t), ~Inside(t, i + 1)
      PROVE  /\ ~(t[i + 1] = Quote /\ SecondQuote(t, i + 1))
             /\ ~InDelimiter(t, d, i + 1)
             /\ ~(t[i + 1] = LF /\ i + 1 > 1 /\ t[(i + 1) - 1] = CR)
  <2>1. ~Inside(t, i) /\ ~StartsWith(t, d, i) /\ ~InDelimiter(t, d, i)
    BY <1>1, <1>2, <1>4 DEF Begins
  <2>2. ~SecondQuote(t, i + 1)
    BY <1>1 DEF SecondQuote
  <2>3. ASSUME NEW k \in 1 .. Len(d) - 1, k < i + 1, StartsWith(t, d, (i + 1) - k) PROVE FALSE
    <3>1. CASE k = 1
      BY <1>1, <2>1, <2>3, <3>1
    <3>2. CASE k # 1
      <4>1. k - 1 \in 1 .. Len(d) - 1 /\ k - 1 < i /\ i - (k - 1) = (i + 1) - k
        BY <2>3, <3>2
      <4>2. StartsWith(t, d, i - (k - 1))
        BY <2>3, <4>1
      <4> QED BY <2>1, <4>1, <4>2 DEF InDelimiter
    <3> QED BY <3>1, <3>2
  <2>4. ~InDelimiter(t, d, i + 1)
    BY <2>3 DEF InDelimiter
  <2>5. ~(t[i + 1] = LF /\ t[(i + 1) - 1] = CR)
    BY <1>1, <2>1
  <2> QED BY <2>2, <2>4, <2>5
<1> QED BY <1>2, <1>3, <1>4 DEF Begins

\* A quote that opens.
LEMMA OpeningTaken ==
  ASSUME NEW t \in Seq(Char), NEW d \in Seq(Char) \ {<< >>},
         NEW i \in 1 .. Len(t), Begins(t, d, i), t[i] = Quote, ~Inside(t, i)
  PROVE  ReadKind(t, d, i) = "nothing" /\ Inside(t, i + 1) /\ Begins(t, d, i + 1)
<1>1. Inside(t, i + 1)
  <2>1. i \in Nat \ {0}
    OBVIOUS
  <2> QED BY <2>1, InsideNext
<1>2. ~SecondQuote(t, i)
  BY DEF Begins
<1> QED BY <1>1, <1>2 DEF ReadKind, Begins

\* What a step may begin at after a character that is in no delimiter.
LEMMA BeginsAfter ==
  ASSUME NEW t \in Seq(Char), NEW d \in Seq(Char) \ {<< >>}, Plain(d),
         NEW i \in Nat \ {0}, t[i] \in {Quote, CR, LF},
         t[i] = Quote /\ Inside(t, i) => i = Len(t) \/ t[i + 1] # Quote,
         t[i] = CR => i = Len(t) \/ t[i + 1] # LF
  PROVE  Begins(t, d, i + 1)
<1>1. ~InDelimiter(t, d, i + 1)
  BY AfterSpecial
<1>2. (i + 1) - 1 = i /\ Len(t) \in Nat
  OBVIOUS
<1> QED BY <1>1, <1>2 DEF Begins, SecondQuote

\* A quote that closes.
LEMMA ClosingTaken ==
  ASSUME NEW t \in Seq(Char), NEW d \in Seq(Char) \ {<< >>}, Plain(d),
         NEW i \in 1 .. Len(t), t[i] = Quote, Inside(t, i), i = Len(t) \/ t[i + 1] # Quote
  PROVE  ReadKind(t, d, i) = "nothing" /\ ~Inside(t, i + 1) /\ Begins(t, d, i + 1)
<1>1. ~Inside(t, i + 1)
  <2>1. i \in Nat \ {0}
    OBVIOUS
  <2> QED BY <2>1, InsideNext
<1>2. Begins(t, d, i + 1)
  BY BeginsAfter DEF Quote, CR
<1>3. ReadKind(t, d, i) = "nothing"
  BY DEF ReadKind
<1> QED BY <1>1, <1>2, <1>3

\* Two quotes within quotes.
LEMMA EscapedTaken ==
  ASSUME NEW t \in Seq(Char), NEW d \in Seq(Char) \ {<< >>},
         NEW i \in 1 .. Len(t) - 1, t[i] = Quote, Inside(t, i), t[i + 1] = Quote
  PROVE  /\ ReadKind(t, d, i) = "nothing" /\ ReadKind(t, d, i + 1) = "data"
         /\ Inside(t, i + 2) /\ Begins(t, d, i + 2)
<1>0. i \in Nat \ {0} /\ i + 1 \in Nat \ {0}
  OBVIOUS
<1>1. ~Inside(t, i + 1) /\ (i + 1) + 1 = i + 2 /\ (i + 1) - 1 = i
  BY <1>0, InsideNext
<1>2. Inside(t, i + 2)
  BY <1>0, <1>1, InsideNext
<1>3. SecondQuote(t, i + 1)
  BY <1>1 DEF SecondQuote
<1>4. ReadKind(t, d, i) = "nothing"
  BY DEF ReadKind
<1>5. ReadKind(t, d, i + 1) = "data"
  BY <1>1, <1>3 DEF ReadKind
<1> QED BY <1>2, <1>4, <1>5 DEF Begins

\* The end of a line in one character: an LF, or a CR at the end of the text.
LEMMA LineEndTaken ==
  ASSUME NEW t \in Seq(Char), NEW d \in Seq(Char) \ {<< >>}, Plain(d),
         NEW i \in 1 .. Len(t), Begins(t, d, i), ~Inside(t, i),
         t[i] = LF \/ (t[i] = CR /\ i = Len(t))
  PROVE  ReadKind(t, d, i) = "row end" /\ ~Inside(t, i + 1) /\ Begins(t, d, i + 1)
<1>1. t[i] # Quote /\ t[i] \in {Quote, CR, LF}
  BY DEF Quote, CR, LF
<1>2. ~Inside(t, i + 1) /\ i \in Nat \ {0}
  <2>1. i \in Nat \ {0}
    OBVIOUS
  <2> QED BY <1>1, <2>1, InsideNext
<1>3. Begins(t, d, i + 1)
  BY <1>1, BeginsAfter DEF CR, LF
<1>4. ~StartsWith(t, d, i) /\ ~InDelimiter(t, d, i)
  BY <1>1, AfterSpecial DEF Begins
<1>5. ReadKind(t, d, i) = "row end"
  <2>1. CASE t[i] = LF
    <3>1. ~(i > 1 /\ t[i - 1] = CR) /\ t[i] # CR
      BY <2>1 DEF Begins, CR, LF
    <3> QED BY <1>1, <1>4, <2>1, <3>1 DEF ReadKind
  <2>2. CASE t[i] = CR /\ i = Len(t)
    <3>1. t[i] # LF
      BY <2>2 DEF CR, LF
    <3> QED BY <1>1, <1>4, <2>2, <3>1 DEF ReadKind
  <2> QED BY <2>1, <2>2
<1> QED BY <1>2, <1>3, <1>5

\* The end of a line in two.
LEMMA CrLfTaken ==
  ASSUME NEW t \in Seq(Char), NEW d \in Seq(Char) \ {<< >>}, Plain(d),
         NEW i \in 1 .. Len(t) - 1, Begins(t, d, i), ~Inside(t, i), t[i] = CR, t[i + 1] = LF
  PROVE  /\ ReadKind(t, d, i) = "row end" /\ ReadKind(t, d, i + 1) = "nothing"
         /\ ~Inside(t, i + 2) /\ Begins(t, d, i + 2)
<1>1. t[i] # Quote /\ t[i] \in {Quote, CR, LF} /\ t[i + 1] # Quote /\ t[i + 1] # CR /\ t[i + 1] \in {Quote, CR, LF}
  BY DEF Quote, CR, LF
<1>2. (i + 1) + 1 = i + 2 /\ (i + 1) - 1 = i /\ i \in Nat \ {0} /\ i + 1 \in Nat \ {0}
  OBVIOUS
<1>3. ~Inside(t, i + 1)
  BY <1>1, <1>2, InsideNext
<1>4. ~Inside(t, i + 2)
  BY <1>1, <1>2, <1>3, InsideNext
<1>5. Begins(t, d, i + 2)
  BY <1>1, <1>2, BeginsAfter
<1>6. ~StartsWith(t, d, i) /\ ~InDelimiter(t, d, i)
  BY <1>1, <1>2, AfterSpecial DEF Begins
<1>7. ~StartsWith(t, d, i + 1) /\ ~InDelimiter(t, d, i + 1)
  BY <1>1, <1>2, AfterSpecial
<1>8. ReadKind(t, d, i) = "row end"
  BY <1>1, <1>6 DEF ReadKind
<1>9. ReadKind(t, d, i + 1) = "nothing"
  BY <1>1, <1>2, <1>3, <1>7 DEF ReadKind
<1> QED BY <1>4, <1>5, <1>8, <1>9

\* A delimiter.
LEMMA DelimiterTaken ==
  ASSUME NEW t \in Seq(Char), NEW d \in Seq(Char) \ {<< >>}, Plain(d),
         NEW i \in 1 .. Len(t), Begins(t, d, i), ~Inside(t, i), StartsWith(t, d, i)
  PROVE  /\ i + Len(d) - 1 <= Len(t)
         /\ ReadKind(t, d, i) = "separator" /\ \A k \in 1 .. Len(d) - 1 : ReadKind(t, d, i + k) = "nothing"
         /\ ~Inside(t, i + Len(d)) /\ Begins(t, d, i + Len(d))
<1>1. /\ Len(d) \in Nat \ {0} /\ DOMAIN d = 1 .. Len(d) /\ Len(t) \in Nat /\ i \in Nat \ {0}
      /\ i + Len(d) - 1 <= Len(t)
  BY DEF StartsWith
<1>2. \A k \in 1 .. Len(d) : t[i + k - 1] = d[k] /\ d[k] \notin {Quote, CR, LF}
  BY <1>1 DEF StartsWith, Plain
<1>3. \A k \in 0 .. Len(d) : ~Inside(t, i + k)
  <2> DEFINE T == {k \in 0 .. Len(d) : Inside(t, i + k)}
  <2>1. SUFFICES ASSUME T # {} PROVE FALSE
    OBVIOUS
  <2>2. PICK k \in T : \A l \in T : k <= l
    <3>1. T \subseteq Nat
      BY <1>1
    <3> HIDE DEF T
    <3> QED BY <2>1, <3>1, LeastElement
  <2>3. k # 0
    BY <2>2
  <2>4. k - 1 \in 0 .. Len(d) /\ k \in 1 .. Len(d) /\ k - 1 \notin T
    BY <1>1, <2>2, <2>3
  <2>5. ~Inside(t, i + k - 1) /\ i + (k - 1) = i + k - 1 /\ (i + k - 1) + 1 = i + k /\ i + k - 1 \in Nat \ {0}
    BY <1>1, <2>4
  <2>6. t[i + k - 1] # Quote
    BY <1>2, <2>4
  <2>7. ~Inside(t, i + k)
    BY <2>5, <2>6, InsideNext
  <2> QED BY <2>2, <2>7
<1>4. ReadKind(t, d, i) = "separator"
  <2>1. t[i] # Quote
    BY <1>1, <1>2
  <2> QED BY <2>1 DEF ReadKind
<1>5. ASSUME NEW n \in 1 .. Len(d) - 1 PROVE ~StartsWith(t, d, i + n)
  <2>1. PICK k \in 1 .. Len(d) - n : d[k] # d[k + n]
    BY <1>5 DEF Plain
  <2>2. k \in 1 .. Len(d) /\ k + n \in 1 .. Len(d)
    BY <1>1, <2>1
  <2>3. t[i + (k + n) - 1] = d[k + n] /\ i + (k + n) - 1 = (i + n) + k - 1
    BY <1>1, <1>2, <2>2
  <2> QED BY <1>1, <2>1, <2>2, <2>3 DEF StartsWith
<1>6. ASSUME NEW k \in 1 .. Len(d) - 1 PROVE ReadKind(t, d, i + k) = "nothing"
  <2>1. t[i + (k + 1) - 1] = d[k + 1] /\ i + (k + 1) - 1 = i + k /\ d[k + 1] # Quote
    BY <1>1, <1>2
  <2>2. ~Inside(t, i + k) /\ ~StartsWith(t, d, i + k)
    <3>1. k \in 0 .. Len(d)
      BY <1>1
    <3> QED BY <1>3, <1>5, <3>1
  <2>3. (i + k) - k = i /\ k < i + k
    BY <1>1
  <2>4. InDelimiter(t, d, i + k)
    BY <2>3 DEF InDelimiter
  <2> QED BY <2>1, <2>2, <2>4 DEF ReadKind
<1>7. Begins(t, d, i + Len(d))
  <2> DEFINE j == i + Len(d)
  <2>1. j - 1 = i + Len(d) - 1 /\ Len(d) \in 1 .. Len(d) /\ j \in Nat
    BY <1>1
  <2>2. t[j - 1] \notin {Quote, CR, LF}
    BY <1>2, <2>1
  <2>3. ASSUME NEW k \in 1 .. Len(d) - 1, StartsWith(t, d, j - k) PROVE FALSE
    <3>1. Len(d) - k \in 1 .. Len(d) - 1 /\ i + (Len(d) - k) = j - k
      BY <1>1
    <3> QED BY <1>5, <2>3, <3>1
  <2>4. ~InDelimiter(t, d, j)
    BY <2>3 DEF InDelimiter
  <2> QED BY <2>2, <2>4 DEF Begins, SecondQuote
<1>8. ~Inside(t, i + Len(d))
  BY <1>1, <1>3
<1> QED BY <1>1, <1>4, <1>6, <1>7, <1>8
-----------------------------------------------------------------------------
(* The parser, from a text that starts m characters into the whole one.    *)

Records == [row : Row, field : Field, inQuote : BOOLEAN]
Positions == [i : Nat, rec : Records, rows : Seq(Row)]

\* The first n characters gave the record r and the rows got.
WasRead(t, d, n, r, got) ==
  LET taken == ReadTaken(t, d)[n] IN
  /\ r.row = taken.row /\ r.field = taken.field /\ (r.inQuote <=> Inside(t, n + 1))
  /\ got = taken.rows
  /\ Begins(t, d, n + 1)

\* The buffer s is a part of the text that starts behind its first m characters
\* and reaches its end at eof; it cuts no delimiter.
Window(t, d, s, m, eof) ==
  /\ m \in Nat /\ s \in Seq(Char) /\ eof \in BOOLEAN
  /\ m + Len(s) <= Len(t) /\ \A k \in 1 .. Len(s) : s[k] = t[m + k]
  /\ Len(d) = 1 \/ m + Len(s) = Len(t)
  /\ eof => m + Len(s) = Len(t)

\* What one more character adds, by its kind.
LEMMA TakenNext ==
  ASSUME NEW t \in Seq(Char), NEW d \in Seq(Char) \ {<< >>}, Plain(d), NEW i \in 1 .. Len(t)
  PROVE  LET before == ReadTaken(t, d)[i - 1]
             after == ReadTaken(t, d)[i] IN
         /\ ReadKind(t, d, i) = "data" =>
              after.row = before.row /\ after.field = Append(before.field, t[i]) /\ after.rows = before.rows
         /\ ReadKind(t, d, i) = "separator" =>
              after.row = Append(before.row, before.field) /\ after.field = << >> /\ after.rows = before.rows
         /\ ReadKind(t, d, i) = "row end" =>
              /\ after.rows = Append(before.rows, Append(before.row, before.field))
              /\ after.row = << >> /\ after.field = << >>
         /\ ReadKind(t, d, i) = "nothing" => after = before
<1> DEFINE before == ReadTaken(t, d)[i - 1]
           after == ReadTaken(t, d)[i]
<1>1. i - 1 \in 0 .. Len(t)
  OBVIOUS
<1>2. after = Take(before, ReadKind(t, d, i), t[i]) /\ before \in Results
  BY <1>1, ReadFacts
<1> HIDE DEF before, after
<1>3. ReadKind(t, d, i) = "data" =>
        after.row = before.row /\ after.field = Append(before.field, t[i]) /\ after.rows = before.rows
  BY <1>2 DEF Take, Results
<1>4. ReadKind(t, d, i) = "separator" =>
        after.row = Append(before.row, before.field) /\ after.field = << >> /\ after.rows = before.rows
  BY <1>2 DEF Take, Results
<1>5. ReadKind(t, d, i) = "row end" =>
        /\ after.rows = Append(before.rows, Append(before.row, before.field))
        /\ after.row = << >> /\ after.field = << >>
  BY <1>2 DEF Take, Results
<1>6. ReadKind(t, d, i) = "nothing" => after = before
  BY <1>2 DEF Take
<1> QED BY <1>3, <1>4, <1>5, <1>6 DEF before, after

\* What the reference has taken stays over the rest of a delimiter.
LEMMA TakenAcross ==
  ASSUME NEW t \in Seq(Char), NEW d \in Seq(Char) \ {<< >>}, Plain(d), NEW i \in 1 .. Len(t), NEW n \in Nat, i + n <= Len(t),
         \A k \in 1 .. n : ReadKind(t, d, i + k) = "nothing"
  PROVE  ReadTaken(t, d)[i + n] = ReadTaken(t, d)[i]
<1> DEFINE T == {k \in 0 .. n : ReadTaken(t, d)[i + k] # ReadTaken(t, d)[i]}
<1>1. SUFFICES ASSUME T # {} PROVE FALSE
  <2>1. n \in 0 .. n
    OBVIOUS
  <2> QED BY <2>1
<1>2. PICK k \in T : \A l \in T : k <= l
  <2>1. T \subseteq Nat
    OBVIOUS
  <2> HIDE DEF T
  <2> QED BY <1>1, <2>1, LeastElement
<1>3. k # 0
  BY <1>2
<1>4. k - 1 \in 0 .. n /\ k \in 1 .. n /\ k - 1 \notin T
  BY <1>2, <1>3
<1>5. ReadTaken(t, d)[i + (k - 1)] = ReadTaken(t, d)[i] /\ i + k \in 1 .. Len(t) /\ (i + k) - 1 = i + (k - 1)
  BY <1>4
<1>6. ReadTaken(t, d)[i + k] = ReadTaken(t, d)[(i + k) - 1]
  BY <1>4, <1>5, TakenNext
<1> QED BY <1>2, <1>5, <1>6

\* Rows given before and now, and one more.
LEMMA ConcatAppend ==
  ASSUME NEW S, NEW a \in Seq(S), NEW b \in Seq(S), NEW e \in S
  PROVE  a \o Append(b, e) = Append(a \o b, e) /\ Append(b, e) \in Seq(S) /\ a \o b \in Seq(S)
OBVIOUS

\* The parts of a position of the parser.
LEMMA PositionTypes ==
  ASSUME NEW p \in Positions
  PROVE  /\ p.i \in Nat /\ p.rec \in Records /\ p.rows \in Seq(Row)
         /\ p.rec.row \in Row /\ p.rec.field \in Field /\ p.rec.inQuote \in BOOLEAN
         /\ p = [i |-> p.i, rec |-> p.rec, rows |-> p.rows]
         /\ p.rec = [row |-> p.rec.row, field |-> p.rec.field, inQuote |-> p.rec.inQuote]
         /\ << >> \in Field /\ << >> \in Row /\ Append(p.rec.row, p.rec.field) \in Row
         /\ Append(p.rows, Append(p.rec.row, p.rec.field)) \in Seq(Row)
<1>1. /\ p.i \in Nat /\ p.rec \in Records /\ p.rows \in Seq(Row)
      /\ p.rec.row \in Row /\ p.rec.field \in Field /\ p.rec.inQuote \in BOOLEAN
      /\ p = [i |-> p.i, rec |-> p.rec, rows |-> p.rows]
      /\ p.rec = [row |-> p.rec.row, field |-> p.rec.field, inQuote |-> p.rec.inQuote]
  BY DEF Positions, Records
<1>2. << >> \in Field
  BY DEF Field
<1>3. << >> \in Row /\ Append(p.rec.row, p.rec.field) \in Row
  BY <1>1, Appended DEF Row
<1> QED BY <1>1, <1>2, <1>3, Appended

\* A row is given with the field under way at its end.
LEMMA RowAppended ==
  ASSUME NEW R \in Seq(Row), NEW p \in Positions, NEW got, got = Append(p.rows, Append(p.rec.row, p.rec.field))
  PROVE  R \o got = Append(R \o p.rows, Append(p.rec.row, p.rec.field))
<1> DEFINE e == Append(p.rec.row, p.rec.field)
           b == p.rows
<1>1. b \in Seq(Row) /\ e \in Row
  BY PositionTypes
<1> HIDE DEF e, b
<1>2. R \o Append(b, e) = Append(R \o b, e)
  BY <1>1, ConcatAppend
<1> QED BY <1>2 DEF e, b

\* The parser sees a delimiter in its window exactly where the text has one.
LEMMA StartsInWindow ==
  ASSUME NEW t \in Seq(Char), NEW d \in Seq(Char) \ {<< >>}, NEW s, NEW m, NEW eof,
         Window(t, d, s, m, eof), NEW i \in 1 .. Len(s)
  PROVE  StartsWith(s, d, i) <=> StartsWith(t, d, m + i)
<1>1. /\ m \in Nat /\ Len(s) \in Nat /\ Len(t) \in Nat /\ m + Len(s) <= Len(t) /\ Len(d) \in Nat \ {0}
      /\ DOMAIN d = 1 .. Len(d) /\ (Len(d) = 1 \/ m + Len(s) = Len(t))
      /\ i \in Nat /\ i <= Len(s)
      /\ \A k \in 1 .. Len(s) : s[k] = t[m + k]
  BY DEF Window
<1>2. i + Len(d) - 1 <= Len(s) <=> (m + i) + Len(d) - 1 <= Len(t)
  <2>1. CASE Len(d) = 1
    BY <1>1, <2>1
  <2>2. CASE m + Len(s) = Len(t)
    BY <1>1, <2>2
  <2> QED BY <1>1, <2>1, <2>2
<1>3. ASSUME i + Len(d) - 1 <= Len(s), NEW k \in DOMAIN d PROVE s[i + k - 1] = t[(m + i) + k - 1]
  <2>1. i + k - 1 \in 1 .. Len(s) /\ m + (i + k - 1) = (m + i) + k - 1
    BY <1>1, <1>3
  <2> QED BY <1>1, <2>1
<1> QED BY <1>2, <1>3 DEF StartsWith

\* The moves keep the types and change what their names say.
LEMMA DataMoves ==
  ASSUME NEW p \in Positions, NEW s, s[p.i] \in Char
  PROVE  /\ Data(p, s) \in Positions /\ Data(p, s).i = p.i + 1 /\ Data(p, s).rows = p.rows
         /\ Data(p, s).rec.row = p.rec.row /\ Data(p, s).rec.inQuote = p.rec.inQuote
         /\ Data(p, s).rec.field = Append(p.rec.field, s[p.i])
<1>1. Append(p.rec.field, s[p.i]) \in Field
  BY PositionTypes, Appended DEF Field
<1>2. p.i + 1 \in Nat
  BY DEF Positions
<1> QED BY <1>1, <1>2, PositionTypes DEF Data, Positions, Records

\* Separator ends a field.
LEMMA SeparatorMoves ==
  ASSUME NEW p \in Positions, NEW d, Len(d) \in Nat
  PROVE  /\ Separator(p, d) \in Positions /\ Separator(p, d).i = p.i + Len(d) /\ Separator(p, d).rows = p.rows
         /\ Separator(p, d).rec.row = Append(p.rec.row, p.rec.field) /\ Separator(p, d).rec.field = << >>
         /\ Separator(p, d).rec.inQuote = p.rec.inQuote
<1>1. p.i + Len(d) \in Nat
  BY DEF Positions
<1> QED BY <1>1, PositionTypes DEF Separator, WithField, Positions, Records

\* EmitRow ends a row.
LEMMA RowMoves ==
  ASSUME NEW p \in Positions, NEW w \in Nat
  PROVE  /\ EmitRow(p, w) \in Positions /\ EmitRow(p, w).i = p.i + w
         /\ EmitRow(p, w).rows = Append(p.rows, Append(p.rec.row, p.rec.field))
         /\ EmitRow(p, w).rec.row = << >> /\ EmitRow(p, w).rec.field = << >> /\ ~EmitRow(p, w).rec.inQuote
<1>1. p.i + w \in Nat
  BY DEF Positions
<1>2. NewRecord \in Records
  BY PositionTypes DEF NewRecord, Records
<1>3. /\ EmitRow(p, w) \in Positions /\ EmitRow(p, w).i = p.i + w /\ EmitRow(p, w).rec = NewRecord
      /\ EmitRow(p, w).rows = Append(p.rows, Append(p.rec.row, p.rec.field))
  BY <1>1, <1>2, PositionTypes DEF EmitRow, WithField, Positions
<1> QED BY <1>3 DEF NewRecord

\* OpenQuote and CloseQuote change whether the record is in quotes.
LEMMA QuoteMoves ==
  ASSUME NEW p \in Positions
  PROVE  /\ OpenQuote(p) \in Positions /\ OpenQuote(p).i = p.i + 1 /\ OpenQuote(p).rows = p.rows
         /\ OpenQuote(p).rec.row = p.rec.row /\ OpenQuote(p).rec.field = p.rec.field /\ OpenQuote(p).rec.inQuote
         /\ CloseQuote(p) \in Positions /\ CloseQuote(p).i = p.i + 1 /\ CloseQuote(p).rows = p.rows
         /\ CloseQuote(p).rec.row = p.rec.row /\ CloseQuote(p).rec.field = p.rec.field /\ ~CloseQuote(p).rec.inQuote
<1>1. p.i + 1 \in Nat
  BY DEF Positions
<1>2. /\ OpenQuote(p) \in Positions /\ OpenQuote(p).i = p.i + 1 /\ OpenQuote(p).rows = p.rows
      /\ OpenQuote(p).rec.row = p.rec.row /\ OpenQuote(p).rec.field = p.rec.field /\ OpenQuote(p).rec.inQuote
  BY <1>1, PositionTypes DEF OpenQuote, Positions, Records
<1>3. /\ CloseQuote(p) \in Positions /\ CloseQuote(p).i = p.i + 1 /\ CloseQuote(p).rows = p.rows
      /\ CloseQuote(p).rec.row = p.rec.row /\ CloseQuote(p).rec.field = p.rec.field /\ ~CloseQuote(p).rec.inQuote
  BY <1>1, PositionTypes DEF CloseQuote, Positions, Records
<1> QED BY <1>2, <1>3

\* EscapedQuote adds one quote to the field and passes two.
LEMMA EscapeMoves ==
  ASSUME NEW p \in Positions, Quote \in Char
  PROVE  /\ EscapedQuote(p) \in Positions /\ EscapedQuote(p).i = p.i + 2 /\ EscapedQuote(p).rows = p.rows
         /\ EscapedQuote(p).rec.row = p.rec.row /\ EscapedQuote(p).rec.field = Append(p.rec.field, Quote)
         /\ EscapedQuote(p).rec.inQuote = p.rec.inQuote
<1>1. Append(p.rec.field, Quote) \in Field
  BY PositionTypes, Appended DEF Field
<1>2. p.i + 2 \in Nat
  BY DEF Positions
<1> QED BY <1>1, <1>2, PositionTypes DEF EscapedQuote, Positions, Records

-----------------------------------------------------------------------------
(* An iteration reads what the reference takes, or waits for more.         *)

\* The reader at the position p, with the rows R of the chunks before.
IsReading(t, d, s, m, R, p) ==
  /\ p \in Positions /\ p.i \in 1 .. Len(s) + 1
  /\ WasRead(t, d, m + p.i - 1, p.rec, R \o p.rows)

\* A character of data keeps what was read right.
LEMMA DataReads ==
  ASSUME NEW t \in Seq(Char), NEW d \in Seq(Char) \ {<< >>}, Plain(d), NEW s, NEW m, NEW eof,
         Window(t, d, s, m, eof), NEW R \in Seq(Row), NEW p, IsReading(t, d, s, m, R, p), p.i <= Len(s),
         s[p.i] # Quote,
         p.rec.inQuote \/ /\ ~StartsWith(s, d, p.i) /\ s[p.i] # LF
                          /\ s[p.i] = CR => p.i < Len(s) /\ s[p.i + 1] # LF
  PROVE  IsReading(t, d, s, m, R, Data(p, s)) /\ Data(p, s).i > p.i
<1> DEFINE n == m + p.i
<1>1. /\ m \in Nat /\ s \in Seq(Char) /\ Len(s) \in Nat /\ Len(t) \in Nat /\ m + Len(s) <= Len(t)
      /\ \A k \in 1 .. Len(s) : s[k] = t[m + k]
  BY DEF Window
<1>2. /\ p \in Positions /\ p.i \in 1 .. Len(s) /\ p.i \in Nat
      /\ WasRead(t, d, n - 1, p.rec, R \o p.rows)
  BY <1>1 DEF IsReading
<1>3. n \in 1 .. Len(t) /\ (n - 1) + 1 = n /\ t[n] = s[p.i] /\ (p.i < Len(s) => n < Len(t) /\ t[n + 1] = s[p.i + 1])
  <2>0. /\ m \in Nat /\ Len(s) \in Nat /\ Len(t) \in Nat /\ m + Len(s) <= Len(t)
        /\ p.i \in Nat /\ p.i <= Len(s)
    BY <1>1, <1>2
  <2>1. p.i < Len(s) => p.i + 1 \in 1 .. Len(s) /\ m + (p.i + 1) = n + 1 /\ n < Len(t)
    BY ONLY <2>0
  <2>2. n \in 1 .. Len(t) /\ (n - 1) + 1 = n
    BY <1>1, <1>2
  <2>3. t[n] = s[p.i]
    BY <1>1, <1>2
  <2>4. p.i < Len(s) => t[n + 1] = s[p.i + 1]
    BY <1>1, <2>1
  <2> QED BY <2>1, <2>2, <2>3, <2>4
<1>4. Begins(t, d, n) /\ (p.rec.inQuote <=> Inside(t, n))
  BY <1>2, <1>3 DEF WasRead
<1>5. StartsWith(s, d, p.i) <=> StartsWith(t, d, n)
  BY <1>2, StartsInWindow
<1> HIDE DEF n
<1>6. ReadKind(t, d, n) = "data" /\ (Inside(t, n + 1) <=> Inside(t, n)) /\ Begins(t, d, n + 1)
  BY <1>3, <1>4, <1>5, DataTaken
<1>7. /\ ReadTaken(t, d)[n].row = ReadTaken(t, d)[n - 1].row
      /\ ReadTaken(t, d)[n].field = Append(ReadTaken(t, d)[n - 1].field, t[n])
      /\ ReadTaken(t, d)[n].rows = ReadTaken(t, d)[n - 1].rows
  BY <1>3, <1>6, TakenNext
<1> DEFINE q == Data(p, s)
<1>8. /\ q \in Positions /\ q.i = p.i + 1 /\ q.rows = p.rows
      /\ q.rec.row = p.rec.row /\ q.rec.inQuote = p.rec.inQuote
      /\ q.rec.field = Append(p.rec.field, s[p.i])
  <2>1. s[p.i] \in Char
    BY <1>1, <1>2
  <2> QED BY <1>2, <2>1, DataMoves
<1> HIDE DEF q
<1>9. m + q.i - 1 = n
  BY <1>1, <1>2, <1>8 DEF n
<1>10. WasRead(t, d, n, q.rec, R \o q.rows)
  BY <1>2, <1>3, <1>4, <1>6, <1>7, <1>8, SMTT(30) DEF WasRead
<1>11. q.i \in 1 .. Len(s) + 1 /\ q.i > p.i
  BY ONLY <1>1, <1>2, <1>8
<1>12. WasRead(t, d, m + q.i - 1, q.rec, R \o q.rows)
  BY ONLY <1>9, <1>10
<1>13. IsReading(t, d, s, m, R, q)
  BY ONLY <1>8, <1>11, <1>12 DEF IsReading
<1> QED BY <1>11, <1>13 DEF q

\* So does a whole delimiter.
LEMMA SeparatorReads ==
  ASSUME NEW t \in Seq(Char), NEW d \in Seq(Char) \ {<< >>}, Plain(d), NEW s, NEW m, NEW eof,
         Window(t, d, s, m, eof), NEW R \in Seq(Row), NEW p, IsReading(t, d, s, m, R, p), p.i <= Len(s),
         ~p.rec.inQuote, StartsWith(s, d, p.i)
  PROVE  IsReading(t, d, s, m, R, Separator(p, d)) /\ Separator(p, d).i > p.i
<1> DEFINE n == m + p.i
           l == Len(d)
<1>1. /\ m \in Nat /\ s \in Seq(Char) /\ Len(s) \in Nat /\ Len(t) \in Nat /\ m + Len(s) <= Len(t)
      /\ l \in Nat \ {0}
  BY DEF Window
<1>2. /\ p \in Positions /\ p.i \in 1 .. Len(s) /\ p.i \in Nat
      /\ WasRead(t, d, n - 1, p.rec, R \o p.rows)
  BY <1>1 DEF IsReading
<1>3. n \in 1 .. Len(t) /\ (n - 1) + 1 = n
  BY <1>1, <1>2
<1>4. Begins(t, d, n) /\ ~Inside(t, n) /\ StartsWith(t, d, n)
  BY <1>2, <1>3, StartsInWindow DEF WasRead
<1>5. p.i + l - 1 <= Len(s)
  BY DEF StartsWith
<1> HIDE DEF n
<1>6. /\ n + l - 1 <= Len(t)
      /\ ReadKind(t, d, n) = "separator" /\ \A k \in 1 .. l - 1 : ReadKind(t, d, n + k) = "nothing"
      /\ ~Inside(t, n + l) /\ Begins(t, d, n + l)
  BY <1>3, <1>4, DelimiterTaken
<1> HIDE DEF l
<1>7. /\ ReadTaken(t, d)[n].row = Append(ReadTaken(t, d)[n - 1].row, ReadTaken(t, d)[n - 1].field)
      /\ ReadTaken(t, d)[n].field = << >>
      /\ ReadTaken(t, d)[n].rows = ReadTaken(t, d)[n - 1].rows
  BY <1>3, <1>6, TakenNext
<1>8. ReadTaken(t, d)[n + (l - 1)] = ReadTaken(t, d)[n]
  <2>1. l - 1 \in Nat /\ n + (l - 1) <= Len(t)
    BY <1>1, <1>3, <1>6
  <2> QED BY <1>3, <1>6, <2>1, TakenAcross
<1> DEFINE q == Separator(p, d)
<1>9. /\ q \in Positions /\ q.i = p.i + l /\ q.rows = p.rows
      /\ q.rec.row = Append(p.rec.row, p.rec.field) /\ q.rec.field = << >> /\ q.rec.inQuote = p.rec.inQuote
  BY <1>1, <1>2, SeparatorMoves DEF l
<1> HIDE DEF q
<1>10. m + q.i - 1 = n + (l - 1) /\ (n + (l - 1)) + 1 = n + l /\ q.i \in 1 .. Len(s) + 1 /\ q.i > p.i
  <2>1. m \in Nat /\ l \in Nat /\ 1 <= l /\ p.i \in Nat /\ 1 <= p.i /\ Len(s) \in Nat
    BY <1>1, <1>2
  <2>2. n = m + p.i
    BY DEF n
  <2>3. q.i = p.i + l
    BY <1>9
  <2> QED BY ONLY <1>5, <2>1, <2>2, <2>3
<1>11. WasRead(t, d, n + (l - 1), q.rec, R \o q.rows)
  BY <1>2, <1>6, <1>7, <1>8, <1>9, <1>10 DEF WasRead
<1> QED BY <1>9, <1>10, <1>11 DEF IsReading, q

\* So does the end of a row, of one character or of two.
LEMMA LineEndReads ==
  ASSUME NEW t \in Seq(Char), NEW d \in Seq(Char) \ {<< >>}, Plain(d), NEW s, NEW m, NEW eof,
         Window(t, d, s, m, eof), NEW R \in Seq(Row), NEW p, IsReading(t, d, s, m, R, p), p.i <= Len(s),
         ~p.rec.inQuote, NEW w \in {1, 2},
         w = 1 => s[p.i] = LF \/ (s[p.i] = CR /\ p.i = Len(s) /\ eof),
         w = 2 => p.i < Len(s) /\ s[p.i] = CR /\ s[p.i + 1] = LF
  PROVE  IsReading(t, d, s, m, R, EmitRow(p, w)) /\ EmitRow(p, w).i > p.i
<1> DEFINE n == m + p.i
<1>0. /\ m \in Nat /\ Len(s) \in Nat /\ Len(t) \in Nat /\ m + Len(s) <= Len(t)
      /\ eof => m + Len(s) = Len(t)
  BY DEF Window
<1>1. s \in Seq(Char) /\ \A k \in 1 .. Len(s) : s[k] = t[m + k]
  BY DEF Window
<1>2. /\ p \in Positions /\ p.i \in 1 .. Len(s) /\ p.i \in Nat
      /\ WasRead(t, d, n - 1, p.rec, R \o p.rows)
  BY <1>0 DEF IsReading
<1>p. p.i \in Nat /\ 1 <= p.i /\ p.i <= Len(s)
  BY <1>2
<1>3. n \in 1 .. Len(t) /\ (n - 1) + 1 = n /\ t[n] = s[p.i]
  <2>1. n \in 1 .. Len(t) /\ (n - 1) + 1 = n
    BY <1>0, <1>2
  <2> QED BY <1>1, <1>2, <2>1
<1>4. Begins(t, d, n) /\ ~Inside(t, n)
  BY <1>2, <1>3 DEF WasRead
<1>w. w \in Nat
  OBVIOUS
<1> DEFINE q == EmitRow(p, w)
<1>5. /\ q \in Positions /\ q.i = p.i + w /\ q.rows = Append(p.rows, Append(p.rec.row, p.rec.field))
      /\ q.rec.row = << >> /\ q.rec.field = << >> /\ ~q.rec.inQuote
  BY <1>2, <1>w, RowMoves
<1>q. q.i = p.i + w
  BY <1>5
<1>6. R \o q.rows = Append(R \o p.rows, Append(p.rec.row, p.rec.field))
  BY <1>2, <1>5, RowAppended
<1> HIDE DEF q
<1>7. ReadKind(t, d, n) = "row end" => /\ ReadTaken(t, d)[n].rows = R \o q.rows
                                   /\ ReadTaken(t, d)[n].row = << >> /\ ReadTaken(t, d)[n].field = << >>
  <2>1. ReadTaken(t, d)[n - 1].rows = R \o p.rows /\ ReadTaken(t, d)[n - 1].row = p.rec.row /\ ReadTaken(t, d)[n - 1].field = p.rec.field
    BY <1>2 DEF WasRead
  <2> HIDE DEF n
  <2>2. ASSUME ReadKind(t, d, n) = "row end"
        PROVE  /\ ReadTaken(t, d)[n].rows = Append(ReadTaken(t, d)[n - 1].rows, Append(ReadTaken(t, d)[n - 1].row, ReadTaken(t, d)[n - 1].field))
               /\ ReadTaken(t, d)[n].row = << >> /\ ReadTaken(t, d)[n].field = << >>
    BY <1>3, <2>2, TakenNext
  <2> QED BY <1>6, <2>1, <2>2
<1>8. CASE w = 1
  <2>1. t[n] = LF \/ (t[n] = CR /\ n = Len(t))
    BY <1>0, <1>2, <1>3, <1>8
  <2> HIDE DEF n
  <2>2. ReadKind(t, d, n) = "row end" /\ ~Inside(t, n + 1) /\ Begins(t, d, n + 1)
    BY <1>3, <1>4, <2>1, LineEndTaken
  <2>3. WasRead(t, d, n, q.rec, R \o q.rows)
    BY <1>5, <1>7, <2>2 DEF WasRead
  <2>4. m + q.i - 1 = n /\ q.i \in 1 .. Len(s) + 1 /\ q.i > p.i
    BY ONLY <1>0, <1>p, <1>q, <1>8 DEF n
  <2> QED BY <1>5, <2>3, <2>4 DEF IsReading, q
<1>9. CASE w = 2
  <2>0. p.i < Len(s)
    BY <1>9
  <2>1. p.i + 1 \in 1 .. Len(s) /\ m + (p.i + 1) = n + 1 /\ n \in 1 .. Len(t) - 1 /\ n + 1 \in 1 .. Len(t) /\ (n + 1) - 1 = n
    <3>1. p.i + 1 \in 1 .. Len(s)
      BY ONLY <1>0, <1>p, <2>0
    <3>2. m + (p.i + 1) = n + 1 /\ (n + 1) - 1 = n
      BY ONLY <1>0, <1>p
    <3>3. n \in 1 .. Len(t) - 1
      BY ONLY <1>0, <1>p, <2>0
    <3>4. n + 1 \in 1 .. Len(t)
      BY ONLY <1>0, <1>p, <2>0
    <3> QED BY ONLY <3>1, <3>2, <3>3, <3>4
  <2>2. t[n] = CR /\ t[n + 1] = LF
    BY <1>1, <1>3, <1>9, <2>1
  <2> HIDE DEF n
  <2>3. /\ ReadKind(t, d, n) = "row end" /\ ReadKind(t, d, n + 1) = "nothing"
        /\ ~Inside(t, n + 2) /\ Begins(t, d, n + 2)
    BY <1>4, <2>1, <2>2, CrLfTaken
  <2> DEFINE j == n + 1
  <2>4. ReadTaken(t, d)[n + 1] = ReadTaken(t, d)[n]
    <3>1. j \in 1 .. Len(t) /\ j - 1 = n /\ ReadKind(t, d, j) = "nothing"
      BY <2>1, <2>3
    <3> HIDE DEF j
    <3>2. ReadTaken(t, d)[j] = ReadTaken(t, d)[n]
      BY <3>1, TakenNext
    <3> QED BY <3>2 DEF j
  <2>5. (n + 1) + 1 = n + 2
    BY <1>3
  <2>6. WasRead(t, d, n + 1, q.rec, R \o q.rows)
    BY <1>5, <1>7, <2>3, <2>4, <2>5 DEF WasRead
  <2>7. m + q.i - 1 = n + 1 /\ q.i \in 1 .. Len(s) + 1 /\ q.i > p.i
    <3>1. m + q.i - 1 = n + 1
      BY ONLY <1>0, <1>p, <1>q, <1>9 DEF n
    <3>2. q.i \in 1 .. Len(s) + 1
      BY ONLY <1>0, <1>p, <1>q, <1>9, <2>0
    <3>3. q.i > p.i
      BY ONLY <1>p, <1>q, <1>9
    <3> QED BY ONLY <3>1, <3>2, <3>3
  <2> QED BY <1>5, <2>6, <2>7 DEF IsReading, q
<1> QED BY <1>8, <1>9

\* So does a quote, opening, closing or escaped.
LEMMA QuoteReads ==
  ASSUME NEW t \in Seq(Char), NEW d \in Seq(Char) \ {<< >>}, Plain(d), NEW s, NEW m, NEW eof,
         Window(t, d, s, m, eof), NEW R \in Seq(Row), NEW p, IsReading(t, d, s, m, R, p), p.i <= Len(s),
         s[p.i] = Quote
  PROVE  /\ ~p.rec.inQuote => IsReading(t, d, s, m, R, OpenQuote(p)) /\ OpenQuote(p).i > p.i
         /\ p.rec.inQuote /\ ((p.i < Len(s) /\ s[p.i + 1] # Quote) \/ (p.i = Len(s) /\ eof)) =>
              IsReading(t, d, s, m, R, CloseQuote(p)) /\ CloseQuote(p).i > p.i
         /\ p.rec.inQuote /\ p.i < Len(s) /\ s[p.i + 1] = Quote =>
              IsReading(t, d, s, m, R, EscapedQuote(p)) /\ EscapedQuote(p).i > p.i
<1> DEFINE n == m + p.i
<1>0. /\ m \in Nat /\ Len(s) \in Nat /\ Len(t) \in Nat /\ m + Len(s) <= Len(t)
      /\ eof => m + Len(s) = Len(t)
  BY DEF Window
<1>1. s \in Seq(Char) /\ \A k \in 1 .. Len(s) : s[k] = t[m + k]
  BY DEF Window
<1>2. /\ p \in Positions /\ p.i \in 1 .. Len(s) /\ p.i \in Nat
      /\ WasRead(t, d, n - 1, p.rec, R \o p.rows)
  BY <1>0 DEF IsReading
<1>p. p.i \in Nat /\ 1 <= p.i /\ p.i <= Len(s)
  BY <1>2
<1>3. n \in 1 .. Len(t) /\ (n - 1) + 1 = n /\ t[n] = Quote
  <2>1. n \in 1 .. Len(t) /\ (n - 1) + 1 = n
    BY <1>0, <1>2
  <2> QED BY <1>1, <1>2, <2>1
<1>4. Begins(t, d, n) /\ (p.rec.inQuote <=> Inside(t, n))
  BY <1>2, <1>3 DEF WasRead
<1>5. p.i < Len(s) => n \in 1 .. Len(t) - 1 /\ n + 1 \in 1 .. Len(t) /\ (n + 1) - 1 = n /\ t[n + 1] = s[p.i + 1]
  <2>1. p.i < Len(s) => p.i + 1 \in 1 .. Len(s) /\ m + (p.i + 1) = n + 1 /\ n \in 1 .. Len(t) - 1 /\ n + 1 \in 1 .. Len(t) /\ (n + 1) - 1 = n
    BY ONLY <1>0, <1>p
  <2> QED BY <1>1, <2>1
<1>6. Quote \in Char
  BY <1>1, <1>2
<1>7. ASSUME ~p.rec.inQuote
      PROVE  IsReading(t, d, s, m, R, OpenQuote(p)) /\ OpenQuote(p).i > p.i
  <2> DEFINE q == OpenQuote(p)
  <2>1. /\ q \in Positions /\ q.i = p.i + 1 /\ q.rows = p.rows
        /\ q.rec.row = p.rec.row /\ q.rec.field = p.rec.field /\ q.rec.inQuote
    BY <1>2, QuoteMoves
  <2> HIDE DEF q
  <2>2. m + q.i - 1 = n /\ q.i \in 1 .. Len(s) + 1 /\ q.i > p.i
    BY <1>0, <1>2, <2>1
  <2> HIDE DEF n
  <2>3. ReadKind(t, d, n) = "nothing" /\ Inside(t, n + 1) /\ Begins(t, d, n + 1)
    BY <1>3, <1>4, <1>7, OpeningTaken
  <2>4. ReadTaken(t, d)[n] = ReadTaken(t, d)[n - 1]
    BY <1>3, <2>3, TakenNext
  <2>5. WasRead(t, d, n, q.rec, R \o q.rows)
    BY <1>2, <2>1, <2>3, <2>4 DEF WasRead
  <2> QED BY <2>1, <2>2, <2>5 DEF IsReading, q
<1>8. ASSUME p.rec.inQuote, (p.i < Len(s) /\ s[p.i + 1] # Quote) \/ (p.i = Len(s) /\ eof)
      PROVE  IsReading(t, d, s, m, R, CloseQuote(p)) /\ CloseQuote(p).i > p.i
  <2> DEFINE q == CloseQuote(p)
  <2>1. /\ q \in Positions /\ q.i = p.i + 1 /\ q.rows = p.rows
        /\ q.rec.row = p.rec.row /\ q.rec.field = p.rec.field /\ ~q.rec.inQuote
    BY <1>2, QuoteMoves
  <2> HIDE DEF q
  <2>2. m + q.i - 1 = n /\ q.i \in 1 .. Len(s) + 1 /\ q.i > p.i
    BY <1>0, <1>2, <2>1
  <2>3. n = Len(t) \/ t[n + 1] # Quote
    BY <1>0, <1>2, <1>5, <1>8
  <2> HIDE DEF n
  <2>4. ReadKind(t, d, n) = "nothing" /\ ~Inside(t, n + 1) /\ Begins(t, d, n + 1)
    BY <1>3, <1>4, <1>8, <2>3, ClosingTaken
  <2>5. ReadTaken(t, d)[n] = ReadTaken(t, d)[n - 1]
    BY <1>3, <2>4, TakenNext
  <2>6. WasRead(t, d, n, q.rec, R \o q.rows)
    BY <1>2, <2>1, <2>4, <2>5 DEF WasRead
  <2> QED BY <2>1, <2>2, <2>6 DEF IsReading, q
<1>9. ASSUME p.rec.inQuote, p.i < Len(s), s[p.i + 1] = Quote
      PROVE  IsReading(t, d, s, m, R, EscapedQuote(p)) /\ EscapedQuote(p).i > p.i
  <2> DEFINE q == EscapedQuote(p)
  <2>1. /\ q \in Positions /\ q.i = p.i + 2 /\ q.rows = p.rows
        /\ q.rec.row = p.rec.row /\ q.rec.field = Append(p.rec.field, Quote) /\ q.rec.inQuote
    BY <1>2, <1>6, <1>9, EscapeMoves
  <2>q. q.i = p.i + 2 /\ p.i < Len(s)
    BY <1>9, <2>1
  <2> HIDE DEF q
  <2>2. m + q.i - 1 = n + 1 /\ q.i \in 1 .. Len(s) + 1 /\ q.i > p.i /\ (n + 1) + 1 = n + 2
    <3>1. m + q.i - 1 = n + 1
      BY ONLY <1>0, <1>p, <2>q
    <3>2. q.i \in 1 .. Len(s) + 1
      BY ONLY <1>0, <1>p, <2>q
    <3>3. q.i > p.i
      BY ONLY <1>p, <2>q
    <3>4. (n + 1) + 1 = n + 2
      BY ONLY <1>0, <1>p
    <3> QED BY ONLY <3>1, <3>2, <3>3, <3>4
  <2> HIDE DEF n
  <2>3. t[n + 1] = Quote /\ n \in 1 .. Len(t) - 1 /\ n + 1 \in 1 .. Len(t) /\ (n + 1) - 1 = n
    BY <1>5, <1>9
  <2>4. /\ ReadKind(t, d, n) = "nothing" /\ ReadKind(t, d, n + 1) = "data"
        /\ Inside(t, n + 2) /\ Begins(t, d, n + 2)
    BY <1>3, <1>4, <1>9, <2>3, EscapedTaken
  <2>5. ReadTaken(t, d)[n] = ReadTaken(t, d)[n - 1]
    BY <1>3, <2>4, TakenNext
  <2>6. /\ ReadTaken(t, d)[n + 1].row = ReadTaken(t, d)[n].row /\ ReadTaken(t, d)[n + 1].rows = ReadTaken(t, d)[n].rows
        /\ ReadTaken(t, d)[n + 1].field = Append(ReadTaken(t, d)[n].field, Quote)
    <3> DEFINE j == n + 1
    <3>1. j \in 1 .. Len(t) /\ j - 1 = n /\ ReadKind(t, d, j) = "data" /\ t[j] = Quote
      BY <2>3, <2>4
    <3> HIDE DEF j
    <3>2. /\ ReadTaken(t, d)[j].row = ReadTaken(t, d)[n].row /\ ReadTaken(t, d)[j].rows = ReadTaken(t, d)[n].rows
          /\ ReadTaken(t, d)[j].field = Append(ReadTaken(t, d)[n].field, Quote)
      <4>1. ReadTaken(t, d)[j].field = Append(ReadTaken(t, d)[j - 1].field, t[j])
        BY ONLY <3>1, t \in Seq(Char), d \in Seq(Char) \ {<< >>}, Plain(d), TakenNext
      <4>2. ReadTaken(t, d)[j].row = ReadTaken(t, d)[j - 1].row /\ ReadTaken(t, d)[j].rows = ReadTaken(t, d)[j - 1].rows
        BY ONLY <3>1, t \in Seq(Char), d \in Seq(Char) \ {<< >>}, Plain(d), TakenNext
      <4> QED BY <3>1, <4>1, <4>2
    <3> QED BY <3>2 DEF j
  <2>7. WasRead(t, d, n + 1, q.rec, R \o q.rows)
    BY <1>2, <2>1, <2>2, <2>4, <2>5, <2>6 DEF WasRead
  <2> QED BY <2>1, <2>2, <2>7 DEF IsReading, q
<1> QED BY <1>7, <1>8, <1>9
\* The moves of an iteration.
LEMMA Moves ==
  ASSUME NEW p \in Positions, NEW s, NEW d, NEW eof \in BOOLEAN
  PROVE  /\ p.rec.inQuote /\ s[p.i] = Quote => Iteration(p, s, d, eof) = QuoteInQuotes(p, s, eof)
         /\ p.rec.inQuote /\ s[p.i] # Quote => Iteration(p, s, d, eof) = Data(p, s)
         /\ ~p.rec.inQuote /\ s[p.i] = Quote => Iteration(p, s, d, eof) = OpenQuote(p)
         /\ ~p.rec.inQuote /\ s[p.i] # Quote /\ StartsWith(s, d, p.i) => Iteration(p, s, d, eof) = Separator(p, d)
         /\ ~p.rec.inQuote /\ s[p.i] = CR /\ ~StartsWith(s, d, p.i) => Iteration(p, s, d, eof) = CarriageReturn(p, s, eof)
         /\ ~p.rec.inQuote /\ s[p.i] = LF /\ ~StartsWith(s, d, p.i) => Iteration(p, s, d, eof) = EmitRow(p, 1)
         /\ ~p.rec.inQuote /\ s[p.i] \notin {Quote, CR, LF} /\ ~StartsWith(s, d, p.i) =>
              Iteration(p, s, d, eof) = Data(p, s)
<1>1. p.rec.inQuote \in BOOLEAN /\ StartsWith(s, d, p.i) \in BOOLEAN
  BY PositionTypes DEF StartsWith
<1>2. Quote # CR /\ Quote # LF /\ CR # LF
  BY DEF Quote, CR, LF
<1> QED BY <1>1, <1>2 DEF Iteration

\* The cases of QuoteInQuotes.
LEMMA QuoteMoved ==
  ASSUME NEW p \in Positions, NEW s \in Seq(Char), NEW eof \in BOOLEAN, p.i <= Len(s)
  PROVE  /\ p.i < Len(s) /\ s[p.i + 1] = Quote => QuoteInQuotes(p, s, eof) = EscapedQuote(p)
         /\ p.i < Len(s) /\ s[p.i + 1] # Quote => QuoteInQuotes(p, s, eof) = CloseQuote(p)
         /\ p.i = Len(s) /\ eof => QuoteInQuotes(p, s, eof) = CloseQuote(p)
         /\ p.i = Len(s) /\ ~eof => QuoteInQuotes(p, s, eof) = p
         /\ p.i < Len(s) \/ p.i = Len(s)
<1>1. p.i \in Nat /\ Len(s) \in Nat
  BY DEF Positions
<1> QED BY <1>1 DEF QuoteInQuotes

\* The cases of CarriageReturn.
LEMMA ReturnMoved ==
  ASSUME NEW p \in Positions, NEW s \in Seq(Char), NEW eof \in BOOLEAN, p.i <= Len(s)
  PROVE  /\ p.i < Len(s) /\ s[p.i + 1] = LF => CarriageReturn(p, s, eof) = EmitRow(p, 2)
         /\ p.i < Len(s) /\ s[p.i + 1] # LF => CarriageReturn(p, s, eof) = Data(p, s)
         /\ p.i = Len(s) /\ eof => CarriageReturn(p, s, eof) = EmitRow(p, 1)
         /\ p.i = Len(s) /\ ~eof => CarriageReturn(p, s, eof) = p
         /\ p.i < Len(s) \/ p.i = Len(s)
<1>1. p.i \in Nat /\ Len(s) \in Nat
  BY DEF Positions
<1> QED BY <1>1 DEF CarriageReturn

\* An iteration goes forward or nowhere.
Onward(p) == {q \in Positions : p.i <= q.i}

\* An iteration gives a position that is not behind.
LEMMA IterationTypes ==
  ASSUME NEW p \in Positions, NEW s \in Seq(Char), NEW d \in Seq(Char), NEW eof \in BOOLEAN, p.i \in 1 .. Len(s)
  PROVE  Iteration(p, s, d, eof) \in Onward(p)
<1>1. s[p.i] \in Char /\ p.i <= Len(s) /\ Len(d) \in Nat /\ p.i \in Nat
  BY DEF Positions
<1>2. Data(p, s) \in Onward(p)
  BY <1>1, DataMoves DEF Onward
<1>3. Separator(p, d) \in Onward(p)
  BY <1>1, SeparatorMoves DEF Onward
<1>4. EmitRow(p, 1) \in Onward(p) /\ EmitRow(p, 2) \in Onward(p)
  <2>1. EmitRow(p, 1) \in Positions /\ EmitRow(p, 1).i = p.i + 1
    BY RowMoves
  <2>2. EmitRow(p, 2) \in Positions /\ EmitRow(p, 2).i = p.i + 2
    BY RowMoves
  <2> QED BY <1>1, <2>1, <2>2 DEF Onward
<1>5. OpenQuote(p) \in Onward(p) /\ CloseQuote(p) \in Onward(p) /\ p \in Onward(p)
  BY <1>1, QuoteMoves DEF Onward
<1>6. CASE p.rec.inQuote /\ s[p.i] = Quote
  <2>1. EscapedQuote(p) \in Onward(p)
    BY <1>1, <1>6, EscapeMoves DEF Onward
  <2>2. QuoteInQuotes(p, s, eof) \in Onward(p)
    BY <1>1, <1>5, <2>1, QuoteMoved
  <2> QED BY <1>6, <2>2, Moves
<1>7. CASE ~p.rec.inQuote /\ s[p.i] = CR /\ ~StartsWith(s, d, p.i)
  <2>1. CarriageReturn(p, s, eof) \in Onward(p)
    BY <1>1, <1>2, <1>4, <1>5, ReturnMoved
  <2> QED BY <1>7, <2>1, Moves
<1>8. CASE p.rec.inQuote /\ s[p.i] # Quote
  BY <1>2, <1>8, Moves
<1>9. CASE ~p.rec.inQuote /\ s[p.i] = Quote
  BY <1>5, <1>9, Moves
<1>10. CASE ~p.rec.inQuote /\ s[p.i] # Quote /\ StartsWith(s, d, p.i)
  BY <1>3, <1>10, Moves
<1>11. CASE ~p.rec.inQuote /\ s[p.i] = LF /\ ~StartsWith(s, d, p.i)
  BY <1>4, <1>11, Moves
<1>12. CASE ~p.rec.inQuote /\ s[p.i] \notin {Quote, CR, LF} /\ ~StartsWith(s, d, p.i)
  BY <1>2, <1>12, Moves
<1> QED BY <1>6, <1>7, <1>8, <1>9, <1>10, <1>11, <1>12

\* An iteration keeps what was read right and advances, or waits at the last
\* character of a chunk that is not the last.
LEMMA IterationReads ==
  ASSUME NEW t \in Seq(Char), NEW d \in Seq(Char) \ {<< >>}, Plain(d), NEW s, NEW m, NEW eof,
         Window(t, d, s, m, eof), NEW R \in Seq(Row), NEW p, IsReading(t, d, s, m, R, p), p.i <= Len(s)
  PROVE  \/ IsReading(t, d, s, m, R, Iteration(p, s, d, eof)) /\ Iteration(p, s, d, eof).i > p.i
         \/ Iteration(p, s, d, eof) = p /\ p.i = Len(s) /\ ~eof
<1>1. s \in Seq(Char) /\ eof \in BOOLEAN /\ p \in Positions /\ p.i \in 1 .. Len(s) + 1
  BY DEF Window, IsReading
<1>2. Quote # CR /\ Quote # LF /\ CR # LF
  BY DEF Quote, CR, LF
<1>3. CASE p.rec.inQuote /\ s[p.i] = Quote
  <2>1. Iteration(p, s, d, eof) = QuoteInQuotes(p, s, eof)
    BY <1>1, <1>3, Moves
  <2>2. CASE p.i < Len(s) /\ s[p.i + 1] = Quote
    <3>1. Iteration(p, s, d, eof) = EscapedQuote(p)
      BY <1>1, <2>1, <2>2, QuoteMoved
    <3> QED BY <1>3, <2>2, <3>1, QuoteReads
  <2>3. CASE (p.i < Len(s) /\ s[p.i + 1] # Quote) \/ (p.i = Len(s) /\ eof)
    <3>1. Iteration(p, s, d, eof) = CloseQuote(p)
      BY <1>1, <2>1, <2>3, QuoteMoved
    <3> QED BY <1>3, <2>3, <3>1, QuoteReads
  <2>4. CASE p.i = Len(s) /\ ~eof
    BY <1>1, <2>1, <2>4, QuoteMoved
  <2> QED BY <1>1, <2>2, <2>3, <2>4, QuoteMoved
<1>4. CASE p.rec.inQuote /\ s[p.i] # Quote
  <2>1. Iteration(p, s, d, eof) = Data(p, s)
    BY <1>1, <1>4, Moves
  <2> QED BY <1>4, <2>1, DataReads
<1>5. CASE ~p.rec.inQuote /\ s[p.i] = Quote
  <2>1. Iteration(p, s, d, eof) = OpenQuote(p)
    BY <1>1, <1>5, Moves
  <2> QED BY <1>5, <2>1, QuoteReads
<1>6. CASE ~p.rec.inQuote /\ s[p.i] # Quote /\ StartsWith(s, d, p.i)
  <2>1. Iteration(p, s, d, eof) = Separator(p, d)
    BY <1>1, <1>6, Moves
  <2> QED BY <1>6, <2>1, SeparatorReads
<1>7. CASE ~p.rec.inQuote /\ s[p.i] = CR /\ ~StartsWith(s, d, p.i)
  <2>1. Iteration(p, s, d, eof) = CarriageReturn(p, s, eof)
    BY <1>1, <1>7, Moves
  <2>2. CASE p.i < Len(s) /\ s[p.i + 1] = LF
    <3>1. Iteration(p, s, d, eof) = EmitRow(p, 2)
      BY <1>1, <2>1, <2>2, ReturnMoved
    <3> QED BY <1>7, <2>2, <3>1, LineEndReads
  <2>3. CASE p.i < Len(s) /\ s[p.i + 1] # LF
    <3>1. Iteration(p, s, d, eof) = Data(p, s)
      BY <1>1, <2>1, <2>3, ReturnMoved
    <3>2. s[p.i] # Quote /\ s[p.i] # LF
      BY <1>2, <1>7
    <3> QED BY <1>7, <2>3, <3>1, <3>2, DataReads
  <2>4. CASE p.i = Len(s) /\ eof
    <3>1. Iteration(p, s, d, eof) = EmitRow(p, 1)
      BY <1>1, <2>1, <2>4, ReturnMoved
    <3>2. /\ 1 \in {1, 2}
          /\ 1 = 1 => s[p.i] = LF \/ (s[p.i] = CR /\ p.i = Len(s) /\ eof)
          /\ 1 = 2 => p.i < Len(s) /\ s[p.i] = CR /\ s[p.i + 1] = LF
      BY <1>7, <2>4
    <3>3. IsReading(t, d, s, m, R, EmitRow(p, 1)) /\ EmitRow(p, 1).i > p.i
      BY <1>7, <3>2, LineEndReads, Zenon
    <3> QED BY <3>1, <3>3
  <2>5. CASE p.i = Len(s) /\ ~eof
    BY <1>1, <2>1, <2>5, ReturnMoved
  <2> QED BY <1>1, <2>2, <2>3, <2>4, <2>5, ReturnMoved
<1>8. CASE ~p.rec.inQuote /\ s[p.i] = LF /\ ~StartsWith(s, d, p.i)
  <2>1. Iteration(p, s, d, eof) = EmitRow(p, 1)
    BY <1>1, <1>8, Moves
  <2> QED BY <1>8, <2>1, LineEndReads
<1>9. CASE ~p.rec.inQuote /\ s[p.i] \notin {Quote, CR, LF} /\ ~StartsWith(s, d, p.i)
  <2>1. Iteration(p, s, d, eof) = Data(p, s)
    BY <1>1, <1>9, Moves
  <2> QED BY <1>9, <2>1, DataReads
<1> QED BY <1>3, <1>4, <1>5, <1>6, <1>7, <1>8, <1>9
-----------------------------------------------------------------------------
(* The loop.                                                               *)

AfterVisits(s, d, eof, r, f, k) ==
  IF k = 0 THEN Unread(r) ELSE Visit(f[k - 1], k, s, d, eof)

AreVisits(s, d, eof, r, n, f) == f = [k \in 0 .. n |-> AfterVisits(s, d, eof, r, f, k)]

\* The function of Parse exists, for a prefix of any length.
LEMMA VisitsPrefix ==
  ASSUME NEW s, NEW d, NEW eof, NEW r, NEW n \in Nat
  PROVE  \E f : AreVisits(s, d, eof, r, n, f)
<1> USE DEF AreVisits
<1> DEFINE T == {m \in Nat : ~\E f : f = [k \in 0 .. m |-> AfterVisits(s, d, eof, r, f, k)]}
<1>1. SUFFICES ASSUME T # {} PROVE FALSE
  OBVIOUS
<1>2. PICK m \in T : \A l \in T : m <= l
  BY <1>1, LeastElement
<1>3. CASE m = 0
  <2> DEFINE f == [k \in 0 .. 0 |-> Unread(r)]
  <2>1. f = [k \in 0 .. 0 |-> AfterVisits(s, d, eof, r, f, k)]
    BY DEF AfterVisits
  <2> QED BY <1>2, <1>3, <2>1
<1>4. CASE m # 0
  <2>1. m \in Nat /\ m - 1 \in Nat /\ m - 1 \notin T
    BY <1>2, <1>4
  <2>2. PICK g : g = [k \in 0 .. m - 1 |-> AfterVisits(s, d, eof, r, g, k)]
    BY <2>1
  <2> DEFINE f == [k \in 0 .. m |-> AfterVisits(s, d, eof, r, g, k)]
  <2>3. \A k \in 0 .. m : AfterVisits(s, d, eof, r, f, k) = AfterVisits(s, d, eof, r, g, k)
    <3>1. ASSUME NEW k \in 0 .. m, k # 0 PROVE f[k - 1] = g[k - 1]
      <4>1. k - 1 \in 0 .. m - 1 /\ k - 1 \in 0 .. m
        BY <2>1, <3>1
      <4>2. g[k - 1] = AfterVisits(s, d, eof, r, g, k - 1)
        BY <2>2, <4>1
      <4> QED BY <4>1, <4>2
    <3> HIDE DEF f
    <3> QED BY <3>1 DEF AfterVisits
  <2>4. f = [k \in 0 .. m |-> AfterVisits(s, d, eof, r, f, k)]
    <3> HIDE DEF f
    <3>1. f = [k \in 0 .. m |-> AfterVisits(s, d, eof, r, g, k)]
      BY DEF f
    <3> QED BY <2>3, <3>1
  <2> QED BY <1>2, <2>4
<1> QED BY <1>3, <1>4

\* at[k] is the position of the parser when it has passed k characters.
Passes(at, s, d, eof, r) ==
  /\ at[0] = Unread(r)
  /\ \A k \in 1 .. Len(s) : at[k] = Visit(at[k - 1], k, s, d, eof)
  /\ Parse(s, d, eof, r) = at[Len(s)]

\* Parse visits its text position by position.
LEMMA ParseFacts ==
  ASSUME NEW s \in Seq(Char), NEW d, NEW eof, NEW r
  PROVE  \E at : Passes(at, s, d, eof, r)
<1> DEFINE n == Len(s)
           at == CHOOSE f : AreVisits(s, d, eof, r, n, f)
<1>1. n \in Nat
  OBVIOUS
<1>2. Parse(s, d, eof, r) = at[n]
  <2>1. at = CHOOSE f : f = [k \in 0 .. n |-> IF k = 0 THEN Unread(r) ELSE Visit(f[k - 1], k, s, d, eof)]
    BY DEF AreVisits, AfterVisits
  <2> HIDE DEF at
  <2> QED BY <2>1 DEF Parse
<1>3. AreVisits(s, d, eof, r, n, at)
  <2>1. \E f : AreVisits(s, d, eof, r, n, f)
    BY <1>1, VisitsPrefix
  <2> HIDE DEF n
  <2> QED BY <2>1
<1> HIDE DEF at
<1>4. \A k \in 0 .. n : at[k] = AfterVisits(s, d, eof, r, at, k)
  BY <1>3 DEF AreVisits
<1>5. at[0] = Unread(r)
  BY <1>1, <1>4 DEF AfterVisits
<1>6. \A k \in 1 .. n : at[k] = Visit(at[k - 1], k, s, d, eof)
  BY <1>1, <1>4 DEF AfterVisits
<1> QED BY <1>2, <1>5, <1>6 DEF Passes

\* Parse gives a position with a record and rows.
LEMMA ParseTypes ==
  ASSUME NEW s \in Seq(Char), NEW d \in Seq(Char), NEW eof \in BOOLEAN, NEW r \in Records
  PROVE  Parse(s, d, eof, r) \in Positions /\ Parse(s, d, eof, r).i >= 1
<1>1. PICK at : Passes(at, s, d, eof, r)
  BY ParseFacts
<1> DEFINE Good(k) == at[k] \in Positions /\ at[k].i >= 1
<1>2. Len(s) \in Nat
  OBVIOUS
<1>3. Good(0)
  BY <1>1 DEF Passes, Unread, Positions
<1>4. ASSUME NEW k \in 1 .. Len(s), Good(k - 1) PROVE Good(k)
  <2>1. CASE at[k - 1].i = k
    <3>1. Iteration(at[k - 1], s, d, eof) \in Onward(at[k - 1])
      BY <1>4, <2>1, IterationTypes
    <3>2. at[k] = Iteration(at[k - 1], s, d, eof)
      BY <1>1, <2>1 DEF Passes, Visit
    <3> QED BY <1>4, <3>1, <3>2 DEF Onward, Positions
  <2>2. CASE at[k - 1].i # k
    BY <1>1, <1>4, <2>2 DEF Passes, Visit
  <2> QED BY <2>1, <2>2
<1>5. \A k \in 0 .. Len(s) : Good(k)
  <2> DEFINE G == {k \in 0 .. Len(s) : Good(k)}
  <2> HIDE DEF Good
  <2>1. 0 \in G
    BY <1>2, <1>3
  <2>2. \A k \in 1 .. Len(s) : k - 1 \in G => k \in G
    BY <1>2, <1>4
  <2>3. \A k \in 0 .. Len(s) : k \in G
    <3> HIDE DEF G
    <3> QED BY <1>2, <2>1, <2>2, StepByStep
  <2> QED BY <2>3
<1> QED BY <1>1, <1>2, <1>5 DEF Passes

\* The position p is read right, and the end of the text when there is no more.
Finds(t, d, s, m, eof, R, p) ==
  /\ IsReading(t, d, s, m, R, p)
  /\ eof => p.i = Len(s) + 1

\* Parse keeps what was read right, and at the end of the text reads all of it.
LEMMA ParseReads ==
  ASSUME NEW t \in Seq(Char), NEW d \in Seq(Char) \ {<< >>}, Plain(d), NEW s, NEW m, NEW eof,
         Window(t, d, s, m, eof), NEW R \in Seq(Row), NEW r \in Records, WasRead(t, d, m, r, R)
  PROVE  Finds(t, d, s, m, eof, R, Parse(s, d, eof, r))
<1>0. s \in Seq(Char) /\ Len(s) \in Nat /\ m \in Nat /\ eof \in BOOLEAN
  BY DEF Window
<1>1. PICK at : Passes(at, s, d, eof, r)
  BY <1>0, ParseFacts
<1> DEFINE Good(k) == /\ IsReading(t, d, s, m, R, at[k])
                      /\ at[k].i > k \/ (at[k].i = Len(s) /\ k = Len(s) /\ ~eof)
<1>3. Good(0)
  <2>1. at[0].i = 1 /\ at[0].rec = r /\ at[0].rows = << >> /\ at[0] \in Positions
    BY <1>1 DEF Passes, Unread, Positions
  <2>2. R \o << >> = R
    OBVIOUS
  <2>3. m + 1 - 1 = m /\ 1 \in 1 .. Len(s) + 1 /\ 1 > 0
    BY <1>0
  <2> QED BY <2>1, <2>2, <2>3 DEF IsReading
<1>4. ASSUME NEW k \in 1 .. Len(s), Good(k - 1) PROVE Good(k)
  <2>0. at[k - 1].i \in Nat /\ at[k - 1].i > k - 1 /\ k <= Len(s)
    BY <1>0, <1>4 DEF IsReading
  <2>1. CASE at[k - 1].i = k
    <3>1. at[k] = Iteration(at[k - 1], s, d, eof)
      BY <1>1, <2>1 DEF Passes, Visit
    <3>2. \/ IsReading(t, d, s, m, R, Iteration(at[k - 1], s, d, eof)) /\ Iteration(at[k - 1], s, d, eof).i > at[k - 1].i
          \/ Iteration(at[k - 1], s, d, eof) = at[k - 1] /\ at[k - 1].i = Len(s) /\ ~eof
      BY <1>4, <2>0, <2>1, IterationReads
    <3> QED BY <1>4, <2>1, <3>1, <3>2
  <2>2. CASE at[k - 1].i # k
    <3>1. at[k] = at[k - 1]
      BY <1>1, <2>2 DEF Passes, Visit
    <3>2. at[k - 1].i > k
      BY <2>0, <2>2
    <3> QED BY <1>4, <3>1, <3>2
  <2> QED BY <2>1, <2>2
<1>5. \A k \in 0 .. Len(s) : Good(k)
  <2> DEFINE G == {k \in 0 .. Len(s) : Good(k)}
  <2> HIDE DEF Good
  <2>1. 0 \in G
    BY <1>0, <1>3
  <2>2. \A k \in 1 .. Len(s) : k - 1 \in G => k \in G
    BY <1>0, <1>4
  <2>3. \A k \in 0 .. Len(s) : k \in G
    <3> HIDE DEF G
    <3> QED BY <1>0, <2>1, <2>2, StepByStep
  <2> QED BY <2>3
<1>6. Good(Len(s))
  BY <1>0, <1>5
<1> QED BY <1>0, <1>1, <1>6 DEF Passes, IsReading, Finds
-----------------------------------------------------------------------------
(* The reader.                                                             *)

\* The type invariant.
ReaderTypes ==
  /\ input \in Inputs /\ fed \in 0 .. Len(input.text) /\ cuts \in Nat
  /\ buf \in Seq(Char) /\ rec \in Records /\ rows \in Seq(Row)

\* No delimiter is cut.
WholeDelimiters ==
  Len(input.delimiter) = 1 \/ cuts = 0 \/ (cuts = 1 /\ fed = Len(input.text))

\* What is parsed, of what was fed.
Place == fed - Len(buf)

\* The buffer holds what was fed behind Place, and the record and the rows are
\* those of the text before Place.
PlaceInv ==
  phase = "feeding" /\ Plain(input.delimiter) /\ WholeDelimiters =>
    /\ Len(buf) <= fed /\ \A k \in 1 .. Len(buf) : buf[k] = input.text[Place + k]
    /\ WasRead(input.text, input.delimiter, Place, rec, rows)

\* The columns are those of the rows.
BuiltInv ==
  /\ phase \in {"feeding", "parsed", "unterminated", "built", "ragged", "unparseable"}
  /\ phase = "built" => frame = << >> \/ frame = Columns
  /\ phase = "unparseable" => Unparseable

ReaderInv == ReaderTypes /\ PlaceInv /\ RowsIndependentOfChunks /\ BuiltInv

\* The types of an input.
LEMMA InputTypes ==
  ASSUME input \in Inputs
  PROVE  /\ input.text \in Seq(Char) /\ input.delimiter \in Seq(Char) \ {<< >>}
         /\ input.delimiter \in Seq(Char) /\ Len(input.text) \in Nat /\ Len(input.delimiter) \in Nat
<1>1. input.text \in Seq(STRING) /\ input.delimiter \in Seq(STRING) \ {<< >>}
  BY InputsAssumption
<1>2. input.text \in Seq(Char) /\ input.delimiter \in Seq(Char)
  BY <1>1, LargerSeq DEF Char
<1> QED BY <1>1, <1>2

\* Nothing is read and nothing is fed.
LEMMA ReaderStarts == ReaderInit => ReaderInv
<1> SUFFICES ASSUME ReaderInit PROVE ReaderInv
  OBVIOUS
<1>1. input \in Inputs /\ fed = 0 /\ cuts = 0 /\ buf = << >> /\ rec = NewRecord /\ rows = << >> /\ phase = "feeding"
  BY DEF ReaderInit
<1>2. input.text \in Seq(Char) /\ Len(input.text) \in Nat
  BY <1>1, InputTypes
<1>3. << >> \in Field /\ << >> \in Row /\ << >> \in Seq(Row) /\ << >> \in Seq(Char)
  BY DEF Field, Row
<1>4. rec \in Records /\ rec.row = << >> /\ rec.field = << >> /\ ~rec.inQuote
  BY <1>1, <1>3 DEF NewRecord, Records
<1>5. ReaderTypes
  BY <1>1, <1>2, <1>3, <1>4 DEF ReaderTypes
<1>6. Len(buf) = 0 /\ Place = 0
  <2>1. Len(buf) = 0
    BY <1>1
  <2>2. fed = 0
    BY <1>1
  <2> QED BY ONLY <2>1, <2>2 DEF Place
<1>7. Begins(input.text, input.delimiter, 0 + 1)
  BY DEF Begins, SecondQuote, InDelimiter
<1>8. WasRead(input.text, input.delimiter, 0, rec, rows)
  <2>0. Completed(input.text) \in Seq(Char)
    BY <1>2, CompletedIs
  <2>1. ReadTaken(input.text, input.delimiter)[0] = Untaken
    BY <2>0, TakenFacts DEF ReadTaken
  <2>2. ~Inside(input.text, 0 + 1)
    BY NothingInside
  <2> QED BY <1>1, <1>4, <1>7, <2>1, <2>2 DEF WasRead, Untaken
<1>9. PlaceInv
  BY <1>1, <1>6, <1>8 DEF PlaceInv
<1>10. RowsIndependentOfChunks /\ BuiltInv
  BY <1>1 DEF RowsIndependentOfChunks, BuiltInv
<1> QED BY <1>5, <1>9, <1>10 DEF ReaderInv

\* A chunk follows what is kept of those before.
LEMMA ChunkWindow ==
  ASSUME ReaderTypes, PlaceInv, phase = "feeding", Plain(input.delimiter), WholeDelimiters,
         NEW n \in 0 .. Len(input.text) - fed, NEW eof \in BOOLEAN,
         NEW s, s = buf \o SubSeq(input.text, fed + 1, fed + n),
         Len(input.delimiter) = 1 \/ fed + n = Len(input.text),
         eof => fed + n = Len(input.text)
  PROVE  /\ Window(input.text, input.delimiter, s, Place, eof)
         /\ Place + Len(s) = fed + n /\ Len(s) \in Nat /\ Place \in Nat
<1> DEFINE chunk == SubSeq(input.text, fed + 1, fed + n)
<1>1. /\ Len(input.text) \in Nat /\ fed \in Nat /\ n \in Nat /\ fed + n <= Len(input.text) /\ Len(buf) \in Nat
  BY InputTypes DEF ReaderTypes
<1>2. input.text \in Seq(Char) /\ buf \in Seq(Char)
  BY InputTypes DEF ReaderTypes
<1>3. Len(buf) <= fed /\ Place = fed - Len(buf) /\ \A k \in 1 .. Len(buf) : buf[k] = input.text[Place + k]
  BY DEF PlaceInv, Place
<1>4. Place \in Nat
  BY ONLY <1>1, <1>3
<1>5. chunk \in Seq(Char) /\ Len(chunk) = n /\ \A k \in 1 .. n : chunk[k] = input.text[fed + k]
  BY <1>1, <1>2
<1> HIDE DEF chunk
<1>6. s \in Seq(Char) /\ Len(s) = Len(buf) + n
  BY <1>2, <1>5 DEF chunk
<1>7. \A k \in 1 .. Len(buf) + n : s[k] = IF k <= Len(buf) THEN buf[k] ELSE chunk[k - Len(buf)]
  BY <1>2, <1>5, ConcatProperties DEF chunk
<1>8. ASSUME NEW k \in 1 .. Len(buf) + n PROVE s[k] = input.text[Place + k]
  <2>1. k \in Nat /\ 1 <= k /\ k <= Len(buf) + n
    BY <1>1
  <2>2. CASE k <= Len(buf)
    <3>1. k \in 1 .. Len(buf)
      BY ONLY <1>1, <2>1, <2>2
    <3> QED BY ONLY <1>3, <1>7, <1>8, <2>2, <3>1
  <2>3. CASE ~(k <= Len(buf))
    <3>1. k - Len(buf) \in 1 .. n
      BY ONLY <1>1, <2>1, <2>3
    <3>2. fed + (k - Len(buf)) = Place + k
      BY ONLY <1>1, <1>3, <2>1
    <3>3. chunk[k - Len(buf)] = input.text[fed + (k - Len(buf))]
      BY <1>5, <3>1
    <3> QED BY ONLY <1>7, <1>8, <2>3, <3>2, <3>3
  <2> QED BY ONLY <2>2, <2>3
<1>9. Place + Len(s) = fed + n /\ Len(s) \in Nat /\ Place + Len(s) <= Len(input.text)
  BY ONLY <1>1, <1>3, <1>4, <1>6
<1>10. \A k \in 1 .. Len(s) : s[k] = input.text[Place + k]
  BY ONLY <1>6, <1>8
<1>11. /\ Len(input.delimiter) = 1 \/ Place + Len(s) = Len(input.text)
       /\ eof => Place + Len(s) = Len(input.text)
  BY <1>9
<1> QED BY <1>4, <1>6, <1>9, <1>10, <1>11 DEF Window

\* What is left of the buffer behind the position reached.
LEMMA RestIs ==
  ASSUME NEW s \in Seq(Char), NEW i \in Nat, 1 <= i
  PROVE  /\ Rest(s, i) \in Seq(Char)
         /\ i <= Len(s) + 1 => Len(Rest(s, i)) = Len(s) - i + 1
         /\ \A k \in 1 .. Len(s) - i + 1 : Rest(s, i)[k] = s[i + k - 1]
<1>1. Len(s) \in Nat /\ \A k \in i .. Len(s) : s[k] \in Char
  OBVIOUS
<1> QED BY <1>1, SubSeqProperties DEF Rest

\* A chunk of any length keeps the invariant.
LEMMA FeedKeeps ==
  ASSUME ReaderInv, NEW n \in 1 .. Len(input.text) - fed, Feed(n)
  PROVE  ReaderInv'
<1> DEFINE s == buf \o SubSeq(input.text, fed + 1, fed + n)
           p == Parse(s, input.delimiter, FALSE, rec)
<1>1. /\ phase = "feeding" /\ phase' = phase /\ input' = input /\ fed' = fed + n /\ cuts' = cuts + 1
      /\ buf' = Rest(s, p.i) /\ rec' = p.rec /\ rows' = rows \o p.rows
  BY DEF Feed
<1>2. /\ ReaderTypes /\ PlaceInv /\ input \in Inputs /\ input.text \in Seq(Char) /\ Len(input.text) \in Nat
      /\ input.delimiter \in Seq(Char) /\ input.delimiter \in Seq(Char) \ {<< >>}
      /\ fed \in Nat /\ cuts \in Nat /\ n \in Nat /\ fed + n <= Len(input.text) /\ rec \in Records /\ rows \in Seq(Row)
      /\ buf \in Seq(Char)
  BY InputTypes DEF ReaderInv, ReaderTypes
<1>3. s \in Seq(Char)
  <2>1. SubSeq(input.text, fed + 1, fed + n) \in Seq(Char)
    BY <1>2
  <2> QED BY <1>2, <2>1
<1> HIDE DEF s
<1>4. p \in Positions /\ p.i >= 1
  BY <1>2, <1>3, ParseTypes
<1> HIDE DEF p
<1>5. p.i \in Nat /\ p.rec \in Records /\ p.rows \in Seq(Row)
  BY <1>4, PositionTypes
<1>6. ReaderTypes'
  <2>1. buf' \in Seq(Char)
    BY <1>1, <1>3, <1>4, <1>5, RestIs
  <2>2. rows' \in Seq(Row)
    BY <1>1, <1>2, <1>5
  <2>3. fed' \in 0 .. Len(input.text)
    BY <1>1, <1>2
  <2> QED BY <1>1, <1>2, <1>5, <2>1, <2>2, <2>3 DEF ReaderTypes
<1>7. PlaceInv'
  <2> SUFFICES ASSUME Plain(input.delimiter), WholeDelimiters'
               PROVE  /\ Len(buf') <= fed' /\ \A k \in 1 .. Len(buf') : buf'[k] = input.text[Place' + k]
                      /\ WasRead(input.text, input.delimiter, Place', rec', rows')
    BY <1>1 DEF PlaceInv
  <2>1. WholeDelimiters /\ (Len(input.delimiter) = 1 \/ fed + n = Len(input.text))
    BY <1>1, <1>2 DEF WholeDelimiters
  <2>2. /\ Window(input.text, input.delimiter, s, Place, FALSE)
        /\ Place + Len(s) = fed + n /\ Len(s) \in Nat /\ Place \in Nat
    <3>1. n \in 0 .. Len(input.text) - fed
      BY <1>2
    <3> QED BY <1>1, <1>2, <2>1, <3>1, ChunkWindow DEF s
  <2>3. WasRead(input.text, input.delimiter, Place, rec, rows)
    BY <1>1, <1>2, <2>1 DEF PlaceInv
  <2>4. IsReading(input.text, input.delimiter, s, Place, rows, p)
    BY <1>2, <2>2, <2>3, ParseReads DEF p, Finds
  <2>5. p.i \in 1 .. Len(s) + 1 /\ WasRead(input.text, input.delimiter, Place + p.i - 1, p.rec, rows \o p.rows)
    BY <2>4 DEF IsReading
  <2>6. Len(buf') = Len(s) - p.i + 1 /\ \A k \in 1 .. Len(s) - p.i + 1 : buf'[k] = s[p.i + k - 1]
    <3>1. p.i <= Len(s) + 1 /\ 1 <= p.i
      BY <2>2, <2>5
    <3>2. Len(Rest(s, p.i)) = Len(s) - p.i + 1 /\ \A k \in 1 .. Len(s) - p.i + 1 : Rest(s, p.i)[k] = s[p.i + k - 1]
      BY ONLY <1>3, <1>5, <3>1, RestIs
    <3> QED BY ONLY <1>1, <3>2
  <2>7. Place' = Place + p.i - 1 /\ Len(buf') <= fed'
    <3>1. Place' = fed' - Len(buf')
      BY DEF Place
    <3>2. /\ fed' = fed + n /\ Len(buf') = Len(s) - p.i + 1 /\ Place + Len(s) = fed + n
          /\ p.i \in Nat /\ Len(s) \in Nat /\ Place \in Nat /\ fed \in Nat /\ n \in Nat /\ 1 <= p.i
      BY <1>1, <1>2, <1>5, <2>2, <2>5, <2>6
    <3> QED BY ONLY <3>1, <3>2
  <2>8. ASSUME NEW k \in 1 .. Len(buf') PROVE buf'[k] = input.text[Place' + k]
    <3>1. p.i + k - 1 \in 1 .. Len(s) /\ Place + (p.i + k - 1) = Place' + k /\ k \in 1 .. Len(s) - p.i + 1
      <4>1. /\ Len(s) \in Nat /\ Place \in Nat /\ p.i \in Nat /\ 1 <= p.i /\ Place' = Place + p.i - 1
            /\ Len(buf') = Len(s) - p.i + 1
        BY <1>4, <1>5, <2>2, <2>6, <2>7
      <4>2. k \in 1 .. Len(s) - p.i + 1
        BY <4>1
      <4>3. k \in Nat /\ 1 <= k /\ k <= Len(s) - p.i + 1
        BY ONLY <4>1, <4>2
      <4>4. p.i + k - 1 \in 1 .. Len(s)
        BY ONLY <4>1, <4>3
      <4>5. Place + (p.i + k - 1) = Place' + k
        BY ONLY <4>1, <4>3
      <4> QED BY ONLY <4>2, <4>4, <4>5
    <3>2. s[p.i + k - 1] = input.text[Place + (p.i + k - 1)]
      BY <2>2, <3>1 DEF Window
    <3> QED BY <2>6, <3>1, <3>2
  <2> QED BY <1>1, <2>5, <2>7, <2>8
<1>8. RowsIndependentOfChunks' /\ BuiltInv'
  BY <1>1 DEF RowsIndependentOfChunks, BuiltInv
<1> QED BY <1>6, <1>7, <1>8 DEF ReaderInv

\* finish reads the rest, and the last row is that of the text.
LEMMA FinishKeeps ==
  ASSUME ReaderInv, Finish
  PROVE  ReaderInv'
<1> DEFINE p == Parse(buf, input.delimiter, TRUE, rec)
           left == p.rec.row # << >> \/ p.rec.field # << >>
           last == IF left /\ ~p.rec.inQuote THEN <<WithField(p.rec)>> ELSE << >>
<1>1. /\ phase = "feeding" /\ fed = Len(input.text) /\ input' = input /\ fed' = fed /\ cuts' = cuts
      /\ phase' = IF left /\ p.rec.inQuote THEN "unterminated" ELSE "parsed"
      /\ rows' = rows \o p.rows \o last
      /\ rec' = IF left /\ ~p.rec.inQuote THEN NewRecord ELSE p.rec
      /\ buf' = Rest(buf, p.i)
  BY DEF Finish
<1>2. /\ ReaderTypes /\ PlaceInv /\ input \in Inputs /\ input.text \in Seq(Char) /\ Len(input.text) \in Nat
      /\ input.delimiter \in Seq(Char) /\ input.delimiter \in Seq(Char) \ {<< >>}
      /\ fed \in Nat /\ cuts \in Nat /\ rec \in Records /\ rows \in Seq(Row) /\ buf \in Seq(Char)
  BY InputTypes DEF ReaderInv, ReaderTypes
<1>3. p \in Positions /\ p.i >= 1
  BY <1>2, ParseTypes
<1> HIDE DEF p
<1>4. /\ p.i \in Nat /\ p.rec \in Records /\ p.rows \in Seq(Row) /\ Append(p.rec.row, p.rec.field) \in Row
      /\ p.rec.inQuote \in BOOLEAN
  BY <1>3, PositionTypes
<1>5. last \in Seq(Row)
  <2>1. <<Append(p.rec.row, p.rec.field)>> \in Seq(Row)
    BY <1>4
  <2> QED BY <2>1 DEF WithField
<1>6. ReaderTypes'
  <2>1. buf' \in Seq(Char)
    BY <1>1, <1>2, <1>3, <1>4, RestIs
  <2>2. rows' \in Seq(Row)
    <3> HIDE DEF last
    <3>1. rows \o p.rows \in Seq(Row)
      BY <1>2, <1>4
    <3> QED BY <1>1, <1>5, <3>1
  <2>3. NewRecord \in Records
    BY DEF NewRecord, Records, Row, Field
  <2> QED BY <1>1, <1>2, <1>4, <2>1, <2>2, <2>3 DEF ReaderTypes
<1>7. PlaceInv' /\ BuiltInv'
  BY <1>1 DEF PlaceInv, BuiltInv
<1>8. RowsIndependentOfChunks'
  <2> SUFFICES ASSUME Plain(input.delimiter), Len(input.delimiter) = 1 \/ cuts <= 1
               PROVE  /\ Reference(Completed(input.text), input.delimiter) = rows' \o Unseen(Completed(input.text), input.delimiter)
                      /\ phase' = "unterminated" <=> Open(Completed(input.text)) /\ ~Blank(Completed(input.text), input.delimiter)
    BY <1>1 DEF RowsIndependentOfChunks
  <2>1. WholeDelimiters
    BY <1>1, <1>2 DEF WholeDelimiters
  <2>2. Window(input.text, input.delimiter, buf, Place, TRUE) /\ Place + Len(buf) = fed /\ Len(buf) \in Nat /\ Place \in Nat
    <3>1. 0 \in 0 .. Len(input.text) - fed /\ fed + 0 = Len(input.text) /\ fed + 0 = fed
      BY <1>1, <1>2
    <3>2. buf = buf \o SubSeq(input.text, fed + 1, fed + 0)
      <4>1. SubSeq(input.text, fed + 1, fed + 0) = << >>
        BY <1>2, SubSeqEmpty
      <4> QED BY <1>2, <4>1
    <3> QED BY <1>1, <1>2, <2>1, <3>1, <3>2, ChunkWindow
  <2>3. WasRead(input.text, input.delimiter, Place, rec, rows)
    BY <1>1, <1>2, <2>1 DEF PlaceInv
  <2>4. IsReading(input.text, input.delimiter, buf, Place, rows, p) /\ p.i = Len(buf) + 1
    <3>1. Finds(input.text, input.delimiter, buf, Place, TRUE, rows, p)
      BY <1>2, <2>2, <2>3, ParseReads DEF p
    <3> QED BY ONLY <3>1 DEF Finds
  <2>5. Place + p.i - 1 = Len(input.text)
    BY <1>1, <2>2, <2>4
  <2>6. WasRead(input.text, input.delimiter, Len(input.text), p.rec, rows \o p.rows)
    BY <2>4, <2>5 DEF IsReading
  <2> DEFINE end == ReadTaken(input.text, input.delimiter)[Len(input.text)]
  <2>7. /\ p.rec.row = end.row /\ p.rec.field = end.field /\ rows \o p.rows = end.rows
        /\ p.rec.inQuote <=> Inside(input.text, Len(input.text) + 1)
    BY <2>6 DEF WasRead
  <2>8. rows' = end.rows \o IF left /\ ~p.rec.inQuote THEN <<Append(end.row, end.field)>> ELSE << >>
    <3>1. last = IF left /\ ~p.rec.inQuote THEN <<Append(end.row, end.field)>> ELSE << >>
      BY ONLY <2>7 DEF WithField
    <3>2. rows' = (rows \o p.rows) \o last /\ rows \o p.rows = end.rows
      BY ONLY <1>1, <2>7
    <3> HIDE DEF last, left, end
    <3> QED BY ONLY <3>1, <3>2
  <2>9. left <=> end.row # << >> \/ end.field # << >>
    BY <2>7
  <2> HIDE DEF last, left
  <2>10. /\ Reference(Completed(input.text), input.delimiter) = rows' \o Unseen(Completed(input.text), input.delimiter)
         /\ left /\ p.rec.inQuote <=> Open(Completed(input.text)) /\ ~Blank(Completed(input.text), input.delimiter)
    <3>1. input.text \in Seq(Char) /\ input.delimiter \in Seq(Char) \ {<< >>} /\ Plain(input.delimiter)
      BY <1>2
    <3>2. p.rec.inQuote \in BOOLEAN /\ (p.rec.inQuote <=> Inside(input.text, Len(input.text) + 1))
      BY ONLY <1>4, <2>7
    <3>3. left <=> \/ ReadTaken(input.text, input.delimiter)[Len(input.text)].row # << >>
                  \/ ReadTaken(input.text, input.delimiter)[Len(input.text)].field # << >>
      BY ONLY <2>9
    <3>4. rows' = ReadTaken(input.text, input.delimiter)[Len(input.text)].rows \o
                  IF left /\ ~p.rec.inQuote
                  THEN <<Append(ReadTaken(input.text, input.delimiter)[Len(input.text)].row,
                                ReadTaken(input.text, input.delimiter)[Len(input.text)].field)>> ELSE << >>
      BY ONLY <2>8, Zenon
    <3> HIDE DEF end
    <3> QED BY ONLY <3>1, <3>2, <3>3, <3>4, RowsOfText, Zenon
  <2> HIDE DEF end
  <2> QED BY <1>1, <2>10
<1> QED BY <1>6, <1>7, <1>8 DEF ReaderInv

\* The columns are a matter of the rows and the options.
LEMMA SameColumns ==
  ASSUME input' = input, rows' = rows
  PROVE  Columns' = Columns /\ (Unparseable' <=> Unparseable)
<1>1. ColNames' = ColNames
  BY DEF ColNames
<1>2. DataRows' = DataRows
  BY DEF DataRows
<1>3. Names' = Names
  BY <1>1 DEF Names
<1>4. \A name : LastOf(name)' = LastOf(name)
  BY <1>1 DEF LastOf
<1>5. \A name : ColumnText(name)' = ColumnText(name)
  BY <1>2, <1>4 DEF ColumnText
<1>6. \A name : Forced(name)' <=> Forced(name)
  BY DEF Forced
<1>7. \A name : DtypeOf(name)' = DtypeOf(name)
  <2> TAKE name
  <2>1. ColumnText(name)' = ColumnText(name)
    BY <1>5
  <2> QED BY <1>2, <1>6, <2>1 DEF DtypeOf, inferDtypeFromSample, Seen, Forced
<1>8. Columns' = Columns
  <2>1. \A name, r : Cell(name, r)' = Cell(name, r)
    <3> TAKE name, r
    <3>1. ColumnText(name)' = ColumnText(name) /\ DtypeOf(name)' = DtypeOf(name)
      BY <1>5, <1>7
    <3> QED BY <3>1 DEF Cell, parseCell
  <2> QED BY <1>2, <1>3, <1>7, <2>1 DEF Columns
<1>9. \A r, c : CellThrows(r, c)' <=> CellThrows(r, c)
  <2> TAKE r, c
  <2>1. DtypeOf(ColNames[c])' = DtypeOf(ColNames[c])
    BY <1>1, <1>7
  <2> QED BY <1>1, <1>2, <2>1 DEF CellThrows, parseCell
<1>10. Unparseable' <=> Unparseable
  BY <1>1, <1>2, <1>9 DEF Unparseable
<1> QED BY <1>8, <1>10

\* fromCSV builds the columns from the rows it has.
LEMMA BuildKeeps ==
  ASSUME ReaderInv, BuildEmpty \/ BuildRagged \/ BuildUnparseable \/ BuildColumns
  PROVE  ReaderInv'
<1>1. PICK what, columns :
        /\ Builds(what, columns)
        /\ what \in {"built", "ragged", "unparseable"}
        /\ what = "built" => columns = << >> \/ columns = Columns
        /\ what = "unparseable" => Unparseable
  BY DEF BuildEmpty, BuildRagged, BuildUnparseable, BuildColumns
<1>2. /\ phase = "parsed" /\ phase' = what /\ frame' = columns /\ input' = input /\ fed' = fed
      /\ cuts' = cuts /\ buf' = buf /\ rec' = rec /\ rows' = rows
  BY <1>1 DEF Builds
<1>3. Columns' = Columns /\ (Unparseable' <=> Unparseable)
  BY <1>2, SameColumns
<1>4. ReaderTypes'
  BY <1>2 DEF ReaderInv, ReaderTypes
<1>5. PlaceInv'
  BY <1>1, <1>2 DEF PlaceInv
<1>6. RowsIndependentOfChunks'
  BY <1>1, <1>2 DEF ReaderInv, RowsIndependentOfChunks
<1>7. BuiltInv'
  BY <1>1, <1>2, <1>3 DEF BuiltInv
<1> QED BY <1>4, <1>5, <1>6, <1>7 DEF ReaderInv

\* A stuttering step keeps the invariant.
LEMMA StutterKeeps ==
  ASSUME ReaderInv, UNCHANGED readerVars
  PROVE  ReaderInv'
<1>1. /\ phase' = phase /\ frame' = frame /\ input' = input /\ fed' = fed
      /\ cuts' = cuts /\ buf' = buf /\ rec' = rec /\ rows' = rows
  BY DEF readerVars
<1>2. Columns' = Columns /\ (Unparseable' <=> Unparseable)
  BY <1>1, SameColumns
<1> QED BY <1>1, <1>2 DEF ReaderInv, ReaderTypes, PlaceInv, WholeDelimiters, Place, RowsIndependentOfChunks, BuiltInv

\* The invariant of the reader holds in every reachable state.
THEOREM ReaderCorrect == ReaderSpec => []ReaderInv
<1>1. ReaderInv /\ [ReaderNext]_readerVars => ReaderInv'
  <2> SUFFICES ASSUME ReaderInv, [ReaderNext]_readerVars PROVE ReaderInv'
    OBVIOUS
  <2>1. ASSUME NEW n \in 1 .. Len(input.text) - fed, Feed(n) PROVE ReaderInv'
    BY <2>1, FeedKeeps
  <2>2. CASE Finish
    BY <2>2, FinishKeeps
  <2>3. CASE BuildEmpty \/ BuildRagged \/ BuildUnparseable \/ BuildColumns
    BY <2>3, BuildKeeps
  <2>4. CASE UNCHANGED readerVars
    BY <2>4, StutterKeeps
  <2> QED BY <2>1, <2>2, <2>3, <2>4 DEF ReaderNext
<1> QED BY <1>1, ReaderStarts, PTL DEF ReaderSpec

-----------------------------------------------------------------------------
(* The inferred types.                                                     *)

InferredTypes == {"i32", "i64", "f64", "bool", "utf8"}

\* What a column of an inferred type says of a cell it was inferred from.
Fits(dtype, cell) ==
  /\ dtype = "i32" => isI32(cell)
  /\ dtype = "i64" => isAnyI64(cell)
  /\ dtype = "f64" => isF64(cell)

\* A cell on account of which a column becomes one of floats.
IsDecimal(cell) == isF64(cell) /\ ~isAnyI64(cell)
IsWide(cell) == isAnyI64(cell) /\ ~isI32(cell)

\* promote gives a type that fits the new cell and every cell the old one fits, and
\* leaves the integers only for a decimal, for text or, from i32, for an integer that
\* does not need i64.
LEMMA PromoteFits ==
  ASSUME NEW state \in InferredTypes, NEW cell
  PROVE  /\ promote(state, cell) \in InferredTypes
         /\ Fits(promote(state, cell), cell)
         /\ \A other : Fits(state, other) => Fits(promote(state, cell), other)
         /\ promote(state, cell) = "f64" =>
              state = "f64" \/ IsDecimal(cell) \/ (state = "i32" /\ IsWide(cell) /\ ~isI64Overflow(cell))
<1>1. \A c : (isI32(c) => isAnyI64(c)) /\ (isI64Overflow(c) => isAnyI64(c)) /\ (isAnyI64(c) => isF64(c))
  BY DEF isI32, isI64Overflow, isAnyI64, isF64
<1>2. BoolOrText(cell) = "bool" \/ BoolOrText(cell) = "utf8"
  BY DEF BoolOrText
<1>3. \A c : Fits("bool", c) /\ Fits("utf8", c)
  BY DEF Fits
<1>4. CASE state = "utf8"
  <2>1. promote(state, cell) = "utf8"
    BY <1>4 DEF promote
  <2> QED BY <1>3, <2>1 DEF InferredTypes
<1>5. CASE state = "i32"
  <2>1. promote(state, cell) =
          IF isI32(cell) THEN "i32" ELSE IF isI64Overflow(cell) THEN "i64"
          ELSE IF isF64(cell) THEN "f64" ELSE BoolOrText(cell)
    BY <1>5 DEF promote
  <2> QED BY <1>1, <1>2, <1>5, <2>1 DEF InferredTypes, Fits, IsDecimal, IsWide
<1>6. CASE state = "i64"
  <2>1. promote(state, cell) =
          IF isAnyI64(cell) THEN "i64" ELSE IF isF64(cell) THEN "f64" ELSE BoolOrText(cell)
    BY <1>6 DEF promote
  <2> QED BY <1>1, <1>2, <1>6, <2>1 DEF InferredTypes, Fits, IsDecimal
<1>7. CASE state = "f64"
  <2>1. promote(state, cell) = IF isF64(cell) THEN "f64" ELSE BoolOrText(cell)
    BY <1>7 DEF promote
  <2> QED BY <1>1, <1>2, <1>7, <2>1 DEF InferredTypes, Fits
<1>8. CASE state = "bool"
  <2>1. promote(state, cell) = BoolOrText(cell)
    BY <1>8 DEF promote
  <2> QED BY <1>2, <1>3, <2>1 DEF InferredTypes
<1> QED BY <1>4, <1>5, <1>6, <1>7, <1>8 DEF InferredTypes

AfterCells(sample, f, k) == IF k = 0 THEN "i32" ELSE Seen(f[k - 1], sample[k])

AreStates(sample, n, f) == f = [k \in 0 .. n |-> AfterCells(sample, f, k)]

\* The types seen cell by cell exist.
LEMMA StatesPrefix ==
  ASSUME NEW sample, NEW n \in Nat
  PROVE  \E f : AreStates(sample, n, f)
<1> USE DEF AreStates
<1> DEFINE T == {m \in Nat : ~\E f : f = [k \in 0 .. m |-> AfterCells(sample, f, k)]}
<1>1. SUFFICES ASSUME T # {} PROVE FALSE
  OBVIOUS
<1>2. PICK m \in T : \A l \in T : m <= l
  BY <1>1, LeastElement
<1>3. CASE m = 0
  <2> DEFINE f == [k \in 0 .. 0 |-> "i32"]
  <2>1. f = [k \in 0 .. 0 |-> AfterCells(sample, f, k)]
    BY DEF AfterCells
  <2> QED BY <1>2, <1>3, <2>1
<1>4. CASE m # 0
  <2>1. m \in Nat /\ m - 1 \in Nat /\ m - 1 \notin T
    BY <1>2, <1>4
  <2>2. PICK g : g = [k \in 0 .. m - 1 |-> AfterCells(sample, g, k)]
    BY <2>1
  <2> DEFINE f == [k \in 0 .. m |-> AfterCells(sample, g, k)]
  <2>3. \A k \in 0 .. m : AfterCells(sample, f, k) = AfterCells(sample, g, k)
    <3>1. ASSUME NEW k \in 0 .. m, k # 0 PROVE f[k - 1] = g[k - 1]
      <4>1. k - 1 \in 0 .. m - 1 /\ k - 1 \in 0 .. m
        BY <2>1, <3>1
      <4>2. g[k - 1] = AfterCells(sample, g, k - 1)
        BY <2>2, <4>1
      <4> QED BY <4>1, <4>2
    <3> HIDE DEF f
    <3> QED BY <3>1 DEF AfterCells
  <2>4. f = [k \in 0 .. m |-> AfterCells(sample, f, k)]
    <3> HIDE DEF f
    <3>1. f = [k \in 0 .. m |-> AfterCells(sample, g, k)]
      BY DEF f
    <3> QED BY <2>3, <3>1
  <2> QED BY <1>2, <2>4
<1> QED BY <1>3, <1>4

\* inferDtypeFromSample follows its sample cell by cell.
LEMMA SampleFacts ==
  ASSUME NEW sample, Len(sample) \in Nat, NEW here \in DOMAIN sample, sample[here] \notin input.nullValues
  PROVE  \E state : /\ state[0] = "i32"
                    /\ \A k \in 1 .. Len(sample) : state[k] = Seen(state[k - 1], sample[k])
                    /\ inferDtypeFromSample(sample) = state[Len(sample)]
<1> DEFINE n == Len(sample)
           state == CHOOSE f : AreStates(sample, n, f)
<1>1. n \in Nat
  OBVIOUS
<1>2. inferDtypeFromSample(sample) = state[n]
  <2>1. state = CHOOSE f : f = [k \in 0 .. n |-> IF k = 0 THEN "i32" ELSE Seen(f[k - 1], sample[k])]
    BY DEF AreStates, AfterCells
  <2> HIDE DEF state
  <2> QED BY <2>1 DEF inferDtypeFromSample
<1>3. AreStates(sample, n, state)
  <2>1. \E f : AreStates(sample, n, f)
    BY <1>1, StatesPrefix
  <2> HIDE DEF n
  <2> QED BY <2>1
<1> HIDE DEF state, n
<1>4. state = [k \in 0 .. n |-> AfterCells(sample, state, k)]
  BY <1>3 DEF AreStates
<1>5. \A k \in 0 .. n : state[k] = AfterCells(sample, state, k)
  BY <1>4
<1>6. state[0] = "i32"
  BY <1>1, <1>5 DEF AfterCells
<1>7. ASSUME NEW k \in 1 .. n PROVE state[k] = Seen(state[k - 1], sample[k])
  <2>1. k \in 0 .. n /\ k # 0
    BY <1>1
  <2> QED BY <1>5, <2>1 DEF AfterCells
<1>8. n = Len(sample)
  BY DEF n
<1> QED BY <1>2, <1>6, <1>7, <1>8

\* The cells of a sample up to the k-th that are not null.
Given(sample, k) == {j \in 1 .. k : sample[j] \notin input.nullValues}

\* One cell more does not change why a column is of floats.
LEMMA FloatsLater ==
  ASSUME NEW sample, NEW k \in Nat \ {0}, Floats(sample, Given(sample, k - 1))
  PROVE  Floats(sample, Given(sample, k))
<1>1. PICK q \in Given(sample, k - 1) :
        \/ isF64(sample[q]) /\ ~isAnyI64(sample[q])
        \/ /\ isAnyI64(sample[q]) /\ ~isI32(sample[q])
           /\ \A s \in Given(sample, k - 1) : isI64Overflow(sample[s]) => q < s
  BY DEF Floats
<1>2. q \in Given(sample, k) /\ q < k
  BY DEF Given
<1>3. \A s \in Given(sample, k) : s # k => s \in Given(sample, k - 1)
  BY DEF Given
<1>4. \A s \in Given(sample, k) : isI64Overflow(sample[s]) /\ s # k /\ ~(isF64(sample[q]) /\ ~isAnyI64(sample[q])) => q < s
  BY <1>1, <1>3
<1> QED BY <1>1, <1>2, <1>4 DEF Floats

\* The cell on account of which a column becomes one of floats is a reason to be one.
LEMMA FloatsNow ==
  ASSUME NEW sample, NEW k \in Nat \ {0}, sample[k] \notin input.nullValues,
         \/ IsDecimal(sample[k])
         \/ /\ IsWide(sample[k]) /\ ~isI64Overflow(sample[k])
            /\ \A j \in Given(sample, k - 1) : isI32(sample[j])
  PROVE  Floats(sample, Given(sample, k))
<1>1. k \in Given(sample, k)
  BY DEF Given
<1>2. ASSUME IsWide(sample[k]), ~isI64Overflow(sample[k]), \A j \in Given(sample, k - 1) : isI32(sample[j])
      PROVE  \A s \in Given(sample, k) : ~isI64Overflow(sample[s])
  <2>1. \A s \in Given(sample, k) : s = k \/ s \in Given(sample, k - 1)
    BY DEF Given
  <2>2. \A c : isI32(c) => ~isI64Overflow(c)
    BY DEF isI32, isI64Overflow, Int32, BigInt
  <2> QED BY <1>2, <2>1, <2>2
<1> QED BY <1>1, <1>2 DEF Floats, IsDecimal, IsWide

\* The type of a sample fits each of its cells that is not null, and is f64 for a reason.
LEMMA SampleFits ==
  ASSUME NEW sample, Len(sample) \in Nat, DOMAIN sample = 1 .. Len(sample),
         NEW here \in DOMAIN sample, sample[here] \notin input.nullValues
  PROVE  /\ inferDtypeFromSample(sample) \in InferredTypes /\ Fits(inferDtypeFromSample(sample), sample[here])
         /\ inferDtypeFromSample(sample) = "f64" => Floats(sample, Given(sample, Len(sample)))
<1>1. PICK state : /\ state[0] = "i32"
                   /\ \A k \in 1 .. Len(sample) : state[k] = Seen(state[k - 1], sample[k])
                   /\ inferDtypeFromSample(sample) = state[Len(sample)]
  BY SampleFacts
<1> DEFINE n == Len(sample)
           Good(k) == /\ state[k] \in InferredTypes
                      /\ \A j \in 1 .. k : sample[j] \notin input.nullValues => Fits(state[k], sample[j])
                      /\ state[k] = "f64" => Floats(sample, Given(sample, k))
<1>2. n \in Nat
  OBVIOUS
<1>3. Good(0)
  BY <1>1 DEF InferredTypes
<1>4. ASSUME NEW k \in 1 .. n, Good(k - 1) PROVE Good(k)
  <2>1. state[k] = Seen(state[k - 1], sample[k])
    BY <1>1
  <2>k. k \in Nat \ {0}
    BY <1>2
  <2>2. state[k - 1] \in InferredTypes /\ (state[k - 1] = "f64" => Floats(sample, Given(sample, k - 1)))
    BY <1>4
  <2>3. ASSUME NEW j \in 1 .. k, j # k, sample[j] \notin input.nullValues PROVE Fits(state[k - 1], sample[j])
    <3>1. j \in 1 .. k - 1
      BY <1>2, <2>3
    <3> QED BY <1>4, <2>3, <3>1
  <2> HIDE DEF Good
  <2>4. CASE sample[k] \in input.nullValues
    <3>1. state[k] = state[k - 1]
      BY <2>1, <2>4 DEF Seen
    <3>2. state[k] = "f64" => Floats(sample, Given(sample, k))
      BY <2>k, <2>2, <3>1, FloatsLater
    <3> QED BY <2>2, <2>3, <2>4, <3>1, <3>2 DEF Good
  <2>5. CASE sample[k] \notin input.nullValues
    <3>1. state[k] = promote(state[k - 1], sample[k])
      BY <2>1, <2>5 DEF Seen
    <3>2. /\ state[k] \in InferredTypes
          /\ Fits(state[k], sample[k])
          /\ \A other : Fits(state[k - 1], other) => Fits(state[k], other)
          /\ state[k] = "f64" =>
               \/ state[k - 1] = "f64" \/ IsDecimal(sample[k])
               \/ state[k - 1] = "i32" /\ IsWide(sample[k]) /\ ~isI64Overflow(sample[k])
      BY <2>2, <3>1, PromoteFits
    <3>3. ASSUME state[k] = "f64" PROVE Floats(sample, Given(sample, k))
      <4>1. CASE state[k - 1] = "f64"
        BY <2>k, <2>2, <4>1, FloatsLater
      <4>2. CASE IsDecimal(sample[k])
        BY <2>k, <2>5, <4>2, FloatsNow
      <4>3. CASE state[k - 1] = "i32" /\ IsWide(sample[k]) /\ ~isI64Overflow(sample[k])
        <5>1. \A j \in Given(sample, k - 1) : isI32(sample[j])
          <6>1. \A j \in Given(sample, k - 1) : j \in 1 .. k /\ j # k /\ sample[j] \notin input.nullValues
            BY <2>k DEF Given
          <6> QED BY <2>3, <4>3, <6>1 DEF Fits
        <5> QED BY <2>k, <2>5, <4>3, <5>1, FloatsNow
      <4> QED BY <3>2, <3>3, <4>1, <4>2, <4>3
    <3> QED BY <2>3, <3>2, <3>3 DEF Good
  <2> QED BY <2>4, <2>5
<1>5. \A k \in 0 .. n : Good(k)
  <2> DEFINE G == {k \in 0 .. n : Good(k)}
  <2> HIDE DEF Good
  <2>1. 0 \in G
    BY <1>2, <1>3
  <2>2. \A k \in 1 .. n : k - 1 \in G => k \in G
    BY <1>2, <1>4
  <2>3. \A k \in 0 .. n : k \in G
    <3> HIDE DEF G
    <3> QED BY <1>2, <2>1, <2>2, StepByStep
  <2> QED BY <2>3
<1>6. Good(n)
  BY <1>2, <1>5
<1> QED BY <1>1, <1>6

\* The data rows are a sequence, and a column has one cell for each.
LEMMA ColumnOfRows ==
  ASSUME input \in Inputs, rows \in Seq(Row), NEW name
  PROVE  /\ Len(DataRows) \in Nat /\ DOMAIN DataRows = 1 .. Len(DataRows)
         /\ DataRows \in Seq(Row)
         /\ \E V : ColumnText(name) \in Seq(V)
         /\ Len(ColumnText(name)) = Len(DataRows)
<1> DEFINE from == input.skipRows + IF input.header THEN 2 ELSE 1
           most == from + input.maxRows - 1
           to == IF most < Len(rows) THEN most ELSE Len(rows)
<1>1. DataRows = SubSeq(rows, from, to)
  BY DEF DataRows
<1>2. from \in Nat /\ from >= 1 /\ to \in Nat /\ to <= Len(rows) /\ Len(rows) \in Nat
  BY InputsAssumption
<1> HIDE DEF from, to
<1>3. DataRows \in Seq(Row)
  <2>1. CASE from <= to
    <3>1. \A i \in from .. to : i \in 1 .. Len(rows)
      BY <1>2
    <3>2. \A i \in 1 .. Len(rows) : rows[i] \in Row
      OBVIOUS
    <3> QED BY <1>1, <1>2, <3>1, <3>2, SubSeqProperties
  <2>2. CASE ~(from <= to)
    <3>1. SubSeq(rows, from, to) = << >>
      BY <1>2, <2>2, SubSeqEmpty
    <3> QED BY <1>1, <3>1
  <2> QED BY <2>1, <2>2
<1>4. Len(DataRows) \in Nat /\ DOMAIN DataRows = 1 .. Len(DataRows)
  BY <1>3
<1> DEFINE V == {DataRows[r][LastOf(name)] : r \in DOMAIN DataRows}
           n == Len(DataRows)
<1>5. ColumnText(name) \in [1 .. n -> V]
  BY <1>4 DEF ColumnText
<1>6. n \in Nat
  BY <1>4
<1> HIDE DEF V, n
<1>7. ColumnText(name) \in Seq(V) /\ Len(ColumnText(name)) = n
  BY <1>5, <1>6
<1>8. n = Len(DataRows)
  BY DEF n
<1> QED BY <1>3, <1>4, <1>7, <1>8

\* The type inferred for a column fits the cells of its sample, and is f64 for a reason.
LEMMA ColumnFits ==
  ASSUME input \in Inputs, rows \in Seq(Row), NEW name, ~Forced(name),
         NEW r \in DOMAIN DataRows, r <= InferRows, ColumnText(name)[r] \notin input.nullValues
  PROVE  /\ DtypeOf(name) \in InferredTypes /\ Fits(DtypeOf(name), ColumnText(name)[r])
         /\ DtypeOf(name) = "f64" => Floats(ColumnText(name), Sampled(name))
<1>1. /\ Len(DataRows) \in Nat /\ DOMAIN DataRows = 1 .. Len(DataRows) /\ DataRows \in Seq(Row)
      /\ Len(ColumnText(name)) = Len(DataRows)
  BY ColumnOfRows
<1>2. PICK V : ColumnText(name) \in Seq(V)
  BY ColumnOfRows
<1> DEFINE n == IF Len(DataRows) < InferRows THEN Len(DataRows) ELSE InferRows
           sample == SubSeq(ColumnText(name), 1, n)
<1>3. n \in Nat /\ n <= Len(DataRows) /\ r \in 1 .. n
  BY <1>1, InferRowsAssumption
<1>4. DataRows # << >>
  BY <1>1
<1>5. DtypeOf(name) = inferDtypeFromSample(sample)
  BY <1>4 DEF DtypeOf
<1>s. \A i : i \in 1 .. n <=> i \in DOMAIN DataRows /\ i <= InferRows
  BY <1>1, InferRowsAssumption
<1> HIDE DEF n
<1>6. Len(sample) = n /\ DOMAIN sample = 1 .. n /\ \A i \in 1 .. n : sample[i] = ColumnText(name)[i]
  <2>1. n <= Len(ColumnText(name))
    BY <1>1, <1>3
  <2> HIDE DEF sample
  <2>2. sample = SubSeq(ColumnText(name), 1, n)
    BY DEF sample
  <2> QED BY <1>2, <1>3, <2>1, <2>2
<1> HIDE DEF sample
<1>7. sample[r] = ColumnText(name)[r] /\ r \in DOMAIN sample /\ Len(sample) \in Nat
  BY <1>3, <1>6
<1>8. Given(sample, Len(sample)) = Sampled(name)
  BY <1>6, <1>s DEF Given, Sampled
<1>9. Floats(sample, Sampled(name)) => Floats(ColumnText(name), Sampled(name))
  <2>1. \A i \in Sampled(name) : sample[i] = ColumnText(name)[i]
    BY <1>6, <1>s DEF Sampled
  <2> QED BY <2>1, Zenon DEF Floats
<1> QED BY <1>5, <1>6, <1>7, <1>8, <1>9, SampleFits

\* What parseCell keeps of a cell: all of it, or the nearest float to a wide integer.
KeptAs(cell, dtype, got) ==
  \/ \E kind \in DOMAIN got : got[kind] = cell
  \/ dtype = "f64" /\ cell \in {<<BigInt>>, <<HugeInt>>} /\ got = [number |-> NumberOf(cell)]

\* A cell its type fits is parsed, and kept unless the type is bool.
LEMMA FittingCells ==
  ASSUME NEW cell, cell \notin input.nullValues, NEW dtype \in InferredTypes, Fits(dtype, cell)
  PROVE  /\ parseCell(cell, dtype) # Throws
         /\ dtype # "bool" => KeptAs(cell, dtype, parseCell(cell, dtype))
<1>1. CASE dtype = "utf8"
  <2>1. parseCell(cell, dtype) = [text |-> cell]
    BY <1>1 DEF parseCell
  <2> QED BY <2>1 DEF Throws, KeptAs
<1>2. CASE dtype = "bool"
  <2>1. parseCell(cell, dtype) = [bool |-> cell = <<TrueText>>]
    BY <1>2 DEF parseCell
  <2> QED BY <1>2, <2>1 DEF Throws
<1>3. CASE dtype \in {"i32", "f64"}
  <2>1. IsNumber(cell)
    BY <1>3 DEF Fits, isI32, isF64, isAnyI64, IsNumber
  <2>2. parseCell(cell, dtype) = [number |-> NumberOf(cell)]
    BY <1>3 DEF parseCell
  <2>3. cell \notin {<<BigInt>>, <<HugeInt>>} => NumberOf(cell) = cell
    BY <2>1, Zenon DEF NumberOf
  <2>4. dtype = "i32" => cell \notin {<<BigInt>>, <<HugeInt>>}
    BY <1>3 DEF Fits, isI32, Int32, BigInt, HugeInt
  <2> HIDE DEF NumberOf
  <2> QED BY <1>3, <2>2, <2>3, <2>4 DEF Throws, KeptAs
<1>4. CASE dtype = "i64"
  <2>1. isAnyI64(cell)
    BY <1>4 DEF Fits
  <2>2. parseCell(cell, dtype) = [bigint |-> cell]
    BY <1>4, <2>1 DEF parseCell
  <2> QED BY <2>2 DEF Throws, KeptAs
<1> QED BY <1>1, <1>2, <1>3, <1>4 DEF InferredTypes

\* What fromCSV builds or throws agrees with the inferred types.
LEMMA BuiltHolds ==
  ASSUME input \in Inputs, rows \in Seq(Row), phase = "built" => frame = << >> \/ frame = Columns,
         phase = "unparseable" => Unparseable
  PROVE  InferredHolds
<1>1. ASSUME phase = "built", NEW name \in DOMAIN frame, ~Forced(name), frame[name].dtype # "bool", NEW r \in Sampled(name)
      PROVE  /\ KeptAs(ColumnText(name)[r], frame[name].dtype, frame[name].cells[r])
             /\ frame[name].dtype = "f64" => Floats(ColumnText(name), Sampled(name))
  <2>1. frame = Columns
    BY <1>1
  <2>2. r \in DOMAIN DataRows /\ r <= InferRows /\ ColumnText(name)[r] \notin input.nullValues
    BY <1>1 DEF Sampled
  <2>3. name \in Names
    BY <1>1, <2>1 DEF Columns
  <2>4. frame[name].dtype = DtypeOf(name) /\ frame[name].cells[r] = parseCell(ColumnText(name)[r], DtypeOf(name))
    BY <2>1, <2>2, <2>3 DEF Columns, Cell
  <2>5. /\ DtypeOf(name) \in InferredTypes /\ Fits(DtypeOf(name), ColumnText(name)[r])
        /\ DtypeOf(name) = "f64" => Floats(ColumnText(name), Sampled(name))
    BY <1>1, <2>2, ColumnFits
  <2> QED BY <1>1, <2>2, <2>4, <2>5, FittingCells
<1>2. ASSUME phase = "unparseable"
      PROVE  \E r \in DOMAIN DataRows, c \in DOMAIN ColNames :
               CellThrows(r, c) /\ (Forced(ColNames[c]) \/ r > InferRows \/ LastOf(ColNames[c]) # c)
  <2>1. PICK r \in DOMAIN DataRows, c \in DOMAIN ColNames : CellThrows(r, c)
    BY <1>2 DEF Unparseable
  <2>2. ASSUME ~Forced(ColNames[c]), r <= InferRows, LastOf(ColNames[c]) = c PROVE FALSE
    <3>1. ColumnText(ColNames[c])[r] = DataRows[r][c]
      BY <2>1, <2>2 DEF ColumnText
    <3>2. parseCell(ColumnText(ColNames[c])[r], DtypeOf(ColNames[c])) = Throws
      BY <2>1, <3>1 DEF CellThrows
    <3>3. ColumnText(ColNames[c])[r] \notin input.nullValues
      <4>1. Null # Throws
        BY DEF Null, Throws
      <4> QED BY <3>2, <4>1 DEF parseCell
    <3>4. DtypeOf(ColNames[c]) \in InferredTypes /\ Fits(DtypeOf(ColNames[c]), ColumnText(ColNames[c])[r])
      BY <2>2, <3>3, ColumnFits
    <3> QED BY <3>2, <3>3, <3>4, FittingCells
  <2>3. r > InferRows \/ r <= InferRows
    <3>1. r \in Nat
      BY ColumnOfRows
    <3> QED BY <3>1, InferRowsAssumption
  <2> QED BY <2>1, <2>2, <2>3
<1>3. phase = "built" =>
        \A name \in {x \in DOMAIN frame : ~Forced(x) /\ frame[x].dtype # "bool"} : \A r \in Sampled(name) :
          /\ KeptAs(ColumnText(name)[r], frame[name].dtype, frame[name].cells[r])
          /\ frame[name].dtype = "f64" => Floats(ColumnText(name), Sampled(name))
  BY <1>1
<1> QED BY <1>2, <1>3 DEF InferredHolds, KeptAs

\* For every text, the rows ChunkParser hands to onRow and whether it throws for a
\* quote left open are those of RFC 4180, however the text is cut when the delimiter
\* is one character and in one chunk when it is longer; a CR that ends the text is
\* taken for a line end, and a last line of nothing but quotes is not seen.
THEOREM RowsOfAnyChunks == ReaderSpec => []RowsIndependentOfChunks
<1>1. ReaderInv => RowsIndependentOfChunks
  BY DEF ReaderInv
<1> QED BY <1>1, ReaderCorrect, PTL

\* fromCSV keeps every cell of the sample a column type was inferred from, and does
\* not throw for one, for any table, any options and any number of sampled rows; but
\* an integer beyond 2^53 in a column that is of floats, for another cell of it or for
\* this one, is kept as the nearest float.
THEOREM InferredTypesHold == ReaderSpec => []InferredHolds
<1>1. ReaderInv => InferredHolds
  BY BuiltHolds DEF ReaderInv, ReaderTypes, BuiltInv
<1> QED BY <1>1, ReaderCorrect, PTL
=============================================================================
