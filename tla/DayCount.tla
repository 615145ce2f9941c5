-------------------------------- MODULE DayCount --------------------------------
(***************************************************************************)
(* The arithmetic of Dates against a calendar that only counts: one day    *)
(* after the other, each month as long as it is and each week of seven     *)
(* days.  What holds between each day and the next one, and on one day     *)
(* whose weekday is known, holds over any distance.                        *)
(***************************************************************************)
EXTENDS Dates

\* The Gregorian rule, with the remainder of mathematics.
LastOf(y, m) ==
  IF m # 2 THEN (IF m \in {4, 6, 9, 11} THEN 30 ELSE 31)
  ELSE IF y % 400 = 0 \/ (y % 4 = 0 /\ y % 100 # 0) THEN 29 ELSE 28

Tomorrow(d) ==
  IF d.day < LastOf(d.year, d.month) THEN DateOf(d.year, d.month, d.day + 1)
  ELSE IF d.month < 12 THEN DateOf(d.year, d.month + 1, 1)
  ELSE DateOf(d.year + 1, 1, 1)

\* Saturday, 1 January 2000.
KnownDay == DateOf(2000, 1, 1)
KnownWeekday == 5

\* The day of number n is followed by that of number n + 1, the numbers find
\* back, and date_add_days goes the same way.
NextDayFollows(n) ==
  LET d == FromDays(n)
      next == FromDays(n + 1)
  IN /\ next = Tomorrow(d)
     /\ ToDays(d) = n
     /\ AddDays(d, 1) = next /\ AddDays(next, -1) = d
     /\ Weekday(next) = (Weekday(d) + 1) % 7
     /\ Valid(d) /\ DaysInMonth(d.year, d.month) = LastOf(d.year, d.month)

\* date_add_months goes exactly n months from d and keeps the day, or takes the
\* last one of a shorter month.
PagingReaches(d, n) ==
  LET e == AddMonths(d, n)
      m == d.year * 12 + (d.month - 1) + n
      last == LastOf(m \div 12, (m % 12) + 1)
  IN e = DateOf(m \div 12, (m % 12) + 1, IF d.day < last THEN d.day ELSE last)
================================================================================
