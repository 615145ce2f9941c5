--------------------------------- MODULE Dates ---------------------------------
(***************************************************************************)
(* The calendar arithmetic of core/date.c: a date is turned into the       *)
(* number of days since 1 March of the year 0 and back again.  The         *)
(* divisions are those of C, which cut towards zero; the operators are     *)
(* exact for the years an int can hold without overflow.                   *)
(***************************************************************************)
EXTENDS Integers, Sequences

\* C's / and %.
Quot(a, b) == IF a >= 0 THEN a \div b ELSE -((-a) \div b)
Rem(a, b) == a - b * Quot(a, b)

MonthLengths == <<31, 28, 31, 30, 31, 30, 31, 31, 30, 31, 30, 31>>

IsLeapYear(y) == Rem(y, 4) = 0 /\ (Rem(y, 100) # 0 \/ Rem(y, 400) = 0)

DaysInMonth(y, m) == IF m = 2 /\ IsLeapYear(y) THEN 29 ELSE MonthLengths[m]

DateOf(y, m, d) == [year |-> y, month |-> m, day |-> d]

Valid(d) ==
  /\ d.month \in 1 .. 12
  /\ d.day \in 1 .. DaysInMonth(d.year, d.month)

\* to_days: the year begins in March, so that the leap day is its last.
ToDays(d) ==
  LET y   == d.year - (IF d.month <= 2 THEN 1 ELSE 0)
      era == Quot(IF y >= 0 THEN y ELSE y - 399, 400)
      yoe == y - era * 400
      doy == Quot(153 * (d.month + (IF d.month > 2 THEN -3 ELSE 9)) + 2, 5) + d.day - 1
  IN  era * 146097 + yoe * 365 + Quot(yoe, 4) - Quot(yoe, 100) + doy

\* Mutant: a year always begins after 365 days.
FromDaysEarly(z) ==
  LET era == Quot(IF z >= 0 THEN z ELSE z - 146096, 146097)
      doe == z - era * 146097
      yoe == Quot(doe, 365)
      doy == doe - (365 * yoe + Quot(yoe, 4) - Quot(yoe, 100))
      mp  == Quot(5 * doy + 2, 153)
      m   == mp + (IF mp < 10 THEN 3 ELSE -9)
  IN  DateOf(yoe + era * 400 + (IF m <= 2 THEN 1 ELSE 0), m,
             doy - Quot(153 * mp + 2, 5) + 1)

\* from_days.
FromDays(z) ==
  LET era == Quot(IF z >= 0 THEN z ELSE z - 146096, 146097)
      doe == z - era * 146097
      yoe == Quot(doe - Quot(doe, 1460) + Quot(doe, 36524) - Quot(doe, 146096), 365)
      doy == doe - (365 * yoe + Quot(yoe, 4) - Quot(yoe, 100))
      mp  == Quot(5 * doy + 2, 153)
      m   == mp + (IF mp < 10 THEN 3 ELSE -9)
  IN  DateOf(yoe + era * 400 + (IF m <= 2 THEN 1 ELSE 0), m,
             doy - Quot(153 * mp + 2, 5) + 1)

\* date_weekday: 0 is Monday.
Weekday(d) ==
  LET w == Rem(ToDays(d) + 2, 7) IN IF w < 0 THEN w + 7 ELSE w

AddDays(d, n) == FromDays(ToDays(d) + n)

\* date_add_months: a day the month does not have becomes its last one.
AddMonths(d, n) ==
  LET m0 == d.year * 12 + (d.month - 1) + n
      r  == Rem(m0, 12) + 1
      y  == IF r < 1 THEN Quot(m0, 12) - 1 ELSE Quot(m0, 12)
      m  == IF r < 1 THEN r + 12 ELSE r
      last == DaysInMonth(y, m)
  IN  DateOf(y, m, IF d.day < last THEN d.day ELSE last)
================================================================================
