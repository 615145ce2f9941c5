------------------------------ MODULE MCCalendar ------------------------------
(* Model checking instance of Calendar: the turn of a year and a leap      *)
(* February, with records on the last days of January and February and on  *)
(* a day that does not exist.  The days that are counted are those of the  *)
(* 400 years before the year 0 and of the year after it.                   *)
EXTENDS Calendar, TLC
CONSTANTS a, b
MCIds == {a, b}
MCDays == {DateOf(2024, 1, 31), DateOf(2024, 2, 29), DateOf(2024, 2, 30)}
MCToday == DateOf(2023, 12, 31)
MCFirstMonth == 2023 * 12 + 11
MCLastMonth == 2024 * 12 + 2
MCDayNumbers == -146200 .. 400
MCPaging == {-25, -12, -1, 1, 11, 30}
Symmetry == Permutations(MCIds)
================================================================================
