----------------------------- MODULE CalendarProofs -----------------------------
(***************************************************************************)
(* The arithmetic of days agrees with a calendar that counts them, for     *)
(* every day there is; and the grid keeps its marks, its days and its      *)
(* cells, for any records and any months.                                  *)
(***************************************************************************)
EXTENDS Calendar, SequenceTheorems, FiniteSetTheorems, WellFoundedInduction, TLAPS

--------------------------------------------------------------------------------
(* Division.                                                               *)

\* The eras of 400 years and those of 146097 days are counted downwards before
\* the year 0, which is what the corrections are for.
LEMMA YearEra ==
  ASSUME NEW y \in Int
  PROVE  Quot(IF y >= 0 THEN y ELSE y - 399, 400) = y \div 400
BY DEF Quot

EraOf(z) == z \div 146097

LEMMA DayEra ==
  ASSUME NEW z \in Int
  PROVE  /\ Quot(IF z >= 0 THEN z ELSE z - 146096, 146097) = EraOf(z)
         /\ EraOf(z) \in Int
         /\ 0 <= z - EraOf(z) * 146097 /\ z - EraOf(z) * 146097 <= 146096
BY DEF Quot, EraOf

\* C's remainder is the remainder, or seven or twelve less.
LEMMA RemOfSeven ==
  ASSUME NEW a \in Int
  PROVE  (IF Rem(a, 7) < 0 THEN Rem(a, 7) + 7 ELSE Rem(a, 7)) = a % 7
BY DEF Rem, Quot

\* Whether something is divided by 4, 100 or 400 does not depend on how the
\* remainder of a negative number is taken.
LEMMA LeapYears ==
  ASSUME NEW y \in Int
  PROVE  IsLeapYear(y) <=> y % 400 = 0 \/ (y % 4 = 0 /\ y % 100 # 0)
<1>1. Rem(y, 4) = 0 <=> y % 4 = 0
  BY DEF Rem, Quot
<1>2. Rem(y, 100) = 0 <=> y % 100 = 0
  BY DEF Rem, Quot
<1>3. Rem(y, 400) = 0 <=> y % 400 = 0
  BY DEF Rem, Quot
<1>4. y % 400 = 0 => y % 4 = 0
  OBVIOUS
<1> QED
  BY <1>1, <1>2, <1>3, <1>4 DEF IsLeapYear

LEMMA MonthsAreCounted ==
  ASSUME NEW y \in Int, NEW m \in 1 .. 12
  PROVE  DaysInMonth(y, m) = LastOf(y, m) /\ LastOf(y, m) \in 28 .. 31
BY LeapYears DEF DaysInMonth, LastOf, MonthLengths

--------------------------------------------------------------------------------
(* Numbers of days.                                                        *)

\* The days before year y, which begins in March, and those before its month k,
\* counted from March, 0.
YearStart(y) == 365 * y + y \div 4 - y \div 100 + y \div 400
MonthStart(k) == (153 * k + 2) \div 5

MarchYear(d) == d.year - (IF d.month <= 2 THEN 1 ELSE 0)
MarchMonth(m) == m + (IF m > 2 THEN -3 ELSE 9)

\* The number that to_days computes era by era.
LEMMA DaysBefore ==
  ASSUME NEW d, d.year \in Int, d.month \in 1 .. 12, d.day \in Int
  PROVE  ToDays(d) = YearStart(MarchYear(d)) + MonthStart(MarchMonth(d.month)) + d.day - 1
<1> DEFINE y == MarchYear(d)
           k == MarchMonth(d.month)
           era == y \div 400
           yoe == y - era * 400
<1>1. y \in Int /\ k \in 0 .. 11
  BY DEF MarchYear, MarchMonth
<1>2. ToDays(d) = era * 146097 + yoe * 365 + Quot(yoe, 4) - Quot(yoe, 100)
                    + (Quot(153 * k + 2, 5) + d.day - 1)
  <2>1. Quot(IF y >= 0 THEN y ELSE y - 399, 400) = era
    BY <1>1, YearEra
  <2> QED
    BY <2>1 DEF ToDays, MarchYear, MarchMonth
<1> HIDE DEF y, k
<1>3. PICK e \in Int, o \in 0 .. 399 : y = 400 * e + o /\ e = era /\ o = yoe
  BY <1>1
<1>4. Quot(153 * k + 2, 5) = (153 * k + 2) \div 5
  BY <1>1 DEF Quot
<1>5. Quot(o, 4) = o \div 4 /\ Quot(o, 100) = o \div 100
  BY <1>3 DEF Quot
<1> HIDE DEF era, yoe
<1>6. y \div 4 = o \div 4 + 100 * e /\ y \div 100 = o \div 100 + 4 * e /\ y \div 400 = e
  BY <1>3
<1>7. YearStart(y) = e * 146097 + o * 365 + o \div 4 - o \div 100
  BY <1>3, <1>6 DEF YearStart
<1>8. ToDays(d) = e * 146097 + o * 365 + o \div 4 - o \div 100 + MonthStart(k) + d.day - 1
  BY <1>1, <1>2, <1>3, <1>4, <1>5 DEF MonthStart
<1> QED
  BY <1>7, <1>8 DEF y, k

\* Years have 365 days, and those of which the February has 29 have one more.
LEMMA YearLengths ==
  ASSUME NEW y \in Int
  PROVE  YearStart(y + 1) - YearStart(y) = 337 + LastOf(y + 1, 2)
<1>1. CASE (y + 1) % 400 = 0
  BY <1>1 DEF YearStart, LastOf
<1>2. CASE (y + 1) % 400 # 0 /\ (y + 1) % 100 = 0
  BY <1>2 DEF YearStart, LastOf
<1>3. CASE (y + 1) % 400 # 0 /\ (y + 1) % 100 # 0 /\ (y + 1) % 4 = 0
  BY <1>3 DEF YearStart, LastOf
<1>4. CASE (y + 1) % 400 # 0 /\ (y + 1) % 4 # 0
  BY <1>4 DEF YearStart, LastOf
<1> QED
  BY <1>1, <1>2, <1>3, <1>4

LEMMA YearsFollow ==
  ASSUME NEW y \in Int, NEW z \in Int, y < z
  PROVE  YearStart(y + 1) <= YearStart(z)
<1>1. (y + 1) \div 4 <= z \div 4 /\ (y + 1) \div 400 <= z \div 400
  OBVIOUS
<1>2. z \div 100 - (y + 1) \div 100 <= z - (y + 1)
  OBVIOUS
<1>3. /\ y \div 4 \in Int /\ y \div 100 \in Int /\ y \div 400 \in Int
  OBVIOUS
<1> QED
  BY <1>1, <1>2 DEF YearStart

LEMMA MonthsFollow ==
  ASSUME NEW k \in 0 .. 10
  PROVE  MonthStart(k + 1) - MonthStart(k) = LastOf(0, k + (IF k < 10 THEN 3 ELSE -9))
BY DEF MonthStart, LastOf

\* What from_days does with the number of a day within an era: it finds the year
\* that the day is in.
YearOfEra(doe) == (doe - doe \div 1460 + doe \div 36524 - doe \div 146096) \div 365

LEMMA YearWithinEra ==
  ASSUME NEW doe \in Int, 0 <= doe, doe <= 146096
  PROVE  /\ YearOfEra(doe) \in Int /\ 0 <= YearOfEra(doe) /\ YearOfEra(doe) <= 399
         /\ 365 * YearOfEra(doe) + YearOfEra(doe) \div 4 - YearOfEra(doe) \div 100 <= doe
         /\ doe <= 365 * (YearOfEra(doe) + 1) + (YearOfEra(doe) + 1) \div 4
                     - (YearOfEra(doe) + 1) \div 100 - (IF YearOfEra(doe) = 399 THEN 0 ELSE 1)
<1>1. PICK q1 \in Int : 1460 * q1 <= doe /\ doe < 1460 * q1 + 1460 /\ q1 = doe \div 1460
  OBVIOUS
<1>2. PICK q2 \in Int : 36524 * q2 <= doe /\ doe < 36524 * q2 + 36524 /\ q2 = doe \div 36524
  OBVIOUS
<1>3. PICK q3 \in Int : 146096 * q3 <= doe /\ doe < 146096 * q3 + 146096 /\ q3 = doe \div 146096
  OBVIOUS
<1>4. PICK q \in Int : q = YearOfEra(doe) /\ 365 * q <= doe - q1 + q2 - q3 /\ doe - q1 + q2 - q3 < 365 * q + 365
  BY <1>1, <1>2, <1>3 DEF YearOfEra
<1>5. PICK q4 \in Int : 4 * q4 <= q /\ q < 4 * q4 + 4 /\ q4 = q \div 4
  OBVIOUS
<1>6. PICK q100 \in Int : 100 * q100 <= q /\ q < 100 * q100 + 100 /\ q100 = q \div 100
  OBVIOUS
<1>7. PICK r4 \in Int : 4 * r4 <= q + 1 /\ q + 1 < 4 * r4 + 4 /\ r4 = (q + 1) \div 4
  OBVIOUS
<1>8. PICK r100 \in Int : 100 * r100 <= q + 1 /\ q + 1 < 100 * r100 + 100 /\ r100 = (q + 1) \div 100
  OBVIOUS
<1>9. /\ 1460 * q1 <= doe /\ doe < 1460 * q1 + 1460
      /\ 36524 * q2 <= doe /\ doe < 36524 * q2 + 36524
      /\ 146096 * q3 <= doe /\ doe < 146096 * q3 + 146096
      /\ 365 * q <= doe - q1 + q2 - q3 /\ doe - q1 + q2 - q3 < 365 * q + 365
  BY <1>1, <1>2, <1>3, <1>4
<1>10. 4 * q4 <= q /\ q < 4 * q4 + 4 /\ 100 * q100 <= q /\ q < 100 * q100 + 100
  BY <1>5, <1>6
<1>11. 4 * r4 <= q + 1 /\ q + 1 < 4 * r4 + 4 /\ 100 * r100 <= q + 1 /\ q + 1 < 100 * r100 + 100
  BY <1>7, <1>8
<1>12. q \in 0 .. 399 /\ 365 * q + q4 - q100 <= doe
  BY <1>9, <1>10, SMTT(60)
<1>13. doe <= 365 * (q + 1) + r4 - r100 - (IF q = 399 THEN 0 ELSE 1)
  BY <1>9, <1>11, SMTT(60)
<1>14. q \in Int /\ q = YearOfEra(doe)
  BY <1>4
<1>15. q4 = q \div 4 /\ q100 = q \div 100 /\ r4 = (q + 1) \div 4 /\ r100 = (q + 1) \div 100
  BY <1>5, <1>6, <1>7, <1>8
<1>16. 365 * q + q \div 4 - q \div 100 <= doe
  BY <1>12, <1>15
<1>17. doe <= 365 * (q + 1) + (q + 1) \div 4 - (q + 1) \div 100 - (IF q = 399 THEN 0 ELSE 1)
  BY <1>13, <1>15
<1> QED
  BY <1>12, <1>14, <1>16, <1>17

\* How a date is made of a year that begins in March, a month of it and a day.
MarchDate(y, k, i) ==
  DateOf(y + (IF k + (IF k < 10 THEN 3 ELSE -9) <= 2 THEN 1 ELSE 0), k + (IF k < 10 THEN 3 ELSE -9), i + 1)

\* The month, counted from March, that a day of the year is in.
MarchMonthOf(doy) == (5 * doy + 2) \div 153

LEMMA QuotOfNat ==
  ASSUME NEW a \in Nat, NEW b \in Nat \ {0}
  PROVE  Quot(a, b) = a \div b
BY DEF Quot

\* from_days finds the year that the day is in, and counts the days from its
\* first of March.
LEMMA DateOfDays ==
  ASSUME NEW n \in Int
  PROVE  \E y, doy \in Int :
           /\ n = YearStart(y) + doy /\ 0 <= doy /\ n < YearStart(y + 1)
           /\ FromDays(n) = MarchDate(y, MarchMonthOf(doy), doy - MonthStart(MarchMonthOf(doy)))
<1> DEFINE era == EraOf(n)
           doe == n - era * 146097
           q == YearOfEra(doe)
           d == doe - (365 * q + q \div 4 - q \div 100)
           k == MarchMonthOf(d)
           y == q + era * 400
<1>1. /\ era \in Int /\ doe \in Int /\ 0 <= doe /\ doe <= 146096
      /\ Quot(IF n >= 0 THEN n ELSE n - 146096, 146097) = era
  BY DayEra
<1>2. n = era * 146097 + doe
  BY <1>1
<1> HIDE DEF era
<1> HIDE DEF doe
<1>3. /\ q \in Int /\ 0 <= q /\ q <= 399
      /\ 365 * q + q \div 4 - q \div 100 <= doe
      /\ doe <= 365 * (q + 1) + (q + 1) \div 4 - (q + 1) \div 100 - (IF q = 399 THEN 0 ELSE 1)
  BY <1>1, YearWithinEra
<1>4. Quot(doe - Quot(doe, 1460) + Quot(doe, 36524) - Quot(doe, 146096), 365) = q
  <2>1. /\ Quot(doe, 1460) = doe \div 1460 /\ Quot(doe, 36524) = doe \div 36524
        /\ Quot(doe, 146096) = doe \div 146096
    <3> SUFFICES ASSUME doe \in Nat
                 PROVE  /\ Quot(doe, 1460) = doe \div 1460
                        /\ Quot(doe, 36524) = doe \div 36524
                        /\ Quot(doe, 146096) = doe \div 146096
      BY <1>1
    <3> QED
      BY DEF Quot
  <2>2. doe - doe \div 1460 + doe \div 36524 - doe \div 146096 \in Nat
    BY <1>1
  <2>3. Quot(doe - doe \div 1460 + doe \div 36524 - doe \div 146096, 365) = YearOfEra(doe)
    BY <2>2, QuotOfNat DEF YearOfEra
  <2> QED
    BY <2>1, <2>3
<1> HIDE DEF q
<1>5. d \in Int /\ 0 <= d
  BY <1>1, <1>3
<1>6. Quot(q, 4) = q \div 4 /\ Quot(q, 100) = q \div 100
  <2>1. q \in Nat
    BY <1>3
  <2> QED
    BY <2>1, QuotOfNat
<1>7. k \in Int /\ 0 <= k /\ Quot(5 * d + 2, 153) = k
  <2> HIDE DEF d
  <2> QED
    BY <1>5 DEF Quot, MarchMonthOf
<1>8. Quot(153 * k + 2, 5) = MonthStart(k)
  <2> HIDE DEF k
  <2> QED
    BY <1>7 DEF Quot, MonthStart
<1>9. FromDays(n) = MarchDate(y, k, d - MonthStart(k))
  <2> DEFINE E == Quot(IF n >= 0 THEN n ELSE n - 146096, 146097)
             Doe == n - E * 146097
             Yoe == Quot(Doe - Quot(Doe, 1460) + Quot(Doe, 36524) - Quot(Doe, 146096), 365)
             Doy == Doe - (365 * Yoe + Quot(Yoe, 4) - Quot(Yoe, 100))
             K == Quot(5 * Doy + 2, 153)
             M == K + (IF K < 10 THEN 3 ELSE -9)
  <2>1. FromDays(n) = DateOf(Yoe + E * 400 + (IF M <= 2 THEN 1 ELSE 0), M,
                             Doy - Quot(153 * K + 2, 5) + 1)
    BY SMTT(120) DEF FromDays
  <2>2. E = era
    BY <1>1
  <2>3. Doe = doe
    BY <2>2 DEF doe
  <2> HIDE DEF E, Doe
  <2>4. Yoe = q
    BY <1>4, <2>3
  <2> HIDE DEF Yoe
  <2>5. Doy = d
    BY <1>6, <2>3, <2>4
  <2> HIDE DEF Doy, d
  <2>6. K = k
    BY <1>7, <2>5
  <2> HIDE DEF K, k
  <2> QED
    BY <1>8, <2>1, <2>2, <2>4, <2>5, <2>6 DEF MarchDate
<1>10. n = YearStart(y) + d
  <2>1. /\ y \div 4 = q \div 4 + 100 * era /\ y \div 100 = q \div 100 + 4 * era
        /\ y \div 400 = era
    BY <1>1, <1>3
  <2> QED
    BY <1>1, <1>2, <1>3, <2>1 DEF YearStart
<1>11. n < YearStart(y + 1)
  <2>1. /\ (y + 1) \div 4 = (q + 1) \div 4 + 100 * era
        /\ (y + 1) \div 100 = (q + 1) \div 100 + 4 * era
        /\ (y + 1) \div 400 = era + (IF q = 399 THEN 1 ELSE 0)
    BY <1>1, <1>3
  <2> QED
    BY <1>1, <1>2, <1>3, <2>1 DEF YearStart
<1>12. y \in Int
  BY <1>1, <1>3
<1> QED
  BY <1>5, <1>9, <1>10, <1>11, <1>12

LEMMA MonthOfDay ==
  ASSUME NEW doy \in Int, 0 <= doy, doy <= 365
  PROVE  /\ MarchMonthOf(doy) \in 0 .. 11
         /\ MonthStart(MarchMonthOf(doy)) \in Int /\ MonthStart(MarchMonthOf(doy)) <= doy
         /\ MarchMonthOf(doy) <= 10 => doy < MonthStart(MarchMonthOf(doy) + 1)
BY DEF MarchMonthOf, MonthStart

LEMMA LastDays ==
  ASSUME NEW y \in Int, NEW m \in 1 .. 12
  PROVE  /\ LastOf(y, m) \in 28 .. 31
         /\ m # 2 => LastOf(y, m) = LastOf(0, m)
         /\ m = 2 => LastOf(y, m) \in 28 .. 29
BY DEF LastOf

\* The days there are.
Dates == {d \in [year : Int, month : 1 .. 12, day : 1 .. 31] : Valid(d)}

LEMMA DaysThereAre ==
  ASSUME NEW d
  PROVE  d \in Dates <=> /\ d \in [year : Int, month : 1 .. 12, day : 1 .. 31]
                         /\ d.day <= LastOf(d.year, d.month)
BY MonthsAreCounted DEF Dates, Valid

LEMMA YearStartIsInt ==
  ASSUME NEW y \in Int
  PROVE  YearStart(y) \in Int
BY DEF YearStart

LEMMA MonthStarts ==
  /\ MonthStart(0) = 0 /\ MonthStart(11) = 337
  /\ \A k \in 0 .. 11 : MonthStart(k) \in Int /\ MonthStart(k) >= 0
  /\ \A k, l \in 0 .. 11 : k <= l => MonthStart(k) <= MonthStart(l)
BY DEF MonthStart

\* Each day there is has its number, and none has another's: it lies in its year
\* that begins in March, and there in its month.
LEMMA DayWithinYear ==
  ASSUME NEW d \in Dates
  PROVE  LET y   == MarchYear(d)
             doy == MonthStart(MarchMonth(d.month)) + d.day - 1
         IN  /\ y \in Int /\ doy \in Int /\ 0 <= doy
             /\ ToDays(d) = YearStart(y) + doy /\ ToDays(d) \in Int
             /\ YearStart(y) + doy < YearStart(y + 1)
<1> DEFINE y == MarchYear(d)
           k == MarchMonth(d.month)
           doy == MonthStart(k) + d.day - 1
<1>1. /\ d.year \in Int /\ d.month \in 1 .. 12 /\ d.day \in 1 .. 31
      /\ d.day <= LastOf(d.year, d.month)
  BY DaysThereAre
<1>2. y \in Int /\ k \in 0 .. 11 /\ (d.month = 2 <=> k = 11)
  BY <1>1 DEF MarchYear, MarchMonth
<1>3. MonthStart(k) \in Int /\ MonthStart(k) >= 0
  BY <1>2, MonthStarts
<1>4. doy \in Int /\ 0 <= doy
  BY <1>1, <1>3
<1>5. YearStart(y) \in Int /\ YearStart(y + 1) \in Int
  BY <1>2, YearStartIsInt
<1>6. ToDays(d) = YearStart(y) + doy
  <2>1. ToDays(d) = YearStart(y) + MonthStart(k) + d.day - 1
    BY <1>1, DaysBefore
  <2> QED
    BY <1>1, <1>3, <1>5, <2>1
<1>7. doy < 337 + LastOf(y + 1, 2)
  <2>1. CASE d.month = 2
    <3>1. d.year = y + 1 /\ k = 11
      BY <1>1, <2>1 DEF MarchYear, MarchMonth
    <3> QED
      BY <1>1, <2>1, <3>1, MonthStarts, LastDays
  <2>2. CASE d.month # 2
    <3>1. k \in 0 .. 10 /\ k + (IF k < 10 THEN 3 ELSE -9) = d.month
      BY <1>1, <2>2 DEF MarchMonth
    <3>2. MonthStart(k + 1) - MonthStart(k) = LastOf(d.year, d.month)
      BY <1>1, <2>2, <3>1, MonthsFollow, LastDays
    <3>3. MonthStart(k + 1) \in Int /\ MonthStart(k + 1) <= 337
      BY <3>1, MonthStarts
    <3>4. LastOf(d.year, d.month) \in Int /\ LastOf(y + 1, 2) \in 28 .. 31
      BY <1>1, <1>2, LastDays
    <3> QED
      BY <1>1, <1>3, <3>2, <3>3, <3>4
  <2> QED
    BY <2>1, <2>2
<1>8. YearStart(y) + doy < YearStart(y + 1)
  <2>1. YearStart(y + 1) - YearStart(y) = 337 + LastOf(y + 1, 2)
    BY <1>2, YearLengths
  <2>2. LastOf(y + 1, 2) \in Int
    BY <1>2, LastDays
  <2> QED
    BY <1>4, <1>5, <1>7, <2>1, <2>2
<1>9. ToDays(d) \in Int
  BY <1>4, <1>5, <1>6
<1> QED
  BY <1>2, <1>4, <1>6, <1>8, <1>9

LEMMA NumbersAreOwn ==
  ASSUME NEW d \in Dates, NEW e \in Dates, ToDays(d) = ToDays(e)
  PROVE  d = e
<1> DEFINE y == MarchYear(d)
           z == MarchYear(e)
           k == MarchMonth(d.month)
           l == MarchMonth(e.month)
<1>1. /\ d.year \in Int /\ d.month \in 1 .. 12 /\ d.day \in 1 .. 31
      /\ e.year \in Int /\ e.month \in 1 .. 12 /\ e.day \in 1 .. 31
      /\ d.day <= LastOf(d.year, d.month) /\ e.day <= LastOf(e.year, e.month)
      /\ d = [year |-> d.year, month |-> d.month, day |-> d.day]
      /\ e = [year |-> e.year, month |-> e.month, day |-> e.day]
  BY DaysThereAre
<1>2. y \in Int /\ z \in Int /\ k \in 0 .. 11 /\ l \in 0 .. 11
  BY <1>1 DEF MarchYear, MarchMonth
<1>3. y = z
  <2>1. /\ YearStart(y) <= ToDays(d) /\ ToDays(d) < YearStart(y + 1)
        /\ YearStart(z) <= ToDays(e) /\ ToDays(e) < YearStart(z + 1)
        /\ ToDays(d) \in Int
    BY <1>2, DayWithinYear, YearStartIsInt
  <2>2. CASE y < z
    BY <1>2, <2>1, <2>2, YearsFollow, YearStartIsInt
  <2>3. CASE z < y
    BY <1>2, <2>1, <2>3, YearsFollow, YearStartIsInt
  <2> QED
    BY <1>2, <2>2, <2>3
<1>4. MonthStart(k) + d.day = MonthStart(l) + e.day
  <2>1. ToDays(d) = YearStart(y) + (MonthStart(k) + d.day - 1)
    BY DayWithinYear
  <2>2. ToDays(e) = YearStart(y) + (MonthStart(l) + e.day - 1)
    BY <1>3, DayWithinYear
  <2>3. YearStart(y) \in Int /\ MonthStart(k) \in Int /\ MonthStart(l) \in Int
    BY <1>2, YearStartIsInt, MonthStarts
  <2>4. d.day \in Int /\ e.day \in Int
    BY <1>1
  <2>5. YearStart(y) + (MonthStart(k) + d.day - 1) = YearStart(y) + (MonthStart(l) + e.day - 1)
    BY <2>1, <2>2
  <2> QED
    <3> DEFINE Y == YearStart(y)
               M == MonthStart(k)
               N == MonthStart(l)
    <3> HIDE DEF Y, M, N
    <3> QED
      BY <2>3, <2>4, <2>5 DEF Y, M, N
<1>5. ASSUME NEW a \in Dates, NEW b \in Dates,
             MarchMonth(a.month) < MarchMonth(b.month)
      PROVE  MonthStart(MarchMonth(a.month)) + a.day < MonthStart(MarchMonth(b.month)) + b.day
  <2> DEFINE i == MarchMonth(a.month)
             j == MarchMonth(b.month)
  <2>1. /\ a.year \in Int /\ a.month \in 1 .. 12 /\ a.day \in 1 .. 31
        /\ a.day <= LastOf(a.year, a.month)
        /\ b.month \in 1 .. 12 /\ b.day \in 1 .. 31
    BY DaysThereAre
  <2>2. /\ i \in 0 .. 10 /\ j \in 0 .. 11 /\ i + 1 <= j /\ a.month # 2
        /\ i + (IF i < 10 THEN 3 ELSE -9) = a.month
    BY <1>5, <2>1 DEF MarchMonth
  <2>3. MonthStart(i + 1) - MonthStart(i) = LastOf(a.year, a.month)
    BY <2>1, <2>2, MonthsFollow, LastDays
  <2>4. /\ MonthStart(i) \in Int /\ MonthStart(i + 1) \in Int /\ MonthStart(j) \in Int
        /\ MonthStart(i + 1) <= MonthStart(j)
    BY <2>2, MonthStarts
  <2>5. LastOf(a.year, a.month) \in Int
    BY <2>1, LastDays
  <2> QED
    BY <2>1, <2>3, <2>4, <2>5
<1>6. k = l
  <2>1. MonthStart(k) \in Int /\ MonthStart(l) \in Int
    BY <1>2, MonthStarts
  <2>2. ~ (k < l)
    BY <1>1, <1>4, <1>5, <2>1
  <2>3. ~ (l < k)
    BY <1>1, <1>4, <1>5, <2>1
  <2> QED
    BY <1>2, <2>2, <2>3
<1>7. d.month = e.month
  BY <1>1, <1>6 DEF MarchMonth
<1>8. d.year = e.year
  BY <1>1, <1>3, <1>7 DEF MarchYear
<1>9. d.day = e.day
  BY <1>1, <1>2, <1>4, <1>6, MonthStarts
<1> QED
  BY <1>1, <1>7, <1>8, <1>9

\* from_days finds a day there is, and to_days finds back from it.
LEMMA NumbersFindBack ==
  ASSUME NEW n \in Int
  PROVE  FromDays(n) \in Dates /\ ToDays(FromDays(n)) = n
<1> DEFINE d == FromDays(n)
<1>1. PICK y, doy \in Int :
        /\ n = YearStart(y) + doy /\ 0 <= doy /\ n < YearStart(y + 1)
        /\ d = MarchDate(y, MarchMonthOf(doy), doy - MonthStart(MarchMonthOf(doy)))
  BY DateOfDays
<1> DEFINE k == MarchMonthOf(doy)
           m == k + (IF k < 10 THEN 3 ELSE -9)
           w == y + (IF m <= 2 THEN 1 ELSE 0)
           i == doy - MonthStart(k)
<1>2. doy < 337 + LastOf(y + 1, 2) /\ LastOf(y + 1, 2) \in 28 .. 29
  <2>1. YearStart(y + 1) - YearStart(y) = 337 + LastOf(y + 1, 2)
    BY YearLengths
  <2>2. YearStart(y) \in Int /\ YearStart(y + 1) \in Int /\ LastOf(y + 1, 2) \in 28 .. 29
    BY YearStartIsInt, LastDays
  <2> QED
    BY <1>1, <2>1, <2>2
<1>3. /\ k \in 0 .. 11 /\ MonthStart(k) \in Int /\ MonthStart(k) <= doy
      /\ k <= 10 => doy < MonthStart(k + 1)
  BY <1>1, <1>2, MonthOfDay
<1>4. d = [year |-> w, month |-> m, day |-> i + 1]
  BY <1>1 DEF MarchDate, DateOf
<1>5. m \in 1 .. 12 /\ w \in Int /\ i \in Int /\ 0 <= i
  BY <1>3
<1>6. i + 1 <= LastOf(w, m)
  <2>1. CASE k = 11
    <3>1. m = 2 /\ w = y + 1
      BY <2>1
    <3> QED
      BY <1>2, <1>3, <2>1, <3>1, MonthStarts
  <2>2. CASE k # 11
    <3>1. k \in 0 .. 10 /\ m # 2
      BY <1>3, <2>2
    <3>2. MonthStart(k + 1) - MonthStart(k) = LastOf(w, m)
      <4>1. MonthStart(k + 1) - MonthStart(k) = LastOf(0, m)
        BY <3>1, MonthsFollow
      <4> QED
        BY <1>5, <3>1, <4>1, LastDays
    <3>3. MonthStart(k + 1) \in Int /\ doy < MonthStart(k + 1)
      BY <1>3, <3>1, MonthStarts
    <3>4. LastOf(w, m) \in Int
      BY <1>5, LastDays
    <3> HIDE DEF k, m, w
    <3> QED
      BY <1>3, <3>2, <3>3, <3>4
  <2> QED
    BY <2>1, <2>2
<1>7. d \in Dates
  <2>1. LastOf(w, m) \in 28 .. 31
    BY <1>5, LastDays
  <2> HIDE DEF w, m, i
  <2>2. i + 1 \in 1 .. 31
    BY <1>5, <1>6, <2>1
  <2> HIDE DEF d
  <2> QED
    BY <1>4, <1>5, <1>6, <2>2, DaysThereAre
<1>8. MarchYear(d) = y /\ MarchMonth(d.month) = k
  <2>1. d.year = w /\ d.month = m
    BY <1>4
  <2> HIDE DEF d
  <2> QED
    BY <1>3, <2>1 DEF MarchYear, MarchMonth
<1>9. ToDays(d) = n
  <2>1. ToDays(d) = YearStart(y) + (MonthStart(k) + d.day - 1)
    BY <1>7, <1>8, DayWithinYear
  <2>2. d.day = i + 1
    BY <1>4
  <2>3. YearStart(y) \in Int
    BY YearStartIsInt
  <2> HIDE DEF d, k
  <2> QED
    BY <1>1, <1>3, <2>1, <2>2, <2>3
<1> QED
  BY <1>7, <1>9

\* The day after a day has the number after its number.
LEMMA TomorrowIsNext ==
  ASSUME NEW d \in Dates
  PROVE  Tomorrow(d) \in Dates /\ ToDays(Tomorrow(d)) = ToDays(d) + 1
<1> DEFINE most == LastOf(d.year, d.month)
<1>1. /\ d.year \in Int /\ d.month \in 1 .. 12 /\ d.day \in 1 .. 31
      /\ d.day <= most /\ most \in 28 .. 31
  BY DaysThereAre, LastDays
<1>2. ToDays(d) = YearStart(MarchYear(d)) + MonthStart(MarchMonth(d.month)) + d.day - 1
  BY <1>1, DaysBefore
<1>3. CASE d.day < most
  <2>1. Tomorrow(d) = [year |-> d.year, month |-> d.month, day |-> d.day + 1]
    BY <1>3 DEF Tomorrow, DateOf
  <2>2. Tomorrow(d) \in Dates
    BY <1>1, <1>3, <2>1, DaysThereAre
  <2>3. MarchYear(Tomorrow(d)) = MarchYear(d)
    BY <2>1 DEF MarchYear
  <2>4. ToDays(Tomorrow(d)) = YearStart(MarchYear(d)) + MonthStart(MarchMonth(d.month)) + d.day
    <3>1. ToDays(Tomorrow(d)) = YearStart(MarchYear(d)) + (MonthStart(MarchMonth(d.month)) + (d.day + 1) - 1)
      BY <2>1, <2>2, <2>3, DayWithinYear
    <3>2. YearStart(MarchYear(d)) \in Int /\ MonthStart(MarchMonth(d.month)) \in Int
      BY <1>1, YearStartIsInt, MonthStarts DEF MarchYear, MarchMonth
    <3> QED
      BY <1>1, <3>1, <3>2
  <2>5. YearStart(MarchYear(d)) \in Int /\ MonthStart(MarchMonth(d.month)) \in Int
    BY <1>1, YearStartIsInt, MonthStarts DEF MarchYear, MarchMonth
  <2> QED
    BY <1>1, <1>2, <2>2, <2>4, <2>5
<1>4. CASE d.day = most
  <2> DEFINE e == Tomorrow(d)
  <2>1. e = IF d.month < 12 THEN [year |-> d.year, month |-> d.month + 1, day |-> 1]
            ELSE [year |-> d.year + 1, month |-> 1, day |-> 1]
    BY <1>1, <1>4 DEF Tomorrow, DateOf
  <2>2. e \in Dates
    <3>1. /\ e.year \in Int /\ e.month \in 1 .. 12 /\ e.day = 1
          /\ e \in [year : Int, month : 1 .. 12, day : 1 .. 31]
      BY <1>1, <2>1
    <3>2. LastOf(e.year, e.month) \in 28 .. 31
      BY <3>1, LastDays
    <3> QED
      BY <3>1, <3>2, DaysThereAre
  <2>3. ToDays(e) = YearStart(MarchYear(e)) + MonthStart(MarchMonth(e.month))
    <3>1. /\ ToDays(e) = YearStart(MarchYear(e)) + (MonthStart(MarchMonth(e.month)) + e.day - 1)
          /\ MarchYear(e) \in Int
      BY <2>2, DayWithinYear
    <3>2. e.day = 1 /\ e.month \in 1 .. 12
      BY <1>1, <2>1
    <3>3. YearStart(MarchYear(e)) \in Int /\ MonthStart(MarchMonth(e.month)) \in Int
      BY <3>1, <3>2, YearStartIsInt, MonthStarts DEF MarchMonth
    <3> HIDE DEF e
    <3> QED
      BY <3>1, <3>2, <3>3
  <2>4. /\ YearStart(MarchYear(d)) \in Int /\ YearStart(d.year) \in Int
        /\ MonthStart(MarchMonth(d.month)) \in Int
    BY <1>1, YearStartIsInt, MonthStarts DEF MarchYear, MarchMonth
  <2>5. ToDays(e) = ToDays(d) + 1
    <3>1. CASE d.month = 2
      <4>1. MarchYear(e) = d.year /\ MarchMonth(e.month) = 0
        BY <1>1, <2>1, <3>1 DEF MarchYear, MarchMonth
      <4>2. MarchYear(d) = d.year - 1 /\ MarchMonth(d.month) = 11
        BY <3>1 DEF MarchYear, MarchMonth
      <4>3. YearStart(d.year) - YearStart(d.year - 1) = 337 + most
        <5>1. d.year - 1 \in Int /\ (d.year - 1) + 1 = d.year
          BY <1>1
        <5>2. YearStart((d.year - 1) + 1) - YearStart(d.year - 1) = 337 + LastOf((d.year - 1) + 1, 2)
          BY <5>1, YearLengths
        <5> QED
          BY <3>1, <5>1, <5>2
      <4>4. YearStart(d.year - 1) \in Int
        BY <1>1, YearStartIsInt
      <4>5. ToDays(d) = YearStart(d.year - 1) + 337 + most - 1
        BY <1>2, <1>4, <4>2, MonthStarts
      <4>6. ToDays(e) = YearStart(d.year)
        BY <2>3, <2>4, <4>1, MonthStarts
      <4> HIDE DEF most, e
      <4> QED
        BY <1>1, <2>4, <4>3, <4>4, <4>5, <4>6
    <3>2. CASE d.month # 2
      <4>1. /\ MarchYear(e) = MarchYear(d) /\ MarchMonth(d.month) \in 0 .. 10
            /\ MarchMonth(e.month) = MarchMonth(d.month) + 1
            /\ d.month = MarchMonth(d.month) + (IF MarchMonth(d.month) < 10 THEN 3 ELSE -9)
        BY <1>1, <2>1, <3>2 DEF MarchYear, MarchMonth
      <4>2. MonthStart(MarchMonth(d.month) + 1) - MonthStart(MarchMonth(d.month)) = most
        BY <1>1, <3>2, <4>1, MonthsFollow, LastDays
      <4>3. MonthStart(MarchMonth(d.month) + 1) \in Int
        BY <4>1, MonthStarts
      <4>4. ToDays(e) = YearStart(MarchYear(d)) + MonthStart(MarchMonth(d.month) + 1)
        BY <2>3, <4>1
      <4>5. ToDays(d) = YearStart(MarchYear(d)) + MonthStart(MarchMonth(d.month)) + most - 1
        BY <1>2, <1>4
      <4> HIDE DEF most, e
      <4> QED
        BY <1>1, <2>4, <4>2, <4>3, <4>4, <4>5
    <3> QED
      BY <3>1, <3>2
  <2> QED
    BY <2>2, <2>5
<1> QED
  BY <1>1, <1>3, <1>4

\* date_weekday is the number of the day, counted round in sevens.
LEMMA WeekdayCounts ==
  ASSUME NEW d, ToDays(d) \in Int
  PROVE  Weekday(d) = (ToDays(d) + 2) % 7 /\ Weekday(d) \in 0 .. 6
<1> DEFINE a == ToDays(d) + 2
<1>1. a \in Int
  OBVIOUS
<1>2. Weekday(d) = IF Rem(a, 7) < 0 THEN Rem(a, 7) + 7 ELSE Rem(a, 7)
  BY DEF Weekday
<1> HIDE DEF a
<1>3. (IF Rem(a, 7) < 0 THEN Rem(a, 7) + 7 ELSE Rem(a, 7)) = a % 7
  BY <1>1, RemOfSeven
<1>4. Weekday(d) = a % 7
  BY <1>2, <1>3
<1>5. a % 7 \in 0 .. 6
  BY <1>1
<1> QED
  BY <1>4, <1>5 DEF a

\* Whatever the number: the day that from_days finds for it is followed by that
\* of the next number, in the week too.
LEMMA EveryDayIsCounted ==
  ASSUME NEW n \in Int
  PROVE  NextDayFollows(n)
<1> DEFINE d == FromDays(n)
           e == FromDays(n + 1)
<1>1. d \in Dates /\ ToDays(d) = n /\ e \in Dates /\ ToDays(e) = n + 1
  BY NumbersFindBack
<1>2. e = Tomorrow(d)
  BY <1>1, TomorrowIsNext, NumbersAreOwn
<1>3. AddDays(d, 1) = e
  BY <1>1 DEF AddDays
<1>4. AddDays(e, -1) = d
  <2>1. ToDays(e) + (-1) = n
    BY <1>1
  <2> QED
    BY <2>1 DEF AddDays
<1>5. Weekday(e) = (Weekday(d) + 1) % 7
  <2>1. Weekday(d) = (n + 2) % 7 /\ Weekday(e) = (n + 1 + 2) % 7
    BY <1>1, WeekdayCounts
  <2>2. (n + 1 + 2) % 7 = (((n + 2) % 7) + 1) % 7
    OBVIOUS
  <2> QED
    BY <2>1, <2>2
<1>6. Valid(d) /\ DaysInMonth(d.year, d.month) = LastOf(d.year, d.month)
  BY <1>1, MonthsAreCounted, DaysThereAre DEF Dates
<1> QED
  BY <1>1, <1>2, <1>3, <1>4, <1>5, <1>6 DEF NextDayFollows

\* Whatever the day and the number of months: date_add_months goes that far.
LEMMA PagingGoesFar ==
  ASSUME NEW d \in Dates, NEW n \in Int
  PROVE  PagingReaches(d, n) /\ AddMonths(d, n) \in Dates
<1> DEFINE a == d.year * 12 + (d.month - 1) + n
<1>1. a \in Int /\ d.day \in 1 .. 31
  BY DaysThereAre
<1>2. AddMonths(d, n) =
        LET r  == Rem(a, 12) + 1
            y  == IF r < 1 THEN Quot(a, 12) - 1 ELSE Quot(a, 12)
            m  == IF r < 1 THEN r + 12 ELSE r
            most == DaysInMonth(y, m)
        IN  DateOf(y, m, IF d.day < most THEN d.day ELSE most)
  BY DEF AddMonths
<1>3. PagingReaches(d, n) <=>
        LET most == LastOf(a \div 12, (a % 12) + 1)
        IN  AddMonths(d, n) = DateOf(a \div 12, (a % 12) + 1, IF d.day < most THEN d.day ELSE most)
  BY DEF PagingReaches
<1> HIDE DEF a
<1>4. /\ (IF Rem(a, 12) + 1 < 1 THEN Quot(a, 12) - 1 ELSE Quot(a, 12)) = a \div 12
      /\ (IF Rem(a, 12) + 1 < 1 THEN Rem(a, 12) + 1 + 12 ELSE Rem(a, 12) + 1) = (a % 12) + 1
  BY <1>1 DEF Rem, Quot
<1> DEFINE y == a \div 12
           m == (a % 12) + 1
<1>5. y \in Int /\ m \in 1 .. 12
  BY <1>1
<1>6. AddMonths(d, n) = LET most == DaysInMonth(y, m)
                        IN  DateOf(y, m, IF d.day < most THEN d.day ELSE most)
  BY <1>2, <1>4
<1>7. PagingReaches(d, n) <=>
        LET most == LastOf(y, m)
        IN  AddMonths(d, n) = DateOf(y, m, IF d.day < most THEN d.day ELSE most)
  BY <1>3
<1> HIDE DEF y, m
<1>8. DaysInMonth(y, m) = LastOf(y, m) /\ LastOf(y, m) \in 28 .. 31
  BY <1>5, MonthsAreCounted
<1>9. AddMonths(d, n) = [year |-> y, month |-> m, day |-> IF d.day < LastOf(y, m) THEN d.day ELSE LastOf(y, m)]
  BY <1>6, <1>8 DEF DateOf
<1>10. AddMonths(d, n) \in Dates
  <2> DEFINE e == AddMonths(d, n)
  <2>1. e \in [year : Int, month : 1 .. 12, day : 1 .. 31] /\ e.day <= LastOf(e.year, e.month)
    BY <1>1, <1>5, <1>8, <1>9
  <2> HIDE DEF e
  <2>2. e \in Dates
    BY <2>1, DaysThereAre
  <2> QED
    BY <2>2 DEF e
<1> QED
  BY <1>6, <1>7, <1>8, <1>10

LEMMA KnownDayIsKnown == Weekday(KnownDay) = KnownWeekday
<1> DEFINE d == KnownDay
<1>1. d.year = 2000 /\ d.month = 1 /\ d.day = 1
  BY DEF KnownDay, DateOf
<1>2. MarchYear(d) = 1999 /\ MarchMonth(d.month) = 10
  BY <1>1 DEF MarchYear, MarchMonth
<1>3. YearStart(1999) = 730119 /\ MonthStart(10) = 306
  BY DEF YearStart, MonthStart
<1>4. ToDays(d) = 730425
  BY <1>1, <1>2, <1>3, DaysBefore
<1> HIDE DEF d
<1>5. Weekday(d) = (730425 + 2) % 7
  BY <1>4, WeekdayCounts
<1> QED
  BY <1>5 DEF d, KnownWeekday

\* The arithmetic of days agrees with a calendar that counts them, whatever the
\* samples are: for every number of a day, and every number of months.
THEOREM DatesCounted == Spec => []DatesAreCounted
<1>1. DatesAreCounted
  BY KnownDayIsKnown, EveryDayIsCounted, NumbersFindBack, PagingGoesFar, CalendarAssumption
     DEF DatesAreCounted
<1> QED
  BY <1>1, PTL

--------------------------------------------------------------------------------
(* Listings and the selected day.                                          *)

\* A function on 1 .. n is a sequence.
LEMMA IsSequence ==
  ASSUME NEW S, NEW n \in Nat, NEW s \in [1 .. n -> S]
  PROVE  s \in Seq(S)
BY SeqDef

LEMMA ElementsOfSeq ==
  ASSUME NEW S, NEW s \in Seq(S)
  PROVE  /\ Len(s) \in Nat /\ DOMAIN s = 1 .. Len(s)
         /\ \A i \in DOMAIN s : s[i] \in S
OBVIOUS

\* A listing is a sequence of the records there are, each with its date.
LEMMA ListingsType ==
  ASSUME NEW d \in [Ids -> Days \union {Absent}], NEW s \in Listings(d)
  PROVE  /\ s \in Seq([id : Ids, date : Days])
         /\ \A i \in DOMAIN s : d[s[i].id] = s[i].date
<1>0. PICK T \in SUBSET {j \in Ids : d[j] # Absent} : s \in ListingsOf(d, T)
  BY DEF Listings
<1> DEFINE S == {[id |-> i, date |-> d[i]] : i \in T}
<1>1. IsFiniteSet(S)
  <2>1. IsFiniteSet(T)
    BY CalendarAssumption, FS_Subset
  <2> DEFINE f == [i \in T |-> [id |-> i, date |-> d[i]]]
  <2>2. f \in Surjection(T, S)
    BY DEF Surjection
  <2> QED
    BY <2>1, <2>2, FS_Surjection
<1>2. Cardinality(S) \in Nat
  BY <1>1, FS_CardinalityType
<1>3. s \in [1 .. Cardinality(S) -> S]
  BY <1>0 DEF ListingsOf, SetToSeqs
<1>4. S \subseteq [id : Ids, date : Days]
  BY <1>0
<1>5. \A x \in S : d[x.id] = x.date
  OBVIOUS
<1> HIDE DEF S
<1>6. s \in [1 .. Cardinality(S) -> [id : Ids, date : Days]]
  BY <1>3, <1>4
<1>7. s \in Seq([id : Ids, date : Days])
  BY <1>2, <1>6, IsSequence
<1>8. \A i \in DOMAIN s : d[s[i].id] = s[i].date
  BY <1>3, <1>5
<1> QED
  BY <1>7, <1>8

LEMMA FirstOfMonth ==
  ASSUME NEW d \in Dates
  PROVE  FirstOf(d) \in Dates /\ FirstOf(d).day = 1
<1> DEFINE e == FirstOf(d)
<1>1. d \in [year : Int, month : 1 .. 12, day : 1 .. 31]
  BY DaysThereAre
<1>2. /\ e.year = d.year /\ e.month = d.month /\ e.day = 1
      /\ e \in [year : Int, month : 1 .. 12, day : 1 .. 31]
  BY <1>1 DEF FirstOf
<1>3. LastOf(e.year, e.month) \in 28 .. 31
  BY <1>1, <1>2, LastDays
<1> HIDE DEF e
<1>4. e \in Dates
  BY <1>2, <1>3, DaysThereAre
<1> QED
  BY <1>2, <1>4 DEF e

\* A day of a month, as a date; the number of its day counts on from the first.
LEMMA DayOfMonth ==
  ASSUME NEW d \in Dates, d.day = 1, NEW n \in 1 .. DaysInMonth(d.year, d.month)
  PROVE  /\ [d EXCEPT !.day = n] \in Dates
         /\ ToDays([d EXCEPT !.day = n]) = ToDays(d) + n - 1
<1> DEFINE e == [d EXCEPT !.day = n]
<1>1. /\ d \in [year : Int, month : 1 .. 12, day : 1 .. 31]
      /\ DaysInMonth(d.year, d.month) = LastOf(d.year, d.month)
      /\ LastOf(d.year, d.month) \in 28 .. 31
  BY DaysThereAre, MonthsAreCounted
<1>2. /\ e.year = d.year /\ e.month = d.month /\ e.day = n
      /\ e \in [year : Int, month : 1 .. 12, day : 1 .. 31]
  BY <1>1
<1> HIDE DEF e
<1>3. e \in Dates
  BY <1>1, <1>2, DaysThereAre
<1>4. MarchYear(e) = MarchYear(d)
  BY <1>2 DEF MarchYear
<1> DEFINE Y == YearStart(MarchYear(d))
           M == MonthStart(MarchMonth(d.month))
<1>5. Y \in Int /\ M \in Int
  BY <1>1, YearStartIsInt, MonthStarts DEF MarchYear, MarchMonth
<1>6. ToDays(d) = Y + (M + 1 - 1) /\ ToDays(e) = Y + (M + n - 1)
  BY <1>2, <1>3, <1>4, DayWithinYear
<1> HIDE DEF Y, M
<1>7. ToDays(e) = ToDays(d) + n - 1
  BY <1>5, <1>6
<1> QED
  BY <1>3, <1>7 DEF e

--------------------------------------------------------------------------------
(* The machine.                                                            *)

\* What lies on the grid: a month there is, marks only where a record was
\* loaded for them, and the records of the vault as long as nothing changed it.
GridInv ==
  /\ shown \in Dates
  /\ marked \subseteq MarksOf(loaded, shown)
  /\ ~stale => loaded \in Listings(disk)

CalendarInv == TypeOK /\ GridInv /\ SavedDayIsTurnedTo

LEMMA SelectedIsADay ==
  ASSUME TypeOK, GridInv
  PROVE  Selected \in Dates
<1>1. shown \in Dates /\ shown.day = 1 /\ day \in 1 .. DaysInMonth(shown.year, shown.month)
  BY DEF TypeOK, GridInv
<1> QED
  BY <1>1, DayOfMonth DEF Selected

LEMMA ClampedIsInMonth ==
  ASSUME NEW d \in Dates, NEW n \in Int
  PROVE  /\ Clamped(n, d) \in 1 .. DaysInMonth(d.year, d.month)
         /\ n \in 1 .. DaysInMonth(d.year, d.month) => Clamped(n, d) = n
<1>1. DaysInMonth(d.year, d.month) \in 28 .. 31
  BY DaysThereAre, MonthsAreCounted
<1> QED
  BY <1>1 DEF Clamped

\* The month of a day, turned to.
LEMMA TurnedTo ==
  ASSUME NEW d \in Dates
  PROVE  /\ FirstOf(d) \in Dates /\ FirstOf(d).day = 1 /\ Valid(FirstOf(d))
         /\ d.day \in 1 .. DaysInMonth(FirstOf(d).year, FirstOf(d).month)
         /\ [FirstOf(d) EXCEPT !.day = d.day] = d
<1>1. FirstOf(d) \in Dates /\ FirstOf(d).day = 1
  BY FirstOfMonth
<1>2. d \in [year : Int, month : 1 .. 12, day : 1 .. 31] /\ Valid(d)
  BY DEF Dates
<1>3. FirstOf(d).year = d.year /\ FirstOf(d).month = d.month
  BY <1>2 DEF FirstOf
<1>4. [FirstOf(d) EXCEPT !.day = d.day] = d
  BY <1>2 DEF FirstOf
<1>5. Valid(FirstOf(d))
  BY <1>1 DEF Dates
<1> QED
  BY <1>1, <1>2, <1>3, <1>4, <1>5 DEF Valid

\* A month by its number, as its first day.
LEMMA MonthByNumber ==
  ASSUME NEW m \in Nat
  PROVE  DateOf(m \div 12, (m % 12) + 1, 1) \in Dates
<1> DEFINE d == DateOf(m \div 12, (m % 12) + 1, 1)
<1>1. m \div 12 \in Int /\ (m % 12) + 1 \in 1 .. 12
  OBVIOUS
<1>2. d \in [year : Int, month : 1 .. 12, day : 1 .. 31] /\ d.day = 1
  BY <1>1 DEF DateOf
<1> HIDE DEF d
<1>3. LastOf(d.year, d.month) \in 28 .. 31
  BY <1>2, LastDays
<1>4. d \in Dates
  BY <1>2, <1>3, DaysThereAre
<1> QED
  BY <1>4 DEF d

LEMMA MarksType ==
  ASSUME NEW l \in Seq([id : Ids, date : Days]), NEW d
  PROVE  MarksOf(l, d) \subseteq 1 .. 31
<1>1. \A i \in DOMAIN l : l[i].date \in Days
  <2>1. \A i \in DOMAIN l : l[i] \in [id : Ids, date : Days]
    BY ElementsOfSeq
  <2> QED
    BY <2>1
<1>2. \A i \in DOMAIN l : l[i].date.day \in 1 .. 31
  BY <1>1, CalendarAssumption DEF EnteredDates
<1> QED
  BY <1>2 DEF MarksOf

\* A reload, and the steps after which the grid is as it was.
LEMMA ReloadKeeps ==
  ASSUME TypeOK, GridInv, NEW d \in [Ids -> Days \union {Absent}], Reload(d)
  PROVE  /\ loaded' \in Listings(d) /\ loaded' \in Seq([id : Ids, date : Days])
         /\ shown' = shown /\ day' = day /\ stale' = FALSE
         /\ marked' = MarksOf(loaded', shown') /\ marked' \subseteq 1 .. 31
<1>1. /\ loaded' \in Listings(d) /\ marked' = MarksOf(loaded', shown)
      /\ stale' = FALSE /\ shown' = shown /\ day' = day
  BY DEF Reload
<1>2. loaded' \in Seq([id : Ids, date : Days])
  BY <1>1, ListingsType
<1> QED
  BY <1>1, <1>2, MarksType

\* Of some numbers there is a least one.
LEMMA LeastAmong ==
  ASSUME NEW S \in SUBSET Nat, S # {}
  PROVE  \E x \in S : \A y \in S : ~ (y < x)
<1> DEFINE Less == OpToRel(<, Nat)
<1>1. PICK x \in S : \A y \in S : <<y, x>> \notin Less
  BY NatLessThanWellFounded, WFMin
<1>2. \A y \in S : y < x => <<y, x>> \in Less
  BY DEF OpToRel
<1> HIDE DEF Less
<1> QED
  BY <1>1, <1>2, Zenon

\* The selected record is one of those loaded, and on the selected day.
LEMMA SelectedRecord ==
  ASSUME TypeOK, SelectedId # NoId
  PROVE  \E i \in DOMAIN loaded :
           loaded[i].date = Selected /\ loaded[i].id = SelectedId /\ SelectedId \in Ids
<1> DEFINE F == {i \in DOMAIN loaded : loaded[i].date = Selected}
<1>1. /\ Len(loaded) \in Nat /\ DOMAIN loaded = 1 .. Len(loaded)
      /\ \A i \in DOMAIN loaded : loaded[i] \in [id : Ids, date : Days]
  BY ElementsOfSeq DEF TypeOK
<1>2. SelectedIndex # 0
  BY DEF SelectedId
<1>3. F # {}
  BY <1>2 DEF SelectedIndex
<1>4. PICK x \in F : \A y \in F : ~ (y < x)
  <2>1. F \in SUBSET Nat
    BY <1>1
  <2> HIDE DEF F
  <2> QED
    BY <1>3, <2>1, LeastAmong
<1>5. \A y \in 1 .. x - 1 : y \in DOMAIN loaded
  BY <1>1, <1>4
<1>6. \A y \in 1 .. x - 1 : loaded[y].date # Selected
  BY <1>1, <1>4, <1>5
<1>7. /\ SelectedIndex \in DOMAIN loaded
      /\ loaded[SelectedIndex].date = Selected
  BY <1>4, <1>6 DEF SelectedIndex
<1>8. SelectedId = loaded[SelectedIndex].id
  BY <1>2 DEF SelectedId
<1> QED
  BY <1>1, <1>7, <1>8, Zenon

LEMMA InitInv == Init => CalendarInv
<1> SUFFICES ASSUME Init PROVE CalendarInv
  OBVIOUS
<1>1. Today \in Dates
  BY CalendarAssumption DEF Dates, EnteredDates
<1>2. shown \in Dates /\ Valid(shown) /\ shown.day = 1 /\ day \in 1 .. DaysInMonth(shown.year, shown.month)
  BY <1>1, TurnedTo DEF Init
<1>3. loaded \in Seq([id : Ids, date : Days])
  BY DEF Init
<1>4. TypeOK
  BY <1>2, <1>3 DEF Init, TypeOK
<1> QED
  BY <1>2, <1>4 DEF Init, CalendarInv, GridInv, SavedDayIsTurnedTo

\* An event the grid used: any month there is, and any of its days.
LEMMA HandledKeeps ==
  ASSUME CalendarInv, Handled,
         shown' \in Dates, shown'.day = 1,
         day' \in 1 .. DaysInMonth(shown'.year, shown'.month)
  PROVE  CalendarInv'
<1>1. Valid(shown)'
  BY DEF Dates
<1>2. /\ loaded' = loaded /\ disk' = disk /\ stale' = stale /\ known' = known
      /\ form' = form /\ editing' = editing /\ last' = [op |-> "none", id |-> NoId]
      /\ marked' = MarksOf(loaded, shown')
  BY DEF Handled, Did
<1>3. marked' \subseteq 1 .. 31
  BY <1>2, MarksType DEF CalendarInv, TypeOK
<1>4. TypeOK'
  BY <1>1, <1>2, <1>3 DEF CalendarInv, TypeOK
<1>5. GridInv'
  BY <1>2 DEF CalendarInv, GridInv
<1> QED
  BY <1>2, <1>4, <1>5 DEF CalendarInv, SavedDayIsTurnedTo

\* A step in the form alone.
LEMMA FormKeeps ==
  ASSUME CalendarInv, UNCHANGED <<disk, known, loaded, grid, stale>>, Did("none", NoId),
         form' \in Days \union {Absent}, editing' \in Ids \union {NoId}
  PROVE  CalendarInv'
<1>1. UNCHANGED <<shown, day, marked>> /\ last' = [op |-> "none", id |-> NoId]
  BY DEF grid, Did
<1> QED
  BY <1>1 DEF CalendarInv, TypeOK, GridInv, SavedDayIsTurnedTo

LEMMA StepInv == CalendarInv /\ [Next]_vars => CalendarInv'
<1> SUFFICES ASSUME CalendarInv, [Next]_vars PROVE CalendarInv'
  OBVIOUS
<1>0. /\ TypeOK /\ GridInv /\ shown \in Dates /\ shown.day = 1
      /\ day \in 1 .. DaysInMonth(shown.year, shown.month) /\ day \in Int
  BY DEF CalendarInv, TypeOK, GridInv
<1>1. ASSUME NEW n \in 0 .. 31, Click(n) PROVE CalendarInv'
  <2>1. day' \in 1 .. DaysInMonth(shown.year, shown.month) /\ shown' = shown /\ Handled
    <3>1. /\ n \in 0 .. DaysInMonth(shown.year, shown.month)
          /\ DaysInMonth(shown.year, shown.month) \in 28 .. 31
      BY <1>0, <1>1, DaysThereAre, MonthsAreCounted DEF Click
    <3> QED
      BY <1>0, <1>1, <3>1 DEF Click
  <2> QED
    BY <1>0, <2>1, HandledKeeps
<1>2. ASSUME NEW n \in {-30, -7, -1, 1, 7, 30}, Step(n) PROVE CalendarInv'
  <2>1. day + n \in Int
    BY <1>0
  <2>2. day' \in 1 .. DaysInMonth(shown.year, shown.month) /\ shown' = shown /\ Handled
    BY <1>0, <1>2, <2>1, ClampedIsInMonth DEF Step
  <2> QED
    BY <1>0, <2>2, HandledKeeps
<1>3. ASSUME NEW n \in {-2, -1, 1, 2}, Page(n) PROVE CalendarInv'
  <2>1. n \in Int
    OBVIOUS
  <2>2. AddMonths(Selected, n) \in Dates
    BY <1>0, <2>1, SelectedIsADay, PagingGoesFar
  <2>3. shown' \in Dates /\ shown'.day = 1 /\ day' \in 1 .. DaysInMonth(shown'.year, shown'.month)
    BY <1>3, <2>2, TurnedTo DEF Page
  <2> QED
    BY <1>3, <2>3, HandledKeeps DEF Page
<1>4. ASSUME NEW m \in FirstMonth .. LastMonth, Jump(m) PROVE CalendarInv'
  <2> DEFINE d == DateOf(m \div 12, (m % 12) + 1, 1)
  <2>1. d \in Dates
    <3>1. m \in Nat
      BY CalendarAssumption
    <3> QED
      BY <3>1, MonthByNumber
  <2>2. Turn(d) /\ UNCHANGED <<disk, known, loaded, form, editing, stale>> /\ Did("jump", NoId)
    BY <1>4 DEF Jump
  <2> HIDE DEF d
  <2>3. /\ shown' = FirstOf(d) /\ FirstOf(d) \in Dates /\ FirstOf(d).day = 1 /\ Valid(FirstOf(d))
        /\ day' \in 1 .. DaysInMonth(shown'.year, shown'.month)
    <3>1. d.day \in Int
      BY <2>1, DaysThereAre
    <3> QED
      BY <2>1, <2>2, <3>1, TurnedTo, ClampedIsInMonth DEF Turn
  <2>4. marked' \subseteq MarksOf(loaded', shown') /\ marked' \subseteq 1 .. 31
    BY <1>0, <2>2 DEF Turn, TypeOK, GridInv
  <2>5. last' = [op |-> "jump", id |-> NoId]
    BY <2>2 DEF Did
  <2>6. TypeOK'
    BY <2>4, <2>5, <1>0, <2>2, <2>3 DEF TypeOK
  <2>7. GridInv'
    BY <1>0, <2>2, <2>3, <2>4 DEF GridInv
  <2> QED
    BY <2>5, <2>6, <2>7 DEF CalendarInv, SavedDayIsTurnedTo
<1>5. CASE Refresh
  <2>1. CASE Reload(disk)
    <3>1. disk \in [Ids -> Days \union {Absent}]
      BY <1>0 DEF TypeOK
    <3>2. /\ loaded' \in Listings(disk) /\ loaded' \in Seq([id : Ids, date : Days])
          /\ shown' = shown /\ day' = day /\ stale' = FALSE
          /\ marked' = MarksOf(loaded', shown') /\ marked' \subseteq 1 .. 31
      BY <1>0, <2>1, <3>1, ReloadKeeps
    <3>3. UNCHANGED <<disk, known, form, editing>> /\ last' = [op |-> "none", id |-> NoId]
      BY <1>5 DEF Refresh, Did
    <3> QED
      BY <1>0, <3>2, <3>3 DEF CalendarInv, TypeOK, GridInv, SavedDayIsTurnedTo
  <2>2. CASE ReloadFails
    <3>1. /\ UNCHANGED <<disk, known, form, editing, loaded, shown, day, marked>>
          /\ last' = [op |-> "none", id |-> NoId] /\ stale' = TRUE
      BY <1>5, <2>2 DEF Refresh, Did, ReloadFails, grid
    <3> QED
      BY <1>0, <3>1 DEF CalendarInv, TypeOK, GridInv, SavedDayIsTurnedTo
  <2> QED
    BY <1>5, <2>1, <2>2 DEF Refresh
<1>6. CASE OpenSelected
  <2>1. SelectedId \in Ids
    BY <1>0, <1>6, SelectedRecord DEF OpenSelected
  <2>2. form' \in Days \union {Absent} /\ editing' \in Ids \union {NoId}
    BY <1>0, <1>6, <2>1 DEF OpenSelected, TypeOK
  <2> QED
    BY <1>6, <2>2, FormKeeps DEF OpenSelected
<1>7. CASE New
  BY <1>7, FormKeeps DEF New
<1>8. CASE Cancel
  BY <1>8, FormKeeps DEF Cancel
<1>9. ASSUME NEW d \in Days, Type(d) PROVE CalendarInv'
  BY <1>0, <1>9, FormKeeps DEF Type, TypeOK
<1>10. CASE Save
  <2>1. PICK id \in Ids : SaveAs(id)
    BY <1>10 DEF Save
  <2>2. form \in Days
    BY <1>0, <1>10 DEF Save, TypeOK
  <2>3. /\ disk' = [disk EXCEPT ![id] = form] /\ disk' \in [Ids -> Days \union {Absent}]
        /\ disk'[id] = form /\ known' \subseteq Ids
        /\ form' = Absent /\ editing' = NoId /\ last' = [op |-> "save", id |-> id]
    BY <1>0, <2>1, <2>2 DEF SaveAs, TypeOK, Did
  <2>4. CASE ReloadFails
    <3>1. UNCHANGED <<loaded, shown, day, marked>> /\ stale' = TRUE
      BY <2>4 DEF ReloadFails, grid
    <3> QED
      BY <1>0, <2>3, <3>1 DEF CalendarInv, TypeOK, GridInv, SavedDayIsTurnedTo
  <2>5. CASE loaded' \in Listings(disk') /\ stale' = FALSE /\ TurnTo(id)
    <3>1. loaded' \in Seq([id : Ids, date : Days])
      BY <2>3, <2>5, ListingsType
    <3>2. /\ marked' = MarksOf(loaded', shown')
          /\ IF (\E i \in DOMAIN loaded' : loaded'[i].id = id) /\ Valid(form)
             THEN shown' = FirstOf(form) /\ day' = form.day
             ELSE UNCHANGED <<shown, day>>
      BY <2>3, <2>5 DEF TurnTo
    <3>3. marked' \subseteq 1 .. 31
      BY <3>1, <3>2, MarksType
    <3>4. /\ shown' \in Dates /\ Valid(shown') /\ shown'.day = 1
          /\ day' \in 1 .. DaysInMonth(shown'.year, shown'.month)
          /\ Valid(form) /\ (\E i \in DOMAIN loaded' : loaded'[i].id = id)
               => [shown' EXCEPT !.day = day'] = form
      <4>1. CASE Valid(form) /\ \E i \in DOMAIN loaded' : loaded'[i].id = id
        <5>1. form \in Dates
          BY <2>2, <4>1, CalendarAssumption DEF Dates, EnteredDates
        <5> QED
          BY <3>2, <4>1, <5>1, TurnedTo
      <4>2. CASE ~ (Valid(form) /\ \E i \in DOMAIN loaded' : loaded'[i].id = id)
        BY <1>0, <3>2, <4>2 DEF TypeOK
      <4> QED
        BY <4>1, <4>2
    <3>5. TypeOK'
      BY <1>0, <2>3, <2>5, <3>1, <3>3, <3>4 DEF TypeOK
    <3>6. GridInv'
      BY <2>5, <3>2, <3>4 DEF GridInv
    <3>7. SavedDayIsTurnedTo'
      BY <2>3, <3>4 DEF SavedDayIsTurnedTo, Selected
    <3> QED
      BY <3>5, <3>6, <3>7 DEF CalendarInv
  <2> QED
    BY <2>1, <2>4, <2>5 DEF SaveAs
<1>11. CASE DeleteSelected
  <2>1. SelectedId \in Ids
    BY <1>0, <1>11, SelectedRecord DEF DeleteSelected
  <2>2. /\ disk' = [disk EXCEPT ![SelectedId] = Absent]
        /\ UNCHANGED <<known, form, editing>> /\ last' = [op |-> "delete", id |-> SelectedId]
    BY <1>11 DEF DeleteSelected, Did
  <2>3. disk' \in [Ids -> Days \union {Absent}]
    BY <1>0, <2>1, <2>2 DEF TypeOK
  <2>4. CASE Reload(disk')
    <3>1. /\ loaded' \in Listings(disk') /\ loaded' \in Seq([id : Ids, date : Days])
          /\ shown' = shown /\ day' = day /\ stale' = FALSE
          /\ marked' = MarksOf(loaded', shown') /\ marked' \subseteq 1 .. 31
      BY <1>0, <2>3, <2>4, ReloadKeeps
    <3> QED
      BY <1>0, <2>1, <2>2, <2>3, <3>1 DEF CalendarInv, TypeOK, GridInv, SavedDayIsTurnedTo
  <2>5. CASE ReloadFails
    <3>1. UNCHANGED <<loaded, shown, day, marked>> /\ stale' = TRUE
      BY <2>5 DEF ReloadFails, grid
    <3> QED
      BY <1>0, <2>1, <2>2, <2>3, <3>1 DEF CalendarInv, TypeOK, GridInv, SavedDayIsTurnedTo
  <2> QED
    BY <1>11, <2>4, <2>5 DEF DeleteSelected
<1>12. ASSUME NEW id \in Ids, NEW d \in Days \union {Absent}, Outside(id, d) PROVE CalendarInv'
  <2>1. /\ disk' = [disk EXCEPT ![id] = d] /\ known' = known \union {id} /\ stale' = TRUE
        /\ UNCHANGED <<loaded, shown, day, marked, form, editing>>
        /\ last' = [op |-> "none", id |-> NoId]
    BY <1>12 DEF Outside, Did, grid
  <2>2. disk' \in [Ids -> Days \union {Absent}]
    BY <1>0, <2>1 DEF TypeOK
  <2> QED
    BY <1>0, <2>1, <2>2 DEF CalendarInv, TypeOK, GridInv, SavedDayIsTurnedTo
<1>13. CASE UNCHANGED vars
  BY <1>13 DEF vars, CalendarInv, TypeOK, GridInv, SavedDayIsTurnedTo, Selected
<1> QED
  BY <1>1, <1>2, <1>3, <1>4, <1>5, <1>6, <1>7, <1>8, <1>9, <1>10, <1>11, <1>12, <1>13 DEF Next

THEOREM CalendarInvariant == Spec => []CalendarInv
BY InitInv, StepInv, PTL DEF Spec

\* Whatever the records and the months are, the state is a month there is and a
\* day of it, and the loaded records are dates a form lets pass.
THEOREM CalendarTypes == Spec => []TypeOK
<1>1. CalendarInv => TypeOK
  BY DEF CalendarInv
<1> QED
  BY <1>1, CalendarInvariant, PTL

\* The record just saved is on the day that is turned to, wherever the grid was,
\* if its date exists and it could be read back.
THEOREM SavedDaysAreTurnedTo == Spec => []SavedDayIsTurnedTo
<1>1. CalendarInv => SavedDayIsTurnedTo
  BY DEF CalendarInv
<1> QED
  BY <1>1, CalendarInvariant, PTL

\* A mark stands under a day only if a record was loaded for it; and once every
\* loaded record has its mark, each step but the jump to a month keeps it so.
THEOREM MarksFollow == Spec => MarksFollowRecords
<1> DEFINE Follows == /\ marked' \subseteq MarksOf(loaded', shown')
                      /\ marked = MarksOf(loaded, shown) /\ last'.op # "jump" =>
                           marked' = MarksOf(loaded', shown')
<1>1. CalendarInv /\ CalendarInv' /\ [Next]_vars => [Follows]_vars
  <2> SUFFICES ASSUME CalendarInv, CalendarInv', Next PROVE Follows
    BY DEF vars
  <2>1. marked' \subseteq MarksOf(loaded', shown')
    BY DEF CalendarInv, GridInv
  <2> SUFFICES ASSUME marked = MarksOf(loaded, shown), last'.op # "jump"
               PROVE  marked' = MarksOf(loaded', shown')
    BY <2>1
  <2>2. ASSUME Handled PROVE marked' = MarksOf(loaded', shown')
    BY <2>2 DEF Handled
  <2>3. ASSUME UNCHANGED <<loaded, grid>> PROVE marked' = MarksOf(loaded', shown')
    BY <2>3 DEF grid
  <2>4. ASSUME NEW d, Reload(d) PROVE marked' = MarksOf(loaded', shown')
    BY <2>4 DEF Reload
  <2>5. ASSUME ReloadFails PROVE marked' = MarksOf(loaded', shown')
    BY <2>3, <2>5 DEF ReloadFails
  <2>6. ASSUME NEW n \in 0 .. 31, Click(n) PROVE marked' = MarksOf(loaded', shown')
    BY <2>2, <2>6 DEF Click
  <2>7. ASSUME NEW n \in {-30, -7, -1, 1, 7, 30}, Step(n) PROVE marked' = MarksOf(loaded', shown')
    BY <2>2, <2>7 DEF Step
  <2>8. ASSUME NEW n \in {-2, -1, 1, 2}, Page(n) PROVE marked' = MarksOf(loaded', shown')
    BY <2>2, <2>8 DEF Page
  <2>9. ASSUME NEW m \in FirstMonth .. LastMonth, Jump(m) PROVE FALSE
    BY <2>9 DEF Jump, Did
  <2>10. CASE Refresh \/ DeleteSelected
    BY <2>4, <2>5, <2>10 DEF Refresh, DeleteSelected
  <2>11. CASE OpenSelected \/ New \/ Cancel
    BY <2>3, <2>11 DEF OpenSelected, New, Cancel
  <2>12. CASE Save
    BY <2>5, <2>12 DEF Save, SaveAs, TurnTo
  <2>13. ASSUME NEW d \in Days, Type(d) PROVE marked' = MarksOf(loaded', shown')
    BY <2>3, <2>13 DEF Type
  <2>14. ASSUME NEW id \in Ids, NEW d \in Days \union {Absent}, Outside(id, d)
         PROVE  marked' = MarksOf(loaded', shown')
    BY <2>3, <2>14 DEF Outside
  <2> QED
    BY <2>6, <2>7, <2>8, <2>9, <2>10, <2>11, <2>12, <2>13, <2>14 DEF Next
<1> QED
  BY <1>1, CalendarInvariant, PTL DEF Spec, MarksFollowRecords

\* A deletion hits a record of the selected day and no other, and leaves the
\* month and the day where they are.
THEOREM DeletionStays == Spec => DeletionStaysOnItsDay
<1> DEFINE Stays == last'.op = "delete" /\ ~stale
                      => /\ disk[last'.id] = Selected
                         /\ \A id \in Ids : disk'[id] # disk[id] => id = last'.id
                         /\ UNCHANGED <<shown, day>>
<1>1. CalendarInv /\ [Next]_vars => [Stays]_vars
  <2> SUFFICES ASSUME CalendarInv, Next, last'.op = "delete", ~stale
               PROVE  /\ disk[last'.id] = Selected
                      /\ \A id \in Ids : disk'[id] # disk[id] => id = last'.id
                      /\ UNCHANGED <<shown, day>>
    BY DEF vars
  <2>1. DeleteSelected
    <3>1. ~ Did("none", NoId) /\ ~ Did("jump", NoId) /\ \A id \in Ids : ~ Did("save", id)
      BY DEF Did
    <3>2. ~ (\E n \in 0 .. 31 : Click(n)) /\ ~ (\E n \in {-30, -7, -1, 1, 7, 30} : Step(n))
      BY <3>1 DEF Click, Step, Handled
    <3>3. ~ (\E n \in {-2, -1, 1, 2} : Page(n)) /\ ~ (\E m \in FirstMonth .. LastMonth : Jump(m))
      BY <3>1 DEF Page, Jump, Handled
    <3>4. ~ Refresh /\ ~ OpenSelected /\ ~ New /\ ~ Cancel
      BY <3>1 DEF Refresh, OpenSelected, New, Cancel
    <3>5. ~ Save
      BY <3>1 DEF Save, SaveAs
    <3>6. /\ ~ (\E d \in Days : Type(d))
          /\ ~ (\E id \in Ids, d \in Days \union {Absent} : Outside(id, d))
      BY <3>1 DEF Type, Outside
    <3> QED
      BY <3>2, <3>3, <3>4, <3>5, <3>6 DEF Next
  <2>2. last'.id = SelectedId /\ disk' = [disk EXCEPT ![SelectedId] = Absent]
    BY <2>1 DEF DeleteSelected, Did
  <2>3. UNCHANGED <<shown, day>>
    BY <2>1 DEF DeleteSelected, Reload, ReloadFails, grid
  <2>4. PICK i \in DOMAIN loaded : loaded[i].date = Selected /\ loaded[i].id = SelectedId /\ SelectedId \in Ids
    BY <2>1, SelectedRecord DEF CalendarInv, DeleteSelected
  <2>5. disk[SelectedId] = Selected
    <3>1. loaded \in Listings(disk) /\ disk \in [Ids -> Days \union {Absent}]
      BY DEF CalendarInv, GridInv, TypeOK
    <3>2. disk[loaded[i].id] = loaded[i].date
      BY <3>1, ListingsType
    <3> QED
      BY <2>4, <3>2
  <2>6. \A id \in Ids : disk'[id] # disk[id] => id = SelectedId
    BY <2>2 DEF CalendarInv, TypeOK
  <2> QED
    BY <2>2, <2>3, <2>5, <2>6
<1> QED
  BY <1>1, CalendarInvariant, PTL DEF Spec, DeletionStaysOnItsDay

--------------------------------------------------------------------------------
(* The cells.                                                              *)

LEMMA OffsetOfFirst ==
  ASSUME TypeOK, GridInv
  PROVE  Offset \in 0 .. 6 /\ Offset = (Weekday(shown) - WeekStart) % 7
<1>1. ToDays(shown) \in Int
  BY DayWithinYear DEF GridInv
<1>2. Weekday(shown) \in 0 .. 6 /\ WeekStart \in 0 .. 6
  BY <1>1, WeekdayCounts, CalendarAssumption
<1> QED
  BY <1>2 DEF Offset

LEMMA CellsDiffer ==
  ASSUME NEW c \in Int, NEW r \in Int, NEW p \in Int, NEW q \in Int,
         0 <= c, c <= 6, 0 <= p, p <= 6
  PROVE  r * 7 + c = q * 7 + p <=> c = p /\ r = q
OBVIOUS

LEMMA WholeWeeks ==
  ASSUME NEW k \in Int, NEW z \in Int
  PROVE  (7 * k + z) % 7 = z % 7
OBVIOUS

LEMMA ColumnOfDay ==
  ASSUME NEW t \in Int, NEW s \in Int, NEW x \in Int, NEW y \in Int,
         NEW w \in Int, NEW off \in Int, w = t % 7, off = (w - s) % 7
  PROVE  (t + y * 7 + x - off) % 7 = (s + x) % 7
<1>1. PICK a \in Int : t = 7 * a + w
  OBVIOUS
<1>2. PICK b \in Int : w - s = 7 * b + off
  OBVIOUS
<1>3. t + y * 7 + x - off = 7 * (a + b + y) + (s + x)
  BY <1>1, <1>2
<1>4. a + b + y \in Int /\ s + x \in Int
  OBVIOUS
<1>5. (7 * (a + b + y) + (s + x)) % 7 = (s + x) % 7
  BY <1>4, WholeWeeks
<1> QED
  BY <1>3, <1>5

\* One cell of the grid holds day n: that which lies n - 1 after the first's.
LEMMA OneCell ==
  ASSUME NEW off \in 0 .. 6, NEW len \in 28 .. 31, NEW n \in 1 .. len
  PROVE  \E c \in Columns \X Rows :
           \A b \in Columns \X Rows :
             (b[2] * 7 + b[1] - off \in 0 .. len - 1 /\ b[2] * 7 + b[1] - off + 1 = n) <=> b = c
<1> DEFINE k == n - 1 + off
           col == k % 7
           row == k \div 7
<1>1. k \in Int /\ 0 <= k /\ k < 42
  OBVIOUS
<1>2. col \in 0 .. 6 /\ row \in 0 .. 5 /\ row * 7 + col = k
  <2> HIDE DEF k
  <2> QED
    BY <1>1
<1> HIDE DEF col, row
<1>3. ASSUME NEW b \in Columns \X Rows
      PROVE  (b[2] * 7 + b[1] - off \in 0 .. len - 1 /\ b[2] * 7 + b[1] - off + 1 = n)
               <=> b = <<col, row>>
  <2>1. b[1] \in 0 .. 6 /\ b[2] \in 0 .. 5 /\ b = <<b[1], b[2]>>
    BY DEF Columns, Rows
  <2> DEFINE p == b[1]
             r == b[2]
  <2>2. p \in Int /\ r \in Int /\ 0 <= p /\ p <= 6
    BY <2>1
  <2> HIDE DEF p, r
  <2>3. (r * 7 + p - off \in 0 .. len - 1 /\ r * 7 + p - off + 1 = n) <=> r * 7 + p = k
    BY <2>2
  <2>4. r * 7 + p = row * 7 + col <=> p = col /\ r = row
    BY <1>2, <2>2, CellsDiffer
  <2>5. b = <<col, row>> <=> p = col /\ r = row
    BY <2>1 DEF p, r
  <2> QED
    BY <2>4, <2>5, <1>2, <2>3 DEF p, r
<1>4. <<col, row>> \in Columns \X Rows
  BY <1>2 DEF Columns, Rows
<1> QED
  BY <1>3, <1>4

\* Every day of the shown month has exactly one cell of the six weeks, in the
\* column under its weekday's name, for every month there is and whatever day the
\* week begins with.
THEOREM CellsOfDays == Spec => []EveryDayHasItsCell
<1>1. CalendarInv => EveryDayHasItsCell
  <2> SUFFICES ASSUME TypeOK, GridInv PROVE EveryDayHasItsCell
    BY DEF CalendarInv
  <2> DEFINE off == Offset
             len == DaysInMonth(shown.year, shown.month)
             at == [c \in Columns \X Rows |-> DayAtCell(off, c[1], c[2])]
  <2>1. shown \in Dates /\ shown.day = 1 /\ len \in 28 .. 31
    <3>1. shown \in Dates /\ shown.day = 1
      BY DEF TypeOK, GridInv
    <3>2. shown.year \in Int /\ shown.month \in 1 .. 12
      BY <3>1, DaysThereAre
    <3> QED
      BY <3>1, <3>2, MonthsAreCounted
  <2>2. off \in 0 .. 6 /\ off = (Weekday(shown) - WeekStart) % 7
    BY OffsetOfFirst
  <2>3. /\ ToDays(shown) \in Int /\ Weekday(shown) = (ToDays(shown) + 2) % 7
        /\ Weekday(shown) \in 0 .. 6 /\ WeekStart \in 0 .. 6
    BY <2>1, DayWithinYear, WeekdayCounts, CalendarAssumption
  <2>4. \A c \in Columns \X Rows :
          at[c] = IF c[2] * 7 + c[1] - off \in 0 .. len - 1 THEN c[2] * 7 + c[1] - off + 1 ELSE 0
    BY DEF DayAtCell
  <2>5. DOMAIN at = Columns \X Rows
    OBVIOUS
  <2> HIDE DEF off, len, at
  <2>6. ASSUME NEW n \in 1 .. len
        PROVE  Cardinality({c \in DOMAIN at : at[c] = n}) = 1
    <3> DEFINE cells == {c \in DOMAIN at : at[c] = n}
    <3>1. PICK p \in Columns \X Rows :
            \A b \in Columns \X Rows :
             (b[2] * 7 + b[1] - off \in 0 .. len - 1 /\ b[2] * 7 + b[1] - off + 1 = n) <=> b = p
      BY <2>1, <2>2, OneCell
    <3>2. \A b \in Columns \X Rows : at[b] = n <=> b = p
      BY <2>1, <2>4, <3>1
    <3>3. cells = {p}
      BY <2>5, <3>2
    <3> HIDE DEF cells
    <3>4. Cardinality(cells) = 1
      BY <3>3, FS_Singleton, Zenon
    <3> QED
      BY ONLY <3>4, Zenon DEF cells
  <2>7. ASSUME NEW c \in DOMAIN at, at[c] # 0
        PROVE  (WeekStart + c[1]) % 7 = Weekday([shown EXCEPT !.day = at[c]])
    <3> DEFINE n == at[c]
               e == [shown EXCEPT !.day = n]
               t == ToDays(shown)
               x == c[1]
               y == c[2]
    <3>1. x \in Int /\ y \in Int
      BY <2>5 DEF Columns, Rows
    <3>2. y * 7 + x - off \in 0 .. len - 1 /\ n = y * 7 + x - off + 1
      BY <2>4, <2>5, <2>7
    <3> HIDE DEF n, x, y
    <3>3. n \in 1 .. len
      BY <2>1, <2>2, <3>1, <3>2
    <3>4. ToDays(e) = t + n - 1
      BY <2>1, <3>3, DayOfMonth DEF len
    <3> HIDE DEF e, t
    <3>5. t \in Int /\ Weekday(shown) = (t + 2) % 7
      BY <2>3 DEF t
    <3>6. ToDays(e) \in Int /\ ToDays(e) + 2 = (t + 2) + y * 7 + x - off
      BY <2>1, <2>2, <3>1, <3>2, <3>3, <3>4, <3>5
    <3>7. Weekday(e) = (ToDays(e) + 2) % 7
      BY <3>6, WeekdayCounts
    <3>8. ((t + 2) + y * 7 + x - off) % 7 = (WeekStart + x) % 7
      <4>1. t + 2 \in Int /\ WeekStart \in Int /\ Weekday(shown) \in Int /\ off \in Int
        BY <2>2, <2>3, <3>5
      <4> QED
        BY <2>2, <3>1, <3>5, <4>1, ColumnOfDay
    <3> QED
      BY <3>6, <3>7, <3>8 DEF n, e, x
  <2> QED
    BY <2>6, <2>7 DEF EveryDayHasItsCell, off, len, at
<1> QED
  BY <1>1, CalendarInvariant, PTL
================================================================================
