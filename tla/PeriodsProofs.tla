----------------------------- MODULE PeriodsProofs -----------------------------
(* Years, quarters, months and weeks partition the days of the calendar: for   *)
(* every day, not those of an instance only.                                   *)
EXTENDS Periods, TLAPS

\* A year is counted in cycles of 400, 100, 4 and 1 years.
LEMMA CountedYears ==
  ASSUME NEW a \in Nat, NEW b \in 0..3, NEW c \in 0..24, NEW e \in 0..3
  PROVE  LET y == 400 * a + 100 * b + 4 * c + e
         IN  /\ y \div 4 = 100 * a + 25 * b + c
             /\ y \div 100 = 4 * a + b
             /\ y \div 400 = a
OBVIOUS

\* The year after so many whole cycles, and their days.
YearAfter(a, b, c, e) == 400 * a + 100 * b + 4 * c + e + 1
DaysIn(a, b, c, e) == 146097 * a + 36524 * b + 1461 * c + 365 * e

\* The days before a year are those of its whole cycles.
LEMMA DaysBeforeCounted ==
  ASSUME NEW a \in Nat, NEW b \in 0..3, NEW c \in 0..24, NEW e \in 0..3
  PROVE  DaysBefore(YearAfter(a, b, c, e)) = DaysIn(a, b, c, e)
<1> DEFINE y == 400 * a + 100 * b + 4 * c + e
<1>1. y \in Nat /\ (y + 1) - 1 = y OBVIOUS
<1>2. DaysBefore(y + 1) = 365 * y + (y \div 4) - (y \div 100) + (y \div 400)
  BY <1>1 DEF DaysBefore
<1>3. /\ y \div 4 = 100 * a + 25 * b + c
      /\ y \div 100 = 4 * a + b
      /\ y \div 400 = a
  BY CountedYears
<1> QED BY <1>1, <1>2, <1>3 DEF YearAfter, DaysIn

\* A year has 365 days or, a leap year, 366.
LEMMA YearsGrow ==
  ASSUME NEW y \in Int, y >= 0
  PROVE  /\ DaysBefore(y) \in Int
         /\ DaysBefore(y + 1) = DaysBefore(y) + (IF Leap(y) THEN 366 ELSE 365)
<1>1. /\ DaysBefore(y) \in Int /\ DaysBefore(y + 1) \in Int
      /\ DaysBefore(y + 1) >= DaysBefore(y) + 365
      /\ DaysBefore(y + 1) <= DaysBefore(y) + 366
      /\ Leap(y) <=> DaysBefore(y + 1) = DaysBefore(y) + 366
  BY DEF DaysBefore, Leap
<1> QED BY <1>1

\* Counting cycles off a day finds the year it lies in (datetime.date.fromordinal).
LEMMA YearOfCorrect ==
  ASSUME NEW d \in Int, d >= 1
  PROVE /\ YearOf(d) \in Int /\ YearOf(d) >= 1
        /\ DaysBefore(YearOf(d)) < d /\ d <= DaysBefore(YearOf(d) + 1)
<1>1. PICK a \in Int : a = (d - 1) \div 146097
  OBVIOUS
<1>2. PICK r \in Int : r = (d - 1) % 146097
  OBVIOUS
<1>3. PICK b \in Int : b = r \div 36524
  OBVIOUS
<1>4. PICK s \in Int : s = r % 36524
  OBVIOUS
<1>5. PICK c \in Int : c = s \div 1461
  OBVIOUS
<1>6. PICK t \in Int : t = s % 1461
  OBVIOUS
<1>7. PICK e \in Int : e = t \div 365
  OBVIOUS
<1>8. PICK y \in Int : y = YearOf(d)
  BY <1>1, <1>2, <1>3, <1>4, <1>5, <1>6, <1>7 DEF YearOf
<1>9. y = 400 * a + 100 * b + 4 * c + e + (IF b = 4 \/ e = 4 THEN 0 ELSE 1)
  BY <1>1, <1>2, <1>3, <1>4, <1>5, <1>6, <1>7, <1>8 DEF YearOf
<1>10. a >= 0 /\ 0 <= r /\ r <= 146096 /\ d - 1 = 146097 * a + r
  BY <1>1, <1>2
<1>11. 0 <= b /\ b <= 4 /\ 0 <= s /\ s <= 36523 /\ r = 36524 * b + s
  BY <1>3, <1>4, <1>10
<1>12. 0 <= c /\ c <= 24 /\ 0 <= t /\ t <= 1460 /\ s = 1461 * c + t
  BY <1>5, <1>6, <1>11
<1>13. 0 <= e /\ e <= 4 /\ t >= 365 * e /\ t <= 365 * e + 364
  BY <1>7, <1>12
<1>14. /\ b = 4 => c = 0 /\ e = 0 /\ t = 0
       /\ e = 4 => t = 1460 /\ c <= 23
  BY <1>10, <1>11, <1>12, <1>13
<1>15. CASE b # 4 /\ e # 4
  <2>1. a \in Nat /\ b \in 0..3 /\ c \in 0..24 /\ e \in 0..3
    BY <1>15, <1>10, <1>11, <1>12, <1>13
  <2>2. y = 400 * a + 100 * b + 4 * c + e + 1
    BY <1>9, <1>15
  <2>3. DaysBefore(y) = DaysIn(a, b, c, e)
    <3>1. y = YearAfter(a, b, c, e)
      BY <2>2 DEF YearAfter
    <3> QED BY <2>1, <3>1, DaysBeforeCounted
  <2>4. y >= 1
    BY <2>1, <2>2
  <2>5. DaysBefore(y + 1) >= DaysBefore(y) + 365
    BY <2>4, YearsGrow
  <2> QED BY <1>8, <1>10, <1>11, <1>12, <1>13, <2>3, <2>4, <2>5 DEF DaysBefore, DaysIn
<1>16. CASE b # 4 /\ e = 4
  <2>1. a \in Nat /\ b \in 0..3 /\ c \in 0..24 /\ 3 \in 0..3
    BY <1>16, <1>10, <1>11, <1>12
  <2>2. y = 400 * a + 100 * b + 4 * c + 3 + 1
    BY <1>9, <1>16
  <2>3. DaysBefore(y) = DaysIn(a, b, c, 3)
    <3>1. y = YearAfter(a, b, c, 3)
      BY <2>2 DEF YearAfter
    <3> QED BY <2>1, <3>1, DaysBeforeCounted
  <2>4. y >= 1 /\ Leap(y)
    BY <2>1, <2>2, <1>14, <1>16 DEF Leap
  <2>5. DaysBefore(y + 1) = DaysBefore(y) + 366
    BY <2>4, YearsGrow
  <2> QED BY <1>8, <1>10, <1>11, <1>12, <1>13, <1>14, <1>16, <2>3, <2>4, <2>5 DEF DaysIn
<1>17. CASE b = 4
  <2>1. a \in Nat /\ 24 \in 0..24 /\ 3 \in 0..3
    BY <1>10
  <2>2. y = 400 * a + 100 * 3 + 4 * 24 + 3 + 1
    BY <1>9, <1>14, <1>17
  <2>3. DaysBefore(y) = DaysIn(a, 3, 24, 3)
    <3>1. y = YearAfter(a, 3, 24, 3)
      BY <2>2 DEF YearAfter
    <3> QED BY <2>1, <3>1, DaysBeforeCounted
  <2>4. y >= 1 /\ Leap(y)
    BY <2>1, <2>2 DEF Leap
  <2>5. DaysBefore(y + 1) = DaysBefore(y) + 366
    BY <2>4, YearsGrow
  <2> QED BY <1>8, <1>10, <1>11, <1>12, <1>14, <1>17, <2>3, <2>4, <2>5 DEF DaysIn
<1> QED BY <1>15, <1>16, <1>17

\* Later years begin later.
LEMMA YearsAreOrdered ==
  ASSUME NEW x \in Int, NEW y \in Int, 0 <= x, x <= y
  PROVE  DaysBefore(x) <= DaysBefore(y)
BY DEF DaysBefore

\* No year begins before the first day.
LEMMA YearsAreNatural ==
  ASSUME NEW y \in Int, y >= 1
  PROVE  DaysBefore(y) \in Nat
<1>1. DaysBefore(1) = 0
  BY DEF DaysBefore
<1>2. DaysBefore(1) <= DaysBefore(y)
  BY YearsAreOrdered
<1> QED BY <1>1, <1>2, YearsGrow

\* A day lies in no other year.
LEMMA YearOfUnique ==
  ASSUME NEW d \in Int, d >= 1, NEW y \in Int, y >= 1,
         DaysBefore(y) < d, d <= DaysBefore(y + 1)
  PROVE  YearOf(d) = y
<1>1. PICK z \in Int : z = YearOf(d) /\ z >= 1 /\ DaysBefore(z) < d /\ d <= DaysBefore(z + 1)
  BY YearOfCorrect
<1>2. ~ (z + 1 <= y)
  <2>1. SUFFICES ASSUME z + 1 <= y PROVE FALSE
    OBVIOUS
  <2>2. DaysBefore(z + 1) <= DaysBefore(y)
    BY <1>1, <2>1, YearsAreOrdered
  <2> QED BY <1>1, <2>2 DEF DaysBefore
<1>3. ~ (y + 1 <= z)
  <2>1. SUFFICES ASSUME y + 1 <= z PROVE FALSE
    OBVIOUS
  <2>2. DaysBefore(y + 1) <= DaysBefore(z)
    BY <1>1, <2>1, YearsAreOrdered
  <2> QED BY <1>1, <2>2 DEF DaysBefore
<1> QED BY <1>1, <1>2, <1>3

\* A month of 28 to 31 days ends where the next one begins.
LEMMA MonthsFollow ==
  ASSUME NEW y \in Int, y >= 1, NEW m \in 1..12
  PROVE  /\ NextMonth(y, m) = DayOf(y, m, 1) + DaysInMonth(y, m)
         /\ DayOf(y, m, 1) \in Int
         /\ DaysInMonth(y, m) \in 28..31
<1>1. m = 1 \/ m = 2 \/ m = 3 \/ m = 4 \/ m = 5 \/ m = 6 \/ m = 7 \/ m = 8 \/ m = 9
        \/ m = 10 \/ m = 11 \/ m = 12
  OBVIOUS
<1>2. PICK b \in Int : b = DaysBefore(y) 
  BY DEF DaysBefore
<1>3. PICK c \in Int : c = DaysBefore(y + 1) 
  BY DEF DaysBefore
<1>4. c = b + (IF Leap(y) THEN 366 ELSE 365)
  BY <1>2, <1>3, YearsGrow
<1>5. Leap(y) \in BOOLEAN
  BY DEF Leap
<1>6. 1 \in Int /\ \A z \in Int : DayOf(z, 1, 1) = DaysBefore(z) + 1
  BY DEF DayOf, DaysBeforeMonth, DaysBefore
<1> QED BY <1>1, <1>2, <1>3, <1>4, <1>5, <1>6 DEF NextMonth, DayOf, DaysInMonth, DaysBeforeMonth

\* First days of months are numbers, in order.
LEMMA MonthsAreNumbers ==
  ASSUME NEW y \in Int, y >= 1
  PROVE  \A m \in 1..12 : /\ DayOf(y, m, 1) \in Int /\ NextMonth(y, m) \in Int
                           /\ DayOf(y, m, 1) <= NextMonth(y, m)
<1>1. \A m \in 1..12 : /\ NextMonth(y, m) = DayOf(y, m, 1) + DaysInMonth(y, m)
                       /\ DayOf(y, m, 1) \in Int
                       /\ DaysInMonth(y, m) \in 28..31
  BY MonthsFollow
<1> QED BY <1>1

\* The table of days before a month adds up.
LEMMA MonthTable ==
  ASSUME NEW y \in Int
  PROVE  /\ DaysBeforeMonth(y, 1) = 0 /\ DaysInMonth(y, 1) = 31
         /\ DaysBeforeMonth(y, 2) = 31 /\ DaysInMonth(y, 2) = 28 + (IF Leap(y) THEN 1 ELSE 0)
         /\ DaysBeforeMonth(y, 3) = 59 + (IF Leap(y) THEN 1 ELSE 0) /\ DaysInMonth(y, 3) = 31
         /\ DaysBeforeMonth(y, 4) = 90 + (IF Leap(y) THEN 1 ELSE 0) /\ DaysInMonth(y, 4) = 30
         /\ DaysBeforeMonth(y, 5) = 120 + (IF Leap(y) THEN 1 ELSE 0) /\ DaysInMonth(y, 5) = 31
         /\ DaysBeforeMonth(y, 6) = 151 + (IF Leap(y) THEN 1 ELSE 0) /\ DaysInMonth(y, 6) = 30
         /\ DaysBeforeMonth(y, 7) = 181 + (IF Leap(y) THEN 1 ELSE 0) /\ DaysInMonth(y, 7) = 31
         /\ DaysBeforeMonth(y, 8) = 212 + (IF Leap(y) THEN 1 ELSE 0) /\ DaysInMonth(y, 8) = 31
         /\ DaysBeforeMonth(y, 9) = 243 + (IF Leap(y) THEN 1 ELSE 0) /\ DaysInMonth(y, 9) = 30
         /\ DaysBeforeMonth(y, 10) = 273 + (IF Leap(y) THEN 1 ELSE 0) /\ DaysInMonth(y, 10) = 31
         /\ DaysBeforeMonth(y, 11) = 304 + (IF Leap(y) THEN 1 ELSE 0) /\ DaysInMonth(y, 11) = 30
         /\ DaysBeforeMonth(y, 12) = 334 + (IF Leap(y) THEN 1 ELSE 0) /\ DaysInMonth(y, 12) = 31
BY DEF DaysBeforeMonth, DaysInMonth

\* Later months of a year begin later.
LEMMA MonthsAreOrdered ==
  ASSUME NEW y \in Int, NEW m \in 1..12, NEW k \in 1..12, m < k
  PROVE  DaysBeforeMonth(y, m) + DaysInMonth(y, m) <= DaysBeforeMonth(y, k)
<1>1. /\ m \in {1, 2, 3, 4, 5, 6, 7, 8, 9, 10, 11, 12}
      /\ k \in {1, 2, 3, 4, 5, 6, 7, 8, 9, 10, 11, 12}
  OBVIOUS
<1>2. (Leap(y) \/ ~Leap(y)) /\ m + 1 <= k
  OBVIOUS
<1> QED BY <1>1, <1>2, MonthTable

\* A day lies between the first day of its month and of the next one.
LEMMA MonthOfCorrect ==
  ASSUME NEW d \in Int, d >= 1
  PROVE  /\ MonthOf(d) \in 1..12
         /\ DayOf(YearOf(d), MonthOf(d), 1) <= d
         /\ d < NextMonth(YearOf(d), MonthOf(d))
<1>1. PICK y \in Int : y = YearOf(d) /\ y >= 1 /\ DaysBefore(y) < d /\ d <= DaysBefore(y + 1)
  BY YearOfCorrect
<1>2. PICK n \in Int : n = DayOfYear(d)
  BY <1>1 DEF DayOfYear, DaysBefore
<1>3. 1 <= n /\ n <= 365 + (IF Leap(y) THEN 1 ELSE 0)
  <2>1. DaysBefore(y) \in Int /\ DaysBefore(y + 1) = DaysBefore(y) + (IF Leap(y) THEN 366 ELSE 365)
    BY <1>1, YearsGrow
  <2>2. n = d - DaysBefore(y)
    BY <1>1, <1>2 DEF DayOfYear
  <2> QED BY <1>1, <2>1, <2>2
<1>4. \E m \in 1..12 : DaysBeforeMonth(y, m) < n /\ n <= DaysBeforeMonth(y, m) + DaysInMonth(y, m)
  <2> QED BY <1>3, MonthTable
<1>5. PICK m \in 1..12 : m = MonthOf(d) /\ DaysBeforeMonth(y, m) < n /\ n <= DaysBeforeMonth(y, m) + DaysInMonth(y, m)
  BY <1>1, <1>2, <1>4 DEF MonthOf
<1>6. DaysBeforeMonth(y, m) \in Int /\ DaysInMonth(y, m) \in Int
  BY DEF DaysBeforeMonth, DaysInMonth
<1>7. DayOf(y, m, 1) = DaysBefore(y) + DaysBeforeMonth(y, m) + 1 /\ d = DaysBefore(y) + n
  BY <1>1, <1>2 DEF DayOf, DayOfYear, DaysBefore
<1>8. NextMonth(y, m) = DayOf(y, m, 1) + DaysInMonth(y, m)
  BY <1>1, MonthsFollow
<1>9. DaysBefore(y) \in Int
  BY DEF DaysBefore
<1> QED BY <1>1, <1>5, <1>6, <1>7, <1>8, <1>9

\* A day lies in no other month.
LEMMA MonthOfUnique ==
  ASSUME NEW d \in Int, d >= 1, NEW y \in Int, y >= 1, NEW m \in 1..12,
         DayOf(y, m, 1) <= d, d < NextMonth(y, m)
  PROVE  YearOf(d) = y /\ MonthOf(d) = m
<1>1. PICK b \in Int : b = DaysBefore(y)
  BY DEF DaysBefore
<1>2. DaysBefore(y + 1) = b + (IF Leap(y) THEN 366 ELSE 365)
  BY <1>1, YearsGrow
<1>3. PICK f \in Int, g \in Int : f = DaysBeforeMonth(y, m) /\ g = DaysInMonth(y, m)
  BY DEF DaysBeforeMonth, DaysInMonth
<1>4. b + f < d /\ d <= b + f + g /\ f >= 0
  <2>1. NextMonth(y, m) = DayOf(y, m, 1) + g
    BY <1>3, MonthsFollow
  <2>2. f >= 0
    BY <1>3 DEF DaysBeforeMonth
  <2> QED BY <1>1, <1>3, <2>1, <2>2 DEF DayOf
<1>5. f + g <= (IF Leap(y) THEN 366 ELSE 365)
  <2>1. CASE m = 12
    BY <1>3, <2>1, MonthTable
  <2>2. CASE m < 12
    <3>1. f + g <= DaysBeforeMonth(y, 12)
      BY <1>3, <2>2, MonthsAreOrdered
    <3> QED BY <1>3, <3>1, MonthTable
  <2> QED BY <2>1, <2>2
<1>6. YearOf(d) = y
  BY <1>1, <1>2, <1>4, <1>5, YearOfUnique
<1>7. PICK k \in 1..12 : k = MonthOf(d) /\ DaysBeforeMonth(y, k) < d - b /\ d - b <= DaysBeforeMonth(y, k) + DaysInMonth(y, k)
  <2>1. MonthOf(d) \in 1..12 /\ DayOf(y, MonthOf(d), 1) <= d /\ d < NextMonth(y, MonthOf(d))
    BY <1>6, MonthOfCorrect
  <2>2. PICK k \in 1..12 : k = MonthOf(d)
    BY <2>1
  <2>3. NextMonth(y, k) = DayOf(y, k, 1) + DaysInMonth(y, k)
    BY MonthsFollow
  <2>4. DaysBeforeMonth(y, k) \in Int /\ DaysInMonth(y, k) \in Int
    BY DEF DaysBeforeMonth, DaysInMonth
  <2> QED BY <1>1, <2>1, <2>2, <2>3, <2>4 DEF DayOf
<1>8. DaysBeforeMonth(y, k) \in Int /\ DaysInMonth(y, k) \in Int
  BY DEF DaysBeforeMonth, DaysInMonth
<1>9. ~ (k < m)
  BY <1>3, <1>4, <1>7, <1>8, MonthsAreOrdered
<1>10. ~ (m < k)
  BY <1>3, <1>4, <1>7, <1>8, MonthsAreOrdered
<1> QED BY <1>6, <1>7, <1>9, <1>10

\* A day lies in the year that contains it (generation/periods.py:201-222).
LEMMA YearHolds ==
  ASSUME NEW d \in Int, d >= 1
  PROVE  /\ YearContaining(d).first \in Int /\ YearContaining(d).last \in Int
         /\ 1 <= YearContaining(d).first
         /\ YearContaining(d).first <= d /\ d <= YearContaining(d).last
<1>1. PICK y \in Int : y = YearOf(d) /\ y >= 1 /\ DaysBefore(y) < d /\ d <= DaysBefore(y + 1)
  BY YearOfCorrect
<1>2. DayOf(y, 1, 1) = DaysBefore(y) + 1 /\ DayOf(y, 12, 31) = DaysBefore(y + 1)
  BY <1>1, MonthTable, YearsGrow DEF DayOf
<1>3. DaysBefore(y) \in Int /\ DaysBefore(y + 1) \in Int /\ DaysBefore(y) >= 0
  <2> QED BY <1>1, YearsGrow, YearsAreNatural
<1> QED BY <1>1, <1>2, <1>3 DEF YearContaining, PeriodOf

\* All days of a year have that year.
LEMMA YearOfMember ==
  ASSUME NEW d \in Int, d >= 1, NEW e \in Int,
         YearContaining(d).first <= e, e <= YearContaining(d).last
  PROVE  YearContaining(e) = YearContaining(d)
<1>1. PICK y \in Int : y = YearOf(d) /\ y >= 1 /\ DaysBefore(y) < d /\ d <= DaysBefore(y + 1)
  BY YearOfCorrect
<1>2. DayOf(y, 1, 1) = DaysBefore(y) + 1 /\ DayOf(y, 12, 31) = DaysBefore(y + 1)
  BY <1>1, MonthTable, YearsGrow DEF DayOf
<1>3. DaysBefore(y) \in Int /\ DaysBefore(y + 1) \in Int
  BY <1>1, YearsGrow
<1>4. DaysBefore(y) < e /\ e <= DaysBefore(y + 1) /\ e >= 1
  BY <1>1, <1>2, <1>3, YearHolds DEF YearContaining, PeriodOf
<1> QED BY <1>1, <1>4, YearOfUnique DEF YearContaining

\* A day lies in the month that contains it (generation/periods.py:265-295).
LEMMA MonthHolds ==
  ASSUME NEW d \in Int, d >= 1
  PROVE  /\ MonthContaining(d).first \in Int /\ MonthContaining(d).last \in Int
         /\ 1 <= MonthContaining(d).first
         /\ MonthContaining(d).first <= d /\ d <= MonthContaining(d).last
<1>1. PICK y \in Int : y = YearOf(d) /\ y >= 1
  BY YearOfCorrect
<1>2. PICK m \in 1..12 : m = MonthOf(d) /\ DayOf(y, m, 1) <= d /\ d < NextMonth(y, m)
  BY <1>1, MonthOfCorrect
<1>3. /\ DayOf(y, m, 1) \in Int /\ NextMonth(y, m) \in Int
  BY <1>1, MonthsAreNumbers
<1>4. DayOf(y, m, 1) >= 1
  <2>1. DaysBefore(y) \in Nat
    BY <1>1, YearsAreNatural
  <2>2. DaysBeforeMonth(y, m) >= 0 /\ DaysBeforeMonth(y, m) \in Int
    BY DEF DaysBeforeMonth
  <2> QED BY <2>1, <2>2 DEF DayOf
<1> QED BY <1>1, <1>2, <1>3, <1>4 DEF MonthContaining, PeriodOf

\* All days of a month have that month.
LEMMA MonthOfMember ==
  ASSUME NEW d \in Int, d >= 1, NEW e \in Int,
         MonthContaining(d).first <= e, e <= MonthContaining(d).last
  PROVE  MonthContaining(e) = MonthContaining(d)
<1>1. PICK y \in Int : y = YearOf(d) /\ y >= 1
  BY YearOfCorrect
<1>2. PICK m \in 1..12 : m = MonthOf(d)
  BY MonthOfCorrect
<1>3. DayOf(y, m, 1) \in Int /\ NextMonth(y, m) \in Int
  BY <1>1, MonthsAreNumbers
<1>4. DayOf(y, m, 1) <= e /\ e < NextMonth(y, m) /\ e >= 1
  BY <1>1, <1>2, <1>3, MonthHolds DEF MonthContaining, PeriodOf
<1>5. YearOf(e) = y /\ MonthOf(e) = m
  BY <1>1, <1>4, MonthOfUnique
<1> QED BY <1>1, <1>2, <1>5 DEF MonthContaining

\* A quarter is the three months around QuarterNumber.
LEMMA QuarterOfMonths ==
  ASSUME NEW y \in Int, y >= 1, NEW q \in 1..4
  PROVE  /\ QuarterStart(y, q) = DayOf(y, 3 * q - 2, 1)
         /\ NextQuarter(y, q) = NextMonth(y, 3 * q)
<1>1. q = 1 \/ q = 2 \/ q = 3 \/ q = 4
  OBVIOUS
<1> QED BY <1>1 DEF QuarterStart, NextQuarter, NextMonth

\* Later months of a year begin after earlier ones have ended.
LEMMA StartsAreOrdered ==
  ASSUME NEW y \in Int, y >= 1, NEW m \in 1..12, NEW k \in 1..12, m < k
  PROVE  NextMonth(y, m) <= DayOf(y, k, 1)
<1>1. DaysBefore(y) \in Int
  BY YearsGrow
<1>2. /\ DaysBeforeMonth(y, m) \in Int /\ DaysBeforeMonth(y, k) \in Int
      /\ DaysInMonth(y, m) \in Int
  BY DEF DaysBeforeMonth, DaysInMonth
<1> QED BY <1>1, <1>2, MonthsFollow, MonthsAreOrdered DEF DayOf

\* A day lies in the quarter that contains it (generation/periods.py:225-263).
LEMMA QuarterHolds ==
  ASSUME NEW d \in Int, d >= 1
  PROVE  /\ QuarterContaining(d).first \in Int /\ QuarterContaining(d).last \in Int
         /\ 1 <= QuarterContaining(d).first
         /\ QuarterContaining(d).first <= d /\ d <= QuarterContaining(d).last
<1>1. PICK y \in Int : y = YearOf(d) /\ y >= 1
  BY YearOfCorrect
<1>2. PICK m \in 1..12 : m = MonthOf(d) /\ DayOf(y, m, 1) <= d /\ d < NextMonth(y, m)
  BY <1>1, MonthOfCorrect
<1>3. PICK q \in 1..4 : q = QuarterNumber(d)
  BY <1>2 DEF QuarterNumber
<1>4. 3 * q - 2 <= m /\ m <= 3 * q /\ 3 * q - 2 \in 1..12 /\ 3 * q \in 1..12
  BY <1>2, <1>3 DEF QuarterNumber
<1>5. PICK l \in 1..12, h \in 1..12 : l = 3 * q - 2 /\ h = 3 * q
  BY <1>4
<1>6. /\ DayOf(y, l, 1) \in Int /\ DayOf(y, m, 1) \in Int /\ DayOf(y, h, 1) \in Int
      /\ NextMonth(y, l) \in Int /\ NextMonth(y, m) \in Int /\ NextMonth(y, h) \in Int
      /\ DayOf(y, l, 1) <= NextMonth(y, l) /\ DayOf(y, h, 1) <= NextMonth(y, h)
  <2>1. \A k \in 1..12 : /\ DayOf(y, k, 1) \in Int /\ NextMonth(y, k) \in Int
                         /\ DayOf(y, k, 1) <= NextMonth(y, k)
    BY <1>1, MonthsAreNumbers
  <2> QED BY <2>1
<1>7. DayOf(y, l, 1) <= DayOf(y, m, 1)
  <2>1. CASE l = m
    BY <1>6, <2>1
  <2>2. CASE l < m
    BY <1>1, <1>6, <2>2, StartsAreOrdered
  <2> QED BY <1>4, <1>5, <2>1, <2>2
<1>8. NextMonth(y, m) <= NextMonth(y, h)
  <2>1. CASE h = m
    BY <1>6, <2>1
  <2>2. CASE m < h
    BY <1>1, <1>6, <2>2, StartsAreOrdered
  <2> QED BY <1>4, <1>5, <2>1, <2>2
<1>9. DayOf(y, l, 1) >= 1
  <2>1. DaysBefore(y) \in Nat
    BY <1>1, YearsAreNatural
  <2>2. DaysBeforeMonth(y, l) >= 0 /\ DaysBeforeMonth(y, l) \in Int
    BY DEF DaysBeforeMonth
  <2> QED BY <2>1, <2>2 DEF DayOf
<1>10. QuarterStart(y, q) = DayOf(y, l, 1) /\ NextQuarter(y, q) = NextMonth(y, h)
  BY <1>1, <1>5, QuarterOfMonths
<1> QED BY <1>1, <1>2, <1>3, <1>6, <1>7, <1>8, <1>9, <1>10 DEF QuarterContaining, PeriodOf

\* All days of a quarter have that quarter.
LEMMA QuarterOfMember ==
  ASSUME NEW d \in Int, d >= 1, NEW e \in Int,
         QuarterContaining(d).first <= e, e <= QuarterContaining(d).last
  PROVE  QuarterContaining(e) = QuarterContaining(d)
<1>1. PICK y \in Int : y = YearOf(d) /\ y >= 1
  BY YearOfCorrect
<1>2. PICK q \in 1..4 : q = QuarterNumber(d)
  BY MonthOfCorrect DEF QuarterNumber
<1>3. PICK l \in 1..12, h \in 1..12 : l = 3 * q - 2 /\ h = 3 * q
  OBVIOUS
<1>4. QuarterStart(y, q) = DayOf(y, l, 1) /\ NextQuarter(y, q) = NextMonth(y, h)
  BY <1>1, <1>3, QuarterOfMonths
<1>5. DayOf(y, l, 1) \in Int /\ NextMonth(y, h) \in Int
  BY <1>1, MonthsAreNumbers
<1>6. DayOf(y, l, 1) <= e /\ e < NextMonth(y, h) /\ e >= 1
  BY <1>1, <1>2, <1>4, <1>5, QuarterHolds DEF QuarterContaining, PeriodOf
<1>7. YearOf(e) = y
  <2>1. /\ DaysBefore(y) \in Int
        /\ DaysBefore(y + 1) = DaysBefore(y) + (IF Leap(y) THEN 366 ELSE 365)
    BY <1>1, YearsGrow
  <2>2. DaysBeforeMonth(y, l) >= 0 /\ DaysBeforeMonth(y, l) \in Int
    BY DEF DaysBeforeMonth
  <2>3. NextMonth(y, h) <= DaysBefore(y + 1) + 1
    <3>1. h = 3 \/ h = 6 \/ h = 9 \/ h = 12
      BY <1>3
    <3> QED BY <1>1, <2>1, <3>1, MonthTable DEF NextMonth, DayOf
  <2>4. DayOf(y, l, 1) = DaysBefore(y) + DaysBeforeMonth(y, l) + 1
    BY DEF DayOf
  <2>5. DaysBefore(y) < e /\ e <= DaysBefore(y + 1)
    BY <1>5, <1>6, <2>1, <2>2, <2>3, <2>4
  <2> QED BY <1>1, <1>6, <2>5, YearOfUnique
<1>8. PICK m \in 1..12 : m = MonthOf(e) /\ DayOf(y, m, 1) <= e /\ e < NextMonth(y, m)
  BY <1>6, <1>7, MonthOfCorrect
<1>9. DayOf(y, m, 1) \in Int /\ NextMonth(y, m) \in Int
  BY <1>1, MonthsAreNumbers
<1>10. ~ (m < l)
  BY <1>1, <1>5, <1>6, <1>8, <1>9, StartsAreOrdered
<1>11. ~ (h < m)
  BY <1>1, <1>5, <1>6, <1>8, <1>9, StartsAreOrdered
<1>12. QuarterNumber(e) = q
  BY <1>3, <1>8, <1>10, <1>11 DEF QuarterNumber
<1> QED BY <1>1, <1>2, <1>7, <1>12 DEF QuarterContaining

\* The first Monday of an ISO year lies around New Year, and is a Monday.
LEMMA FirstMondays ==
  ASSUME NEW y \in Int, y >= 0
  PROVE  /\ FirstIsoMonday(y) \in Int
         /\ DaysBefore(y) - 2 <= FirstIsoMonday(y)
         /\ FirstIsoMonday(y) <= DaysBefore(y) + 4
         /\ (FirstIsoMonday(y) + 6) % 7 = 0
<1>1. PICK j \in Int : j = DayOf(y, 1, 4) /\ j = DaysBefore(y) + 4
  BY YearsGrow, MonthTable DEF DayOf
<1>2. FirstIsoMonday(y) = j - ((j + 6) % 7)
  BY <1>1 DEF FirstIsoMonday, Weekday
<1>3. DaysBefore(y) \in Int
  BY YearsGrow
<1> QED BY <1>1, <1>2, <1>3

\* Later ISO years begin later.
LEMMA IsoYearsAreOrdered ==
  ASSUME NEW x \in Int, NEW y \in Int, 0 <= x, x < y
  PROVE  FirstIsoMonday(x) < FirstIsoMonday(y)
<1>1. /\ DaysBefore(x) \in Int /\ DaysBefore(y) \in Int /\ DaysBefore(x + 1) \in Int
      /\ DaysBefore(x + 1) >= DaysBefore(x) + 365
  BY YearsGrow
<1>2. DaysBefore(x + 1) <= DaysBefore(y)
  BY YearsAreOrdered
<1> QED BY <1>1, <1>2, FirstMondays

\* A day lies in its ISO year, which may be the one before or after its year.
LEMMA IsoYearCorrect ==
  ASSUME NEW d \in Int, d >= 1
  PROVE  /\ IsoYear(d) \in Int /\ IsoYear(d) >= 0
         /\ FirstIsoMonday(IsoYear(d)) <= d
         /\ d < FirstIsoMonday(IsoYear(d) + 1)
<1>1. PICK y \in Int : y = YearOf(d) /\ y >= 1 /\ DaysBefore(y) < d /\ d <= DaysBefore(y + 1)
  BY YearOfCorrect
<1>2. PICK p \in Int : p = y - 1 /\ p >= 0
  BY <1>1
<1>3. /\ DaysBefore(p) \in Int /\ DaysBefore(y) \in Int /\ DaysBefore(y + 1) \in Int
      /\ DaysBefore(y + 2) \in Int
      /\ DaysBefore(y) >= DaysBefore(p) + 365
      /\ DaysBefore(y + 2) >= DaysBefore(y + 1) + 365
  <2>1. DaysBefore(p + 1) = DaysBefore(p) + (IF Leap(p) THEN 366 ELSE 365) /\ p + 1 = y
    BY <1>2, YearsGrow
  <2>2. DaysBefore((y + 1) + 1) = DaysBefore(y + 1) + (IF Leap(y + 1) THEN 366 ELSE 365)
    BY <1>1, YearsGrow
  <2>3. DaysBefore(p) \in Int /\ DaysBefore(y) \in Int /\ DaysBefore(y + 1) \in Int
    BY <1>1, <1>2, YearsGrow
  <2> QED BY <1>1, <2>1, <2>2, <2>3
<1>4. /\ FirstIsoMonday(p) \in Int /\ FirstIsoMonday(p) <= DaysBefore(p) + 4
      /\ FirstIsoMonday(y) \in Int /\ FirstIsoMonday(y) <= DaysBefore(y) + 4
      /\ FirstIsoMonday(y + 1) \in Int
      /\ FirstIsoMonday(y + 2) \in Int /\ DaysBefore(y + 2) - 2 <= FirstIsoMonday(y + 2)
  BY <1>1, <1>2, FirstMondays
<1>5. CASE d < FirstIsoMonday(y)
  <2>1. IsoYear(d) = p
    BY <1>1, <1>2, <1>5 DEF IsoYear
  <2> QED BY <1>1, <1>2, <1>3, <1>4, <1>5, <2>1
<1>6. CASE d >= FirstIsoMonday(y) /\ d >= FirstIsoMonday(y + 1)
  <2>1. IsoYear(d) = y + 1
    BY <1>1, <1>4, <1>6 DEF IsoYear
  <2>2. d < FirstIsoMonday(y + 2)
    BY <1>1, <1>3, <1>4
  <2> QED BY <1>1, <1>6, <2>1, <2>2
<1>7. CASE d >= FirstIsoMonday(y) /\ d < FirstIsoMonday(y + 1)
  <2>1. IsoYear(d) = y
    BY <1>1, <1>4, <1>7 DEF IsoYear
  <2> QED BY <1>1, <1>7, <2>1
<1> QED BY <1>4, <1>5, <1>6, <1>7

\* A day lies in no other ISO year.
LEMMA IsoYearUnique ==
  ASSUME NEW d \in Int, d >= 1, NEW y \in Int, y >= 0,
         FirstIsoMonday(y) <= d, d < FirstIsoMonday(y + 1)
  PROVE  IsoYear(d) = y
<1>1. PICK z \in Int : /\ z = IsoYear(d) /\ z >= 0
                       /\ FirstIsoMonday(z) <= d /\ d < FirstIsoMonday(z + 1)
  BY IsoYearCorrect
<1>2. /\ FirstIsoMonday(y) \in Int /\ FirstIsoMonday(y + 1) \in Int
      /\ FirstIsoMonday(z) \in Int /\ FirstIsoMonday(z + 1) \in Int
  BY <1>1, FirstMondays
<1>3. ~ (z < y)
  <2>1. SUFFICES ASSUME z < y PROVE FALSE
    OBVIOUS
  <2>2. CASE z + 1 = y
    BY <1>1, <1>2, <2>2
  <2>3. CASE z + 1 < y
    BY <1>1, <1>2, <2>3, IsoYearsAreOrdered
  <2> QED BY <2>1, <2>2, <2>3
<1>4. ~ (y < z)
  <2>1. SUFFICES ASSUME y < z PROVE FALSE
    OBVIOUS
  <2>2. CASE y + 1 = z
    BY <1>1, <1>2, <2>2
  <2>3. CASE y + 1 < z
    BY <1>1, <1>2, <2>3, IsoYearsAreOrdered
  <2> QED BY <2>1, <2>2, <2>3
<1> QED BY <1>1, <1>3, <1>4

\* The first day of a week is the Monday on or before any of its days.
LEMMA WeekIsAroundItsDay ==
  ASSUME NEW d \in Int, d >= 1
  PROVE  IsoMonday(IsoYear(d), IsoWeek(d)) = d - ((d + 6) % 7)
<1>1. PICK f \in Int : f = FirstIsoMonday(IsoYear(d)) /\ (f + 6) % 7 = 0
  BY IsoYearCorrect, FirstMondays
<1>2. IsoMonday(IsoYear(d), IsoWeek(d)) = f + 7 * ((d - f) \div 7 + 1 - 1)
  BY <1>1 DEF IsoMonday, IsoWeek
<1> QED BY <1>1, <1>2

\* A day lies in the week that contains it (generation/periods.py:280-310).
LEMMA WeekHolds ==
  ASSUME NEW d \in Int, d >= 1
  PROVE  /\ WeekContaining(d).first \in Int /\ WeekContaining(d).last \in Int
         /\ 1 <= WeekContaining(d).first
         /\ WeekContaining(d).first <= d /\ d <= WeekContaining(d).last
<1>1. WeekContaining(d).first = d - ((d + 6) % 7)
  BY WeekIsAroundItsDay DEF WeekContaining, PeriodOf
<1>2. WeekContaining(d).last = d - ((d + 6) % 7) + 6
  BY WeekIsAroundItsDay DEF WeekContaining, PeriodOf
<1> QED BY <1>1, <1>2

\* All days of a week have that week.
LEMMA WeekOfMember ==
  ASSUME NEW d \in Int, d >= 1, NEW e \in Int,
         WeekContaining(d).first <= e, e <= WeekContaining(d).last
  PROVE  WeekContaining(e) = WeekContaining(d)
<1>1. PICK y \in Int : /\ y = IsoYear(d) /\ y >= 0
                       /\ FirstIsoMonday(y) <= d /\ d < FirstIsoMonday(y + 1)
  BY IsoYearCorrect
<1>2. PICK f \in Int, g \in Int : /\ f = FirstIsoMonday(y) /\ (f + 6) % 7 = 0
                                  /\ g = FirstIsoMonday(y + 1) /\ (g + 6) % 7 = 0
  BY <1>1, FirstMondays
<1>3. PICK m \in Int : m = d - ((d + 6) % 7)
  OBVIOUS
<1>4. m <= e /\ e <= m + 6 /\ e >= 1
  BY <1>3, WeekIsAroundItsDay, WeekHolds DEF WeekContaining, PeriodOf
<1>5. m = e - ((e + 6) % 7)
  BY <1>3, <1>4
<1>6. f <= e /\ e < g
  <2>1. f <= m
    BY <1>1, <1>2, <1>3
  <2>2. m + 6 < g
    BY <1>1, <1>2, <1>3
  <2> QED BY <1>4, <2>1, <2>2
<1>7. IsoYear(e) = y
  BY <1>1, <1>2, <1>4, <1>6, IsoYearUnique
<1>8. IsoMonday(y, IsoWeek(e)) = m /\ IsoMonday(y, IsoWeek(d)) = m
  BY <1>1, <1>3, <1>4, <1>5, <1>7, WeekIsAroundItsDay
<1>9. IsoWeek(e) = IsoWeek(d)
  <2>1. IsoWeek(e) = (e - f) \div 7 + 1 /\ IsoWeek(d) = (d - f) \div 7 + 1
    BY <1>1, <1>2, <1>7 DEF IsoWeek
  <2>2. f + 7 * (IsoWeek(e) - 1) = m /\ f + 7 * (IsoWeek(d) - 1) = m
    BY <1>2, <1>8 DEF IsoMonday
  <2> QED BY <2>1, <2>2
<1> QED BY <1>1, <1>7, <1>9 DEF WeekContaining

----------------------------------------------------------------------------
(* All types *)

\* period_containing returns a period around its day (generation/periods.py:178-198).
THEOREM PeriodHolds ==
  ASSUME NEW d \in Int, d >= 1, NEW type \in Supported
  PROVE  /\ PeriodContaining(d, type).first \in Int
         /\ PeriodContaining(d, type).last \in Int
         /\ 1 <= PeriodContaining(d, type).first
         /\ PeriodContaining(d, type).first <= d
         /\ d <= PeriodContaining(d, type).last
<1>1. type = "YEAR" \/ type = "QUARTER" \/ type = "MONTH" \/ type = "WEEK"
  BY DEF Supported, PeriodType
<1> QED BY <1>1, YearHolds, QuarterHolds, MonthHolds, WeekHolds DEF PeriodContaining

\* Each of the days of a period yields that same period: no two periods of a
\* type share a day, and the day after a period begins another one
\* (generation/periods.py:178-198).
THEOREM PeriodOfMember ==
  ASSUME NEW d \in Int, d >= 1, NEW type \in Supported, NEW e \in Int,
         PeriodContaining(d, type).first <= e, e <= PeriodContaining(d, type).last
  PROVE  PeriodContaining(e, type) = PeriodContaining(d, type)
<1>1. type = "YEAR" \/ type = "QUARTER" \/ type = "MONTH" \/ type = "WEEK"
  BY DEF Supported, PeriodType
<1> QED BY <1>1, YearOfMember, QuarterOfMember, MonthOfMember, WeekOfMember
          DEF PeriodContaining

\* A period carries the type it was asked for (generation/periods.py:178-198).
LEMMA PeriodHasType ==
  ASSUME NEW d, NEW type \in Supported
  PROVE  PeriodContaining(d, type).type = type
<1>1. type = "YEAR" \/ type = "QUARTER" \/ type = "MONTH" \/ type = "WEEK"
  BY DEF Supported, PeriodType
<1> QED BY <1>1 DEF PeriodContaining, YearContaining, QuarterContaining,
                    MonthContaining, WeekContaining, PeriodOf

----------------------------------------------------------------------------
(* The periods of a type, numbered along the calendar *)

Place(type, day) ==
    CASE type = "YEAR"    -> YearOf(day)
      [] type = "QUARTER" -> QuarterIndex(day, 0)
      [] type = "MONTH"   -> MonthIndex(day, 0)
      [] type = "WEEK"    -> (day - 1) \div 7

StartOf(type, i) ==
    CASE type = "YEAR"    -> DayOf(i, 1, 1)
      [] type = "QUARTER" -> DayOf(i \div 4, (i % 4) * 3 + 1, 1)
      [] type = "MONTH"   -> DayOf(i \div 12, (i % 12) + 1, 1)
      [] type = "WEEK"    -> 7 * i + 1

\* A period begins at its place and ends before the next one begins.
LEMMA PeriodHasPlace ==
  ASSUME NEW d \in Int, d >= 1, NEW type \in Supported
  PROVE  /\ Place(type, d) \in Int
         /\ PeriodContaining(d, type).first = StartOf(type, Place(type, d))
         /\ PeriodContaining(d, type).last + 1 = StartOf(type, Place(type, d) + 1)
<1>1. PICK y \in Int : y = YearOf(d) /\ y >= 1
  BY YearOfCorrect
<1>2. PICK m \in 1..12 : m = MonthOf(d)
  BY MonthOfCorrect
<1>3. CASE type = "YEAR"
  <2>1. DayOf(y, 12, 31) + 1 = DayOf(y + 1, 1, 1)
    BY <1>1, MonthTable, YearsGrow DEF DayOf
  <2> QED BY <1>1, <1>3, <2>1 DEF Place, StartOf, PeriodContaining, YearContaining, PeriodOf
<1>4. CASE type = "QUARTER"
  <2>1. PICK q \in 1..4 : q = QuarterNumber(d) /\ (m - 1) \div 3 = q - 1
    BY <1>2 DEF QuarterNumber
  <2>2. PICK i \in Int : i = Place(type, d) /\ i = 4 * y + q - 1
    BY <1>1, <1>2, <1>4, <2>1 DEF Place, QuarterIndex
  <2>3. i \div 4 = y /\ i % 4 = q - 1
    BY <1>1, <2>1, <2>2
  <2>4. StartOf(type, i) = QuarterStart(y, q)
    BY <1>4, <2>3 DEF StartOf, QuarterStart
  <2>5. StartOf(type, i + 1) = NextQuarter(y, q)
    <3>1. CASE q = 4
      <4>1. (i + 1) \div 4 = y + 1 /\ (i + 1) % 4 = 0
        BY <1>1, <2>2, <3>1
      <4> QED BY <1>4, <3>1, <4>1 DEF StartOf, NextQuarter
    <3>2. CASE q # 4
      <4>1. (i + 1) \div 4 = y /\ (i + 1) % 4 = (q + 1) - 1
        <5>1. q \in 0..3 /\ i + 1 = 4 * y + q
          BY <2>1, <2>2, <3>2
        <5>2. (4 * y + q) \div 4 = y /\ (4 * y + q) % 4 = q
          BY <1>1, <5>1
        <5> QED BY <2>1, <5>1, <5>2
      <4> QED BY <1>4, <3>2, <4>1 DEF StartOf, NextQuarter, QuarterStart
    <3> QED BY <3>1, <3>2
  <2>6. NextQuarter(y, q) - 1 + 1 = NextQuarter(y, q)
    <3>1. PeriodContaining(d, type).last = NextQuarter(y, q) - 1
      BY <1>1, <1>4, <2>1 DEF PeriodContaining, QuarterContaining, PeriodOf
    <3>2. NextQuarter(y, q) \in Int
      <4>1. 3 * q \in 1..12
        BY <2>1
      <4> QED BY <1>1, <4>1, QuarterOfMonths, MonthsAreNumbers
    <3> QED BY <3>2
  <2> QED BY <1>1, <1>4, <2>1, <2>2, <2>4, <2>5, <2>6
          DEF PeriodContaining, QuarterContaining, PeriodOf
<1>5. CASE type = "MONTH"
  <2>1. PICK i \in Int : i = Place(type, d) /\ i = 12 * y + m - 1
    BY <1>1, <1>2, <1>5 DEF Place, MonthIndex
  <2>2. i \div 12 = y /\ (i % 12) + 1 = m
    BY <1>1, <1>2, <2>1
  <2>3. StartOf(type, i) = DayOf(y, m, 1)
    BY <1>5, <2>2 DEF StartOf
  <2>4. StartOf(type, i + 1) = NextMonth(y, m)
    <3>1. CASE m = 12
      <4>1. (i + 1) \div 12 = y + 1 /\ ((i + 1) % 12) + 1 = 1
        BY <1>1, <2>1, <3>1
      <4> QED BY <1>5, <3>1, <4>1 DEF StartOf, NextMonth
    <3>2. CASE m # 12
      <4>1. (i + 1) \div 12 = y /\ ((i + 1) % 12) + 1 = m + 1
        <5>1. m \in 0..11 /\ i + 1 = 12 * y + m
          BY <1>2, <2>1, <3>2
        <5>2. (12 * y + m) \div 12 = y /\ (12 * y + m) % 12 = m
          BY <1>1, <5>1
        <5> QED BY <1>2, <5>1, <5>2
      <4> QED BY <1>5, <3>2, <4>1 DEF StartOf, NextMonth
    <3> QED BY <3>1, <3>2
  <2>5. NextMonth(y, m) - 1 + 1 = NextMonth(y, m)
    <3>1. NextMonth(y, m) \in Int
      BY <1>1, <1>2, MonthsAreNumbers
    <3> QED BY <3>1
  <2> QED BY <1>1, <1>2, <1>5, <2>1, <2>3, <2>4, <2>5
          DEF PeriodContaining, MonthContaining, PeriodOf
<1>6. CASE type = "WEEK"
  <2>1. PICK i \in Int : i = (d - 1) \div 7
    OBVIOUS
  <2>2. d - ((d + 6) % 7) = 7 * i + 1
    BY <2>1
  <2>3. WeekContaining(d).first = 7 * i + 1 /\ WeekContaining(d).last = 7 * i + 7
    BY <2>2, WeekIsAroundItsDay DEF WeekContaining, PeriodOf
  <2>4. StartOf(type, i) = 7 * i + 1 /\ StartOf(type, i + 1) = 7 * (i + 1) + 1
        /\ Place(type, d) = i
    BY <1>6, <2>1 DEF StartOf, Place
  <2> QED BY <1>6, <2>3, <2>4 DEF PeriodContaining
<1> QED BY <1>3, <1>4, <1>5, <1>6 DEF Supported, PeriodType

\* No year before the first one begins on a day of the calendar.
LEMMA NoYearIsEarlier ==
  ASSUME NEW y \in Int, NEW m \in 1..12, DayOf(y, m, 1) >= 1
  PROVE  y >= 1
<1>1. SUFFICES ASSUME y <= 0 PROVE FALSE
  OBVIOUS
<1>2. DaysBefore(y) \in Int /\ DaysBefore(y) <= -366
  BY <1>1 DEF DaysBefore
<1>3. DaysBeforeMonth(y, m) \in Int /\ DaysBeforeMonth(y, m) <= 335
  BY DEF DaysBeforeMonth
<1> QED BY <1>2, <1>3 DEF DayOf

\* A period that begins at a place is at that place.
LEMMA PlaceOfStart ==
  ASSUME NEW type \in Supported, NEW i \in Int, StartOf(type, i) \in Int,
         StartOf(type, i) >= 1
  PROVE  Place(type, StartOf(type, i)) = i
<1>1. ASSUME NEW y \in Int, NEW m \in 1..12, StartOf(type, i) = DayOf(y, m, 1)
      PROVE  YearOf(StartOf(type, i)) = y /\ MonthOf(StartOf(type, i)) = m
  <2>1. y >= 1
    BY <1>1, NoYearIsEarlier
  <2>2. /\ DayOf(y, m, 1) \in Int /\ DaysInMonth(y, m) \in 28..31
        /\ NextMonth(y, m) = DayOf(y, m, 1) + DaysInMonth(y, m)
    BY <2>1, MonthsFollow
  <2>3. DayOf(y, m, 1) < NextMonth(y, m) /\ DayOf(y, m, 1) <= DayOf(y, m, 1)
    BY <2>2
  <2> QED BY <1>1, <2>1, <2>2, <2>3, MonthOfUnique
<1>2. CASE type = "YEAR"
  <2>1. StartOf(type, i) = DayOf(i, 1, 1) /\ 1 \in 1..12
    BY <1>2 DEF StartOf
  <2> QED BY <1>1, <1>2, <2>1 DEF Place
<1>3. CASE type = "QUARTER"
  <2>1. PICK y \in Int, r \in 0..3 : y = i \div 4 /\ r = i % 4
    OBVIOUS
  <2>2. r * 3 + 1 \in 1..12 /\ StartOf(type, i) = DayOf(y, r * 3 + 1, 1)
    BY <1>3, <2>1 DEF StartOf
  <2>3. YearOf(StartOf(type, i)) = y /\ MonthOf(StartOf(type, i)) = r * 3 + 1
    BY <1>1, <2>2
  <2>4. y * 4 + (r * 3 + 1 - 1) \div 3 + 0 = i
    BY <2>1
  <2> QED BY <1>3, <2>3, <2>4 DEF Place, QuarterIndex
<1>4. CASE type = "MONTH"
  <2>1. PICK y \in Int, r \in 0..11 : y = i \div 12 /\ r = i % 12
    OBVIOUS
  <2>2. r + 1 \in 1..12 /\ StartOf(type, i) = DayOf(y, r + 1, 1)
    BY <1>4, <2>1 DEF StartOf
  <2>3. YearOf(StartOf(type, i)) = y /\ MonthOf(StartOf(type, i)) = r + 1
    BY <1>1, <2>2
  <2>4. y * 12 + (r + 1) - 1 + 0 = i
    BY <2>1
  <2> QED BY <1>4, <2>3, <2>4 DEF Place, MonthIndex
<1>5. CASE type = "WEEK"
  BY <1>5 DEF Place, StartOf
<1> QED BY <1>2, <1>3, <1>4, <1>5 DEF Supported, PeriodType

\* Shifting the first day of a period by n goes n places on
\* (generation/periods.py:135-175).
LEMMA ShiftGoesOn ==
  ASSUME NEW type \in Supported, NEW f \in Int, f >= 1,
         f = PeriodContaining(f, type).first, NEW n \in Int
  PROVE  ShiftDate(f, type, n) = StartOf(type, Place(type, f) + n)
<1>1. PICK y \in Int : y = YearOf(f)
  BY YearOfCorrect
<1>2. PICK m \in 1..12 : m = MonthOf(f)
  BY MonthOfCorrect
<1>3. CASE type = "YEAR"
  BY <1>3 DEF ShiftDate, StartOf, Place
<1>4. CASE type = "QUARTER"
  <2>1. QuarterIndex(f, n) = QuarterIndex(f, 0) + n
    BY <1>1, <1>2 DEF QuarterIndex
  <2> QED BY <1>4, <2>1 DEF ShiftDate, StartOf, Place
<1>5. CASE type = "MONTH"
  <2>1. MonthIndex(f, n) = MonthIndex(f, 0) + n
    BY <1>1, <1>2 DEF MonthIndex
  <2> QED BY <1>5, <2>1 DEF ShiftDate, StartOf, Place
<1>6. CASE type = "WEEK"
  <2>1. PICK i \in Int : i = Place(type, f) /\ f = 7 * i + 1
    BY <1>6, PeriodHasPlace DEF StartOf
  <2> QED BY <1>6, <2>1 DEF ShiftDate, StartOf
<1> QED BY <1>3, <1>4, <1>5, <1>6 DEF Supported, PeriodType

\* What can be constructed around one day of a period can be around each.
LEMMA ConstructibleOfPeriod ==
  ASSUME NEW d \in Int, d >= 1, NEW e \in Int, e >= 1, NEW type \in Supported,
         PeriodContaining(d, type) = PeriodContaining(e, type), Constructible(d, type)
  PROVE  Constructible(e, type)
<1>1. CASE type = "YEAR"
  BY <1>1 DEF Constructible
<1>2. CASE type = "QUARTER"
  <2>1. QuarterContaining(d).id = QuarterContaining(e).id
    BY <1>2 DEF PeriodContaining
  <2> QED BY <1>2, <2>1 DEF Constructible, QuarterContaining, PeriodOf
<1>3. CASE type = "MONTH"
  <2>1. MonthContaining(d).id = MonthContaining(e).id
    BY <1>3 DEF PeriodContaining
  <2> QED BY <1>3, <2>1 DEF Constructible, MonthContaining, PeriodOf
<1>4. CASE type = "WEEK"
  <2>1. WeekContaining(d).id = WeekContaining(e).id
    BY <1>4 DEF PeriodContaining
  <2> QED BY <1>4, <2>1 DEF Constructible, WeekContaining, PeriodOf
<1> QED BY <1>1, <1>2, <1>3, <1>4 DEF Supported, PeriodType

\* A month ends before any later one begins.
LEMMA MonthsStartInOrder ==
  ASSUME NEW i \in Int, NEW j \in Int, i < j,
         StartOf("MONTH", i) \in Int, StartOf("MONTH", i) >= 1
  PROVE  StartOf("MONTH", i + 1) \in Int /\ StartOf("MONTH", j) \in Int
         /\ StartOf("MONTH", i + 1) <= StartOf("MONTH", j)
<1>1. PICK y \in Int, m \in 1..12 : y = i \div 12 /\ m = (i % 12) + 1 /\ i = 12 * y + m - 1
  OBVIOUS
<1>2. PICK z \in Int, k \in 1..12 : z = j \div 12 /\ k = (j % 12) + 1 /\ j = 12 * z + k - 1
  OBVIOUS
<1>3. PICK d \in Int : d = StartOf("MONTH", i) /\ d >= 1 /\ d = DayOf(y, m, 1)
  BY <1>1 DEF StartOf
<1>4. y >= 1
  BY <1>1, <1>3, NoYearIsEarlier
<1>5. y < z \/ (y = z /\ m < k)
  <2>1. 12 * y + m - 1 < 12 * z + k - 1
    BY <1>1, <1>2
  <2>2. \A u, v \in Int, f, g \in 1..12 :
            12 * u + f - 1 < 12 * v + g - 1 => u < v \/ (u = v /\ f < g)
    OBVIOUS
  <2> QED BY <1>1, <1>2, <2>1, <2>2
<1>6. StartOf("MONTH", i + 1) = NextMonth(y, m) /\ NextMonth(y, m) \in Int
  <2>1. d < NextMonth(y, m) /\ NextMonth(y, m) \in Int
    <3>1. PICK n \in 28..31 : NextMonth(y, m) = DayOf(y, m, 1) + n
      BY <1>1, <1>4, MonthsFollow
    <3> QED BY <1>3, <3>1
  <2>2. YearOf(d) = y /\ MonthOf(d) = m
    BY <1>3, <1>4, <2>1, MonthOfUnique
  <2>3. Place("MONTH", d) = i
    BY <1>3, PlaceOfStart DEF Supported, PeriodType
  <2>4. PeriodContaining(d, "MONTH").last + 1 = StartOf("MONTH", i + 1)
    <3>1. "MONTH" \in Supported
      BY DEF Supported, PeriodType
    <3>2. PeriodContaining(d, "MONTH").last + 1
              = StartOf("MONTH", Place("MONTH", d) + 1)
      BY <1>3, <3>1, PeriodHasPlace
    <3> QED BY <2>3, <3>2
  <2>5. PeriodContaining(d, "MONTH").last = NextMonth(y, m) - 1
    <3>1. PeriodContaining(d, "MONTH") = MonthContaining(d)
      BY DEF PeriodContaining
    <3> QED BY <2>2, <3>1 DEF MonthContaining, PeriodOf
  <2> QED BY <2>1, <2>4, <2>5
<1>7. StartOf("MONTH", j) = DayOf(z, k, 1) /\ DayOf(z, k, 1) \in Int
  <2>1. StartOf("MONTH", j) = DayOf(z, k, 1)
    BY <1>2 DEF StartOf
  <2>2. z >= 1
    BY <1>1, <1>2, <1>4, <1>5
  <2> QED BY <1>2, <2>1, <2>2, MonthsAreNumbers
<1>8. CASE y = z /\ m < k
  BY <1>4, <1>6, <1>7, <1>8, StartsAreOrdered
<1>9. CASE y < z
  <2>1. PICK a \in Int, b \in Int : a = DaysBefore(y + 1) /\ b = DaysBefore(z) /\ a <= b
    <3>1. y + 1 \in Int /\ y + 1 >= 0 /\ z >= 0 /\ y + 1 <= z
      BY <1>1, <1>2, <1>4, <1>9
    <3>2. DaysBefore(y + 1) \in Int /\ DaysBefore(z) \in Int
      BY <1>2, <3>1, YearsGrow
    <3> QED BY <1>2, <3>1, <3>2, YearsAreOrdered
  <2>2. NextMonth(y, m) <= a + 1
    <3>1. NextMonth(y, 12) = a + 1
      BY <2>1, MonthTable DEF NextMonth, DayOf
    <3>2. CASE m = 12
      BY <2>1, <3>1, <3>2
    <3>3. CASE m # 12
      <4>1. NextMonth(y, m) <= DayOf(y, 12, 1)
        BY <1>1, <1>4, <3>3, StartsAreOrdered
      <4>2. DayOf(y, 12, 1) <= NextMonth(y, 12) /\ DayOf(y, 12, 1) \in Int
        BY <1>4, MonthsAreNumbers
      <4> QED BY <1>6, <2>1, <3>1, <4>1, <4>2
    <3> QED BY <3>2, <3>3
  <2>3. b + 1 <= DayOf(z, k, 1)
    <3>1. DayOf(z, 1, 1) = b + 1
      BY <2>1, MonthTable DEF DayOf
    <3>2. CASE k = 1
      BY <2>1, <3>1, <3>2
    <3>3. CASE k # 1
      <4>1. NextMonth(z, 1) <= DayOf(z, k, 1)
        BY <1>2, <1>4, <1>9, <3>3, StartsAreOrdered
      <4>2. DayOf(z, 1, 1) <= NextMonth(z, 1) /\ NextMonth(z, 1) \in Int
        BY <1>4, <1>9, MonthsAreNumbers
      <4> QED BY <1>7, <2>1, <3>1, <4>1, <4>2
    <3> QED BY <3>2, <3>3
  <2> QED BY <1>6, <1>7, <2>1, <2>2, <2>3
<1> QED BY <1>5, <1>6, <1>7, <1>8, <1>9

================================================================================
