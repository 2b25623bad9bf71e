--------------------------------- MODULE Dates ---------------------------------
(* The dates of Python's datetime: a day is its proleptic Gregorian ordinal,  *)
(* 1 is 1 January of year 1 and LastDay is 31 December of year 9999.          *)
EXTENDS Integers

MinYear == 1
MaxYear == 9999

Leap(y) == (y % 4 = 0 /\ y % 100 # 0) \/ y % 400 = 0

DaysBefore(y) ==
    365 * (y - 1) + (y - 1) \div 4 - (y - 1) \div 100 + (y - 1) \div 400

DaysBeforeMonth(y, m) ==
    <<0, 31, 59, 90, 120, 151, 181, 212, 243, 273, 304, 334>>[m]
        + (IF m > 2 /\ Leap(y) THEN 1 ELSE 0)

DaysInMonth(y, m) ==
    IF m = 2 THEN IF Leap(y) THEN 29 ELSE 28
    ELSE IF m \in {4, 6, 9, 11} THEN 30 ELSE 31

\* date(y, m, d), which exists only when IsDate holds.
DayOf(y, m, d) == DaysBefore(y) + DaysBeforeMonth(y, m) + d
IsDate(y, m, d) ==
    y \in MinYear..MaxYear /\ m \in 1..12 /\ d \in 1..DaysInMonth(y, m)

LastDay == DaysBefore(MaxYear + 1)
Day == 1..LastDay

\* The year of a day: whole cycles of 400, 100, 4 and 1 years are counted off;
\* the last day of a leap year would begin a fifth year of its cycle.
YearOf(day) ==
    LET n400 == (day - 1) \div 146097
        r400 == (day - 1) % 146097
        n100 == r400 \div 36524
        r100 == r400 % 36524
        n4   == r100 \div 1461
        n1   == (r100 % 1461) \div 365
    IN  400 * n400 + 100 * n100 + 4 * n4 + n1
            + (IF n100 = 4 \/ n1 = 4 THEN 0 ELSE 1)

DayOfYear(day) == day - DaysBefore(YearOf(day))

MonthOf(day) ==
    CHOOSE m \in 1..12 :
        /\ DaysBeforeMonth(YearOf(day), m) < DayOfYear(day)
        /\ DayOfYear(day) <= DaysBeforeMonth(YearOf(day), m)
                                + DaysInMonth(YearOf(day), m)

DayOfMonth(day) ==
    DayOfYear(day) - DaysBeforeMonth(YearOf(day), MonthOf(day))

\* weekday(): Monday is 0.
Weekday(day) == (day + 6) % 7

\* ISO weeks: week 1 of a year is the one of 4 January and begins on Monday.
FirstIsoMonday(y) == DayOf(y, 1, 4) - Weekday(DayOf(y, 1, 4))

IsoYear(day) ==
    IF day < FirstIsoMonday(YearOf(day)) THEN YearOf(day) - 1
    ELSE IF day >= FirstIsoMonday(YearOf(day) + 1) THEN YearOf(day) + 1
    ELSE YearOf(day)

IsoWeek(day) == (day - FirstIsoMonday(IsoYear(day))) \div 7 + 1

\* date.fromisocalendar(y, w, 1)
IsoMonday(y, w) == FirstIsoMonday(y) + 7 * (w - 1)
IsIsoWeek(y, w) ==
    /\ y \in MinYear..MaxYear
    /\ w >= 1
    /\ IsoMonday(y, w) < FirstIsoMonday(y + 1)

================================================================================
