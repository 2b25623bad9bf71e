-------------------------------- MODULE Periods --------------------------------
(* Pure generation of calendar periods: generation/periods.py and             *)
(* models/periods.py.  Dates that do not exist make the code raise; here a    *)
(* definition says what is computed and another one when it exists, or what   *)
(* may raise is a set: of the one result, or empty.                           *)
EXTENDS Dates

PeriodType == {"YEAR", "QUARTER", "MONTH", "WEEK", "DAY"}
Supported == PeriodType \ {"DAY"}

\* An id is what its text says: a type, a year and a number within the year.
PeriodOf(type, year, number, first, last) ==
    [id |-> <<type, year, number>>, type |-> type, first |-> first, last |-> last]

----------------------------------------------------------------------------
(* period_containing *)

YearContaining(day) ==
    PeriodOf("YEAR", YearOf(day), 1,
             DayOf(YearOf(day), 1, 1), DayOf(YearOf(day), 12, 31))

QuarterNumber(day) == (MonthOf(day) - 1) \div 3 + 1
QuarterStart(y, q) == DayOf(y, (q - 1) * 3 + 1, 1)
NextQuarter(y, q) == IF q = 4 THEN DayOf(y + 1, 1, 1) ELSE QuarterStart(y, q + 1)

QuarterContaining(day) ==
    LET y == YearOf(day)
        q == QuarterNumber(day)
    IN  PeriodOf("QUARTER", y, q, QuarterStart(y, q), NextQuarter(y, q) - 1)

NextMonth(y, m) == IF m = 12 THEN DayOf(y + 1, 1, 1) ELSE DayOf(y, m + 1, 1)

MonthContaining(day) ==
    LET y == YearOf(day)
        m == MonthOf(day)
    IN  PeriodOf("MONTH", y, m, DayOf(y, m, 1), NextMonth(y, m) - 1)

WeekContaining(day) ==
    LET y == IsoYear(day)
        w == IsoWeek(day)
    IN  PeriodOf("WEEK", y, w, IsoMonday(y, w), IsoMonday(y, w) + 6)

PeriodContaining(day, type) ==
    CASE type = "YEAR"    -> YearContaining(day)
      [] type = "QUARTER" -> QuarterContaining(day)
      [] type = "MONTH"   -> MonthContaining(day)
      [] type = "WEEK"    -> WeekContaining(day)

\* The last quarter and the last month of the calendar have no next one to
\* subtract a day from, and its last week ends after the calendar does.
Constructible(day, type) ==
    CASE type = "YEAR"    -> TRUE
      [] type = "QUARTER" -> NextQuarter(YearOf(day), QuarterNumber(day)) <= LastDay
      [] type = "MONTH"   -> NextMonth(YearOf(day), MonthOf(day)) <= LastDay
      [] type = "WEEK"    -> IsoMonday(IsoYear(day), IsoWeek(day)) + 6 <= LastDay
      [] OTHER            -> FALSE

\* The period of a computed date, if there are such a date and such a period.
PeriodOn(day, type) ==
    IF day \in Day /\ Constructible(day, type) THEN {PeriodContaining(day, type)} ELSE {}

----------------------------------------------------------------------------
(* shift_period_by_n *)

\* Faulty: December of a year is counted as the year's end and not as its month.
MonthFromOne(day, n) == YearOf(day) * 12 + MonthOf(day) + n

\* The year and the month, each as _shift_date_by_n_periods computes them.
MonthIndex(day, n) == YearOf(day) * 12 + MonthOf(day) - 1 + n
QuarterIndex(day, n) == YearOf(day) * 4 + (MonthOf(day) - 1) \div 3 + n

\* Faulty: the months that do not fit into the year are dropped.
ShiftWithinYear(day, type, n) ==
    CASE type = "YEAR"    -> DayOf(YearOf(day) + n, 1, 1)
      [] type = "MONTH"   -> DayOf(YearOf(day), (MonthIndex(day, n) % 12) + 1, 1)
      [] type = "QUARTER" -> DayOf(YearOf(day), (QuarterIndex(day, n) % 4) * 3 + 1, 1)
      [] type = "WEEK"    -> day + 7 * n

ShiftDate(day, type, n) ==
    CASE type = "YEAR"    -> DayOf(YearOf(day) + n, 1, 1)
      [] type = "MONTH"   -> DayOf(MonthIndex(day, n) \div 12,
                                   (MonthIndex(day, n) % 12) + 1, 1)
      [] type = "QUARTER" -> DayOf(QuarterIndex(day, n) \div 4,
                                   (QuarterIndex(day, n) % 4) * 3 + 1, 1)
      [] type = "WEEK"    -> day + 7 * n

ShiftPeriod(period, n) ==
    UNION {PeriodOn(day, period.type) : day \in {ShiftDate(period.first, period.type, n)}}

----------------------------------------------------------------------------
(* period_from_id *)

\* A year is four digits, so no id of a year before 1000 is recognised.
Recognised(id) ==
    /\ id[2] \in 1000..MaxYear
    /\ CASE id[1] = "YEAR"    -> TRUE
         [] id[1] = "MONTH"   -> id[3] \in 1..12
         [] id[1] = "QUARTER" -> id[3] \in 1..4
         [] id[1] = "WEEK"    -> IsIsoWeek(id[2], id[3])
         [] OTHER             -> FALSE

\* Faulty: the number of a quarter is taken for a month.
MonthDayFromId(id) ==
    CASE id[1] = "YEAR"                 -> DayOf(id[2], 1, 1)
      [] id[1] \in {"MONTH", "QUARTER"} -> DayOf(id[2], id[3], 1)
      [] id[1] = "WEEK"                 -> IsoMonday(id[2], id[3])

DayFromId(id) ==
    CASE id[1] = "YEAR"    -> DayOf(id[2], 1, 1)
      [] id[1] = "MONTH"   -> DayOf(id[2], id[3], 1)
      [] id[1] = "QUARTER" -> DayOf(id[2], (id[3] - 1) * 3 + 1, 1)
      [] id[1] = "WEEK"    -> IsoMonday(id[2], id[3])

PeriodFromId(id) == IF Recognised(id) THEN PeriodOn(DayFromId(id), id[1]) ELSE {}

\* Period.__lt__: larger types first, then by first date.
Priority(type) == CASE type = "YEAR" -> 1 [] type = "QUARTER" -> 2
                    [] type = "MONTH" -> 3 [] type = "WEEK" -> 4 [] OTHER -> 5
Precedes(p, q) ==
    IF p.type # q.type THEN Priority(p.type) < Priority(q.type)
    ELSE p.first < q.first

================================================================================
