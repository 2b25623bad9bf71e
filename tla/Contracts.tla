------------------------------- MODULE Contracts -------------------------------
(* Generation of futures contracts: generation/futures_contracts.py with      *)
(* trading_calendars/last_trading_day.py and first_day_of_interest.py.  As in  *)
(* TradingCalendar, what may raise is the set of its result or empty.          *)
EXTENDS TradingCalendar

\* A LastTradingRule: [offset, event, n, days, weekday].
\* A FirstDayOfInterestRule: [type, shifts, reference]; shifts is a function
\* whose domain is the months the source names.
\* A product: [types, months, calendar, lastTrading, interest], months being
\* those whose CME codes are in its valid_period_rule.

ReferenceEvents ==
    {"business_day_of_period", "calendar_day_of_period", "weekday_of_period"}

\* get_reference_date
ReferenceDate(c, p, rule) ==
    CASE rule.event = "business_day_of_period" -> NthBusinessDay(c, p, rule.n)
      [] rule.event = "calendar_day_of_period" -> NthCalendarDay(p, rule.n)
      [] rule.event = "weekday_of_period"      -> NthWeekday(p, rule.weekday, rule.n)

\* calculate_last_trading_day, of which the reference date is the first part.
LastTradingReference(c, p, rule) ==
    UNION {ReferenceDate(c, q, rule) : q \in ShiftPeriod(p, rule.offset)}

LastTradingDay(c, p, rule) ==
    UNION {RelativeBusinessDay(c, day, rule.days) :
               day \in LastTradingReference(c, p, rule)}

----------------------------------------------------------------------------
(* calculate_first_day_of_interest *)

AnnualMonth == [december |-> 12, november |-> 11]

\* Back by as many months as the product's rule has for the contract month.
Listing(p, rule) ==
    IF p.type = "MONTH" /\ MonthOf(p.first) \in DOMAIN rule.shifts
    THEN ShiftPeriod(p, -rule.shifts[MonthOf(p.first)]) ELSE {}

\* The period of the annual rule, in the year in which the listing period ends.
AnnualPeriod(listing, rule) ==
    UNION {PeriodOn(day, rule.type) :
               day \in {DayOf(YearOf(listing.last), AnnualMonth[rule.reference], 1)}}

InterestReference(c, p, rule, lastTrading) ==
    UNION {IF rule.reference \in DOMAIN AnnualMonth
           THEN UNION {LastTradingDay(c, q, lastTrading) : q \in AnnualPeriod(listing, rule)}
           ELSE IF rule.reference = "period" THEN {listing.last}
           ELSE {} : listing \in Listing(p, rule)}

FirstDayOfInterest(c, p, rule, lastTrading) ==
    UNION {RelativeBusinessDay(c, day, 1) :
               day \in InterestReference(c, p, rule, lastTrading)}

----------------------------------------------------------------------------
(* generate_futures_contracts *)

IsValidPeriod(product, p) ==
    /\ p.type \in product.types
    /\ p.type = "MONTH" => MonthOf(p.first) \in product.months

Contract(id, product, p) ==
    {[id |-> <<id, p.id>>, product |-> id, period |-> p, interest |-> i, expiry |-> e] :
        i \in FirstDayOfInterest(product.calendar, p, product.interest, product.lastTrading),
        e \in LastTradingDay(product.calendar, p, product.lastTrading)}

\* Of one product: of each eligible period the contract, or that it raises.
ContractsOf(document, ps) ==
    {Contract(document.id, document.product, p) :
        p \in {q \in ps : IsValidPeriod(document.product, q)}}

================================================================================
