----------------------------- MODULE MCDesiredState -----------------------------
(* Calls of generate_periods around leap days, ends of years and of ISO years, *)
(* and at both ends of the calendar; builds and rebuilds from two commits of a *)
(* source tree, for horizons that two exchange calendars cover or do not.     *)
EXTENDS DesiredState, TLC

Materialised == <<"YEAR", "QUARTER", "MONTH">>
TypeLists == {Materialised, <<"WEEK">>, <<"MONTH", "WEEK">>, <<"WEEK", "DAY">>,
              <<"MONTH", "MONTH">>, <<>>}

\* A leap day; ends of years of 52 and of 53 weeks; a century; the first days
\* and the last ones.
LeapDay == {DayOf(2019, 12, 29), DayOf(2020, 2, 29), DayOf(2020, 3, 31)}
YearEnd == {DayOf(2020, 11, 30), DayOf(2020, 12, 31), DayOf(2021, 1, 3)}
Century == {DayOf(1899, 12, 31), DayOf(1900, 2, 28), DayOf(1900, 3, 1)}
Earliest == {DayOf(1, 1, 1), DayOf(1, 3, 31)}
Latest == {DayOf(9999, 9, 30), DayOf(9999, 11, 30), DayOf(9999, 12, 26),
           DayOf(9999, 12, 31)}

CallsOver(days) == [start : days, end : days, types : TypeLists, partial : BOOLEAN]
DirectCalls == UNION {CallsOver(days) : days \in {LeapDay, YearEnd, Century, Earliest, Latest}}

Horizon(start, end) ==
    [start |-> start, end |-> end, types |-> Materialised, partial |-> FALSE]

\* In turn: as much as the short calendar covers; too early and, by a day, too
\* late for it; into and from a leap day; the wrong way round.
MCHorizons ==
    {Horizon(DayOf(2019, 11, 15), DayOf(2020, 3, 31)),
     Horizon(DayOf(2019, 10, 10), DayOf(2019, 12, 31)),
     Horizon(DayOf(2019, 11, 15), DayOf(2020, 4, 1)),
     Horizon(DayOf(2019, 12, 2), DayOf(2020, 2, 29)),
     Horizon(DayOf(2020, 2, 29), DayOf(2020, 3, 31)),
     Horizon(DayOf(2020, 3, 31), DayOf(2019, 11, 15))}

MCCalls == DirectCalls \cup MCHorizons

\* Closed at weekends, at Christmas, New Year and Easter, and for some days.
Holidays ==
    {DayOf(y, m, d) : y \in 2017..2021, m \in {1, 12}, d \in {1, 25}}
        \cup {DayOf(2019, 4, 19), DayOf(2020, 4, 10), DayOf(2020, 2, 28)}
        \cup DayOf(2019, 11, 26)..DayOf(2019, 11, 29)
Calendar(first, last) ==
    [first |-> first, last |-> last, open |-> 0..4, closed |-> Holidays]

MCCalendars == [long  |-> Calendar(DayOf(2017, 9, 4), DayOf(2021, 7, 30)),
                short |-> Calendar(DayOf(2017, 11, 15), DayOf(2021, 3, 31))]

\* The four November days do not make them irregular.
ASSUME CalendarsAreRegular == RegularCalendars

Every(months, n) == [m \in months |-> n]
ListedBefore(months, n) ==
    [type |-> "MONTH", shifts |-> Every(months, n), reference |-> "period"]
AnnuallyListed(months, n, month) ==
    [type |-> "MONTH", shifts |-> Every(months, n), reference |-> month]
LastTrading(event, n, offset, days) ==
    [offset |-> offset, event |-> event, n |-> n, days |-> days, weekday |-> 2]

Document(id, calendar, months, lastTrading, interest) ==
    [id |-> id, parses |-> TRUE,
     product |-> [types |-> {"MONTH"}, months |-> months, calendar |-> calendar,
                  lastTrading |-> lastTrading, interest |-> interest]]

All == 1..12

\* Third last business day, listed two years before.
Gold == Document("gold", "short", All, LastTrading("business_day_of_period", -3, 0, 0),
                 ListedBefore(All, 24))
\* Business day before the 15th, listed after that of a December.
Corn == Document("corn", "long", {3, 5, 7, 9, 12},
                 LastTrading("calendar_day_of_period", 15, 0, -1),
                 AnnuallyListed(All, 13, "december"))
\* Three business days before the 25th of the month before; n = 0 is the first.
Oil == Document("oil", "short", All, LastTrading("calendar_day_of_period", 25, -1, -3),
                AnnuallyListed(All, 12, "november"))
Wheat == Document("wheat", "long", All, LastTrading("business_day_of_period", 0, 11, 2),
                  ListedBefore(All, 6))
\* Two business days before the third Wednesday.
Pound == Document("pound", "short", {3, 6, 9, 12}, LastTrading("weekday_of_period", 3, 0, -2),
                  ListedBefore({3, 6, 9, 12}, 12))
\* A fifth Wednesday, which most months do not have.
Fifth == Document("pound", "long", All, LastTrading("weekday_of_period", 5, 0, 0),
                  ListedBefore(All, 6))
\* Listed six years before: more than the calendar check looks back.
Early == Document("gold", "short", All, LastTrading("business_day_of_period", -3, 0, 0),
                  ListedBefore(All, 72))
\* Listed after its own last trading day.
Late == Document("late", "short", All, LastTrading("business_day_of_period", -3, 0, 0),
                 ListedBefore(All, 0))
\* No listing of some months; no such rule; contracts of quarters; no JSON.
Partial == Document("oil", "short", All, LastTrading("business_day_of_period", 1, 0, 0),
                    ListedBefore({2, 3}, 1))
Unlisted == [Early EXCEPT !.product.interest.reference = "october"]
Quarterly == [Gold EXCEPT !.product.types = {"MONTH", "QUARTER"}]
Broken == [Gold EXCEPT !.parses = FALSE]
NoWeekday == [Pound EXCEPT !.product.lastTrading.weekday = -1]

\* An exchange nobody knows.
Nowhere == [Corn EXCEPT !.product.calendar = "nowhere"]

Tree(a, b, c) == <<a, b, c>>

\* The second commit renames one file and adds a product under the old name; a
\* file of the third is no JSON.
MCCommits == [c1 |-> Tree(Gold, Corn, NoFile), c2 |-> Tree(Oil, Corn, Gold),
              c3 |-> Tree(Broken, Pound, Wheat)]
LateCommits == [c1 |-> Tree(Gold, Late, NoFile)]
NoDrafts == <<{}, {}, {}>>
LateHorizons == {Horizon(DayOf(2019, 11, 15), DayOf(2020, 3, 31))}
MCDrafts == <<{NoFile, Early, Quarterly, Broken}, {Fifth, NoWeekday, Nowhere}, {Late, Partial, Unlisted}>>
MCPath == 1..3
================================================================================
