---------------------------- MODULE TradingCalendar ----------------------------
(* Session arithmetic: trading_calendars/trading_calendar.py and the three     *)
(* nth_*_of_period.py.  The sessions themselves are the library's.  What may   *)
(* raise, because a date lies outside what the library covers or because there *)
(* is no such day, is a set: of the one result, or empty.                      *)
EXTENDS Periods, FiniteSets

CONSTANT Calendars   \* of each exchange: its first and its last session, the
                     \* days of the week it opens, the dates it stays closed

ASSUME CalendarsAssumption ==
    \A c \in DOMAIN Calendars : Calendars[c].first \in Day /\ Calendars[c].last \in Day

TradingDays ==
    [c \in DOMAIN Calendars |->
        {day \in Calendars[c].first..Calendars[c].last :
            Weekday(day) \in Calendars[c].open /\ day \notin Calendars[c].closed}]

\* The library's first and last session are sessions.
ASSUME BoundsAssumption ==
    \A c \in DOMAIN Calendars : {Calendars[c].first, Calendars[c].last} \subseteq TradingDays[c]

FirstSession(c) == Calendars[c].first
LastSession(c) == Calendars[c].last
Covered(c, day) == FirstSession(c) <= day /\ day <= LastSession(c)
IsSession(c, day) == day \in TradingDays[c]

SessionsIn(c, from, to) == {day \in from..to : IsSession(c, day)}

\* Of any four covered weeks an exchange is open on fifteen days: it closes at
\* weekends and for a week of holidays.
RegularCalendars ==
    \A c \in DOMAIN Calendars :
        \A day \in FirstSession(c)..LastSession(c) - 27 :
            Cardinality(SessionsIn(c, day, day + 27)) >= 15

----------------------------------------------------------------------------
(* get_nth_business_day_relative_to_date *)

\* get_last_prior_session_date: back from a covered day to the last session.
LastPriorSession(c, day) ==
    IF Covered(c, day)
    THEN {day - (CHOOSE k \in 0..day - FirstSession(c) :
                    IsSession(c, day - k) /\ SessionsIn(c, day - k + 1, day) = {})}
    ELSE {}

\* A session is so many sessions after another one, or before it.
IsShifted(c, session, n, day) ==
    /\ IsSession(c, day)
    /\ IF n >= 0
       THEN day >= session /\ Cardinality(SessionsIn(c, session + 1, day)) = n
       ELSE day < session /\ Cardinality(SessionsIn(c, day, session - 1)) = -n

\* session_offset: looked for from the session outwards.
SessionOffset(c, session, n) ==
    LET places == IF n >= 0 THEN 0..LastSession(c) - session
                  ELSE 1..session - FirstSession(c)
        At(k)  == IF n >= 0 THEN session + k ELSE session - k
    IN  IF \E k \in places : IsShifted(c, session, n, At(k))
        THEN {At(CHOOSE k \in places : IsShifted(c, session, n, At(k)))}
        ELSE {}

\* Faulty: the adjustment is forgotten and Friday is two business days before Saturday.
Unadjusted(c, day, n) == n

\* Moving back from a day that is no session to the last one before it is
\* already one business day of a move backwards.
Adjusted(c, day, n) == IF n < 0 /\ ~IsSession(c, day) THEN n + 1 ELSE n

RelativeBusinessDay(c, day, n) ==
    UNION {SessionOffset(c, session, Adjusted(c, day, n)) :
               session \in LastPriorSession(c, day)}

\* What is asked for: as many sessions lie between the two dates as n says.
Counted(c, day, n, result) ==
    /\ IsSession(c, result)
    /\ IF n > 0 THEN result > day /\ Cardinality(SessionsIn(c, day + 1, result)) = n
       ELSE IF n = 0 THEN result <= day /\ SessionsIn(c, result + 1, day) = {}
       ELSE result < day /\ Cardinality(SessionsIn(c, result, day - 1)) = -n

----------------------------------------------------------------------------
(* The n-th day of a period among those that count, as an index into a list   *)
(* takes it: [n - 1] for a positive n and [n] otherwise, so that the 0-th is   *)
(* the first.                                                                 *)

Nth(days, n) ==
    {day \in days :
        Cardinality({d \in days : d <= day}) =
            IF n > 0 THEN n ELSE IF n = 0 THEN 1 ELSE Cardinality(days) + n + 1}

NthBusinessDay(c, p, n) ==
    IF Covered(c, p.first) /\ Covered(c, p.last)
    THEN UNION {Nth(days, n) : days \in {SessionsIn(c, p.first, p.last)}} ELSE {}

NthCalendarDay(p, n) == UNION {Nth(days, n) : days \in {p.first..p.last}}

NthWeekday(p, weekday, n) ==
    UNION {Nth(days, n) : days \in {{day \in p.first..p.last : Weekday(day) = weekday}}}

================================================================================
