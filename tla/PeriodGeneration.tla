---------------------------- MODULE PeriodGeneration ----------------------------
(* generate_periods: for each requested type, walk from the period of the     *)
(* first day to the period that follows, until the horizon ends.              *)
EXTENDS Periods, Sequences, FiniteSets

CONSTANTS
    Calls,     \* calls of generate_periods: [start, end, types, partial]
    NoPeriod   \* before the first period is constructed

ASSUME CallsAssumption ==
    \A c \in Calls : /\ c.start \in Day /\ c.end \in Day
                     /\ c.types \in Seq(PeriodType)
                     /\ c.partial \in BOOLEAN

VARIABLES
    call,      \* the arguments
    phase,     \* "called", "type" (before the walk of a type), "walk",
               \* "returned", "raised", "over" (the caller has the result)
    turn,      \* the requested type whose turn it is
    current,   \* the loop variable current_period
    periods    \* what has been generated

vars == <<call, phase, turn, current, periods>>

Init ==
    /\ call \in Calls
    /\ phase = "called"
    /\ turn = 1
    /\ current = NoPeriod
    /\ periods = <<>>

----------------------------------------------------------------------------

Acceptable(c) ==
    /\ c.start <= c.end
    /\ c.types # <<>>
    /\ \A i, j \in DOMAIN c.types : c.types[i] = c.types[j] => i = j

CheckCall ==
    /\ phase = "called"
    /\ phase' = IF Acceptable(call) THEN "type" ELSE "raised"
    /\ UNCHANGED <<call, turn, current, periods>>

\* period_containing(day, type) becomes the current period, or it raises.
MoveTo(day, type) ==
    IF day \in Day /\ Constructible(day, type)
    THEN phase' = "walk" /\ current' = PeriodContaining(day, type)
    ELSE phase' = "raised" /\ current' = current

BeginType ==
    /\ phase = "type"
    /\ turn \in DOMAIN call.types
    /\ MoveTo(call.start, call.types[turn])
    /\ UNCHANGED <<call, turn, periods>>

\* Faulty: a period that ends with the horizon is not complete.
BeforeHorizonEnds(p) == p.first <= call.end /\ (p.last < call.end \/ call.partial)

\* The period does not end after the horizon, or may.
InHorizon(p) == p.first <= call.end /\ (p.last <= call.end \/ call.partial)

FollowingDay(p) == p.last + 1

Emit ==
    /\ phase = "walk"
    /\ InHorizon(current)
    /\ periods' = Append(periods, current)
    /\ MoveTo(FollowingDay(current), call.types[turn])
    /\ UNCHANGED <<call, turn>>

\* Faulty: the next type goes on from the period of the one before.
EndTypeInPlace ==
    /\ phase = "walk"
    /\ ~InHorizon(current)
    /\ turn' = turn + 1
    /\ UNCHANGED <<call, phase, current, periods>>

EndType ==
    /\ phase = "walk"
    /\ ~InHorizon(current)
    /\ phase' = "type"
    /\ turn' = turn + 1
    /\ UNCHANGED <<call, current, periods>>

ReturnPeriods ==
    /\ phase = "type"
    /\ turn = Len(call.types) + 1
    /\ phase' = "returned"
    /\ UNCHANGED <<call, turn, current, periods>>

\* A step of the caller.
Take ==
    /\ phase \in {"returned", "raised"}
    /\ phase' = "over"
    /\ UNCHANGED <<call, turn, current, periods>>

Next == CheckCall \/ BeginType \/ Emit \/ EndType \/ ReturnPeriods

Spec == Init /\ [][Next]_vars

----------------------------------------------------------------------------
(* Properties *)

Emitted == {periods[i] : i \in DOMAIN periods}

TypeOK ==
    /\ call \in Calls
    /\ phase \in {"called", "type", "walk", "returned", "raised", "over"}
    /\ turn \in 1..Len(call.types) + 1
    /\ phase \in {"type", "walk", "returned"} => Acceptable(call)
    /\ phase = "walk" =>
         /\ turn \in DOMAIN call.types
         /\ call.types[turn] \in Supported
         /\ current.first \in Day
         /\ current = PeriodContaining(current.first, call.types[turn])
    /\ periods \in Seq(Emitted)
    /\ \A p \in Emitted : p.first \in Day

Finished == phase \in {"returned", "raised"}

\* A returned list has, once each, the periods of the requested types around the
\* days of the horizon, without those that end after it unless partial ones were
\* asked for: none is lost where years, months and weeks do not end together,
\* none lies outside (generation/periods.py:74-91).
Touching == {PeriodContaining(day, call.types[k]) :
                k \in DOMAIN call.types, day \in call.start..call.end}
NoDayIsLost ==
    phase = "returned" =>
        /\ Emitted = {p \in Touching : p.last <= call.end \/ call.partial}
        /\ \A i, j \in DOMAIN periods : periods[i] = periods[j] => i = j

\* The id of a generated period is recognised and names that period again, in
\* the years whose ids have four digits (generation/periods.py:313-330).
IdsNameTheirPeriods ==
    Finished => \A i \in DOMAIN periods :
        LET p == periods[i]
        IN  p.id[2] >= 1000 => PeriodFromId(p.id) = {p}

\* Shifting goes from any generated period to any other of its type, forwards
\* and backwards, over ends of years: the two ways to reach the next period
\* agree (generation/periods.py:94-175 and 74-89).
ShiftsFollowGeneration ==
    phase = "returned" =>
        \A i, j \in DOMAIN periods :
            periods[i].type = periods[j].type =>
                ShiftPeriod(periods[i], j - i) = {periods[j]}

================================================================================
