------------------------ MODULE PeriodGenerationProofs ------------------------
(* generate_periods() returns the periods of its horizon, for every horizon,   *)
(* every list of types and whoever takes its result.                          *)
EXTENDS PeriodGeneration, PeriodsProofs

AnyStep == Next \/ Take

----------------------------------------------------------------------------
(* One period after another *)

\* The day after a period is the first day of the next one
\* (generation/periods.py:86-89).
LEMMA NextBegins ==
  ASSUME NEW d \in Int, d >= 1, NEW type \in Supported
  PROVE  PeriodContaining(PeriodContaining(d, type).last + 1, type).first
            = PeriodContaining(d, type).last + 1
<1>1. PICK l \in Int : l = PeriodContaining(d, type).last /\ l >= d
  BY PeriodHolds
<1>2. PICK f \in Int, m \in Int :
        /\ f = PeriodContaining(l + 1, type).first /\ f <= l + 1
        /\ m = PeriodContaining(l + 1, type).last /\ l + 1 <= m /\ 1 <= f
  BY <1>1, PeriodHolds
<1>3. ~ (f <= l)
  <2>1. SUFFICES ASSUME f <= l PROVE FALSE
    OBVIOUS
  <2>2. PeriodContaining(l, type) = PeriodContaining(l + 1, type)
    BY <1>1, <1>2, <2>1, PeriodOfMember
  <2>3. PeriodContaining(l, type) = PeriodContaining(d, type)
    BY <1>1, PeriodHolds, PeriodOfMember
  <2> QED BY <1>1, <1>2, <2>2, <2>3
<1> QED BY <1>1, <1>2, <1>3

\* Only what is supported is constructed (generation/periods.py:178-198).
LEMMA ConstructibleIsSupported ==
  ASSUME NEW d, NEW type \in PeriodType, Constructible(d, type)
  PROVE  type \in Supported
BY DEF Constructible, PeriodType, Supported

\* The loop variable is the period that contains its first day
\* (generation/periods.py:77, 89).
LEMMA MovedTo ==
  ASSUME NEW day, NEW type \in PeriodType, MoveTo(day, type), phase' = "walk"
  PROVE  /\ day \in Day
         /\ type \in Supported
         /\ current' = PeriodContaining(day, type)
         /\ current'.first \in Day
         /\ current' = PeriodContaining(current'.first, type)
         /\ current'.first <= day /\ day <= current'.last /\ current'.last \in Int
<1>1. day \in Day /\ Constructible(day, type) /\ current' = PeriodContaining(day, type)
  BY DEF MoveTo
<1>2. type \in Supported
  BY <1>1, ConstructibleIsSupported
<1>3. PICK f \in Int : f = current'.first
  BY <1>1, <1>2, PeriodHolds DEF Day
<1>4. LastDay \in Int /\ day \in Int /\ day >= 1 /\ day <= LastDay
  BY <1>1, YearsGrow DEF Day, LastDay, MaxYear
<1>5. /\ current'.last \in Int /\ 1 <= f /\ f <= day /\ day <= current'.last
  BY <1>1, <1>2, <1>3, <1>4, PeriodHolds
<1>6. f \in Day
  BY <1>4, <1>5 DEF Day
<1>7. PeriodContaining(f, type) = PeriodContaining(day, type)
  BY <1>1, <1>2, <1>3, <1>4, <1>5, PeriodOfMember
<1> QED BY <1>1, <1>2, <1>3, <1>5, <1>6, <1>7

----------------------------------------------------------------------------
(* Types *)

\* The arguments are those of some call (CallsAssumption).
LEMMA CallIsTyped ==
  ASSUME call \in Calls
  PROVE  /\ call.start \in Day /\ call.end \in Day
         /\ call.start \in Int /\ call.end \in Int /\ call.start >= 1
         /\ call.types \in Seq(PeriodType)
         /\ call.partial \in BOOLEAN
<1>1. LastDay \in Int
  BY YearsGrow DEF LastDay, MaxYear
<1> QED BY <1>1, CallsAssumption DEF Day

\* A period that is appended is one more that has been generated.
LEMMA EmittedGrows ==
  ASSUME periods \in Seq(Emitted), NEW p, periods' = Append(periods, p)
  PROVE  /\ Emitted' = Emitted \cup {p}
         /\ periods' \in Seq(Emitted')
         /\ Len(periods') = Len(periods) + 1
         /\ periods'[Len(periods')] = p
         /\ \A i \in DOMAIN periods : periods'[i] = periods[i]
<1>1. periods \in Seq(Emitted \cup {p})
  OBVIOUS
<1>2. /\ periods' \in Seq(Emitted \cup {p})
      /\ Len(periods') = Len(periods) + 1
      /\ periods'[Len(periods')] = p
      /\ \A i \in 1..Len(periods) : periods'[i] = periods[i]
      /\ DOMAIN periods = 1..Len(periods)
      /\ DOMAIN periods' = 1..Len(periods) + 1
      /\ Len(periods) \in Nat
  BY <1>1
<1>3. Emitted' = Emitted \cup {p}
  BY <1>2 DEF Emitted
<1> QED BY <1>2, <1>3

\* Each step of generate_periods, and of its caller, preserves the types.
LEMMA TypeStep ==
  ASSUME TypeOK, [AnyStep]_vars
  PROVE  TypeOK'
<1> USE CallIsTyped DEF TypeOK
<1>1. CASE CheckCall
  BY <1>1 DEF CheckCall, Emitted
<1>2. CASE BeginType
  <2>1. call.types[turn] \in PeriodType
    BY <1>2 DEF BeginType
  <2>2. phase' \in {"walk", "raised"}
    BY <1>2 DEF BeginType, MoveTo
  <2>3. periods' \in Seq(Emitted') /\ \A p \in Emitted' : p.first \in Day
    BY <1>2 DEF BeginType, Emitted
  <2>4. CASE phase' = "walk"
    BY <1>2, <2>1, <2>3, <2>4, MovedTo DEF BeginType
  <2>5. CASE phase' = "raised"
    BY <1>2, <2>3, <2>5 DEF BeginType
  <2> QED BY <2>2, <2>4, <2>5
<1>3. CASE Emit
  <2>1. call.types[turn] \in PeriodType
    BY <1>3 DEF Emit
  <2>2. phase' \in {"walk", "raised"}
    BY <1>3 DEF Emit, MoveTo
  <2>3. periods' \in Seq(Emitted') /\ \A p \in Emitted' : p.first \in Day
    BY <1>3, EmittedGrows DEF Emit
  <2>4. CASE phase' = "walk"
    BY <1>3, <2>1, <2>3, <2>4, MovedTo DEF Emit
  <2>5. CASE phase' = "raised"
    BY <1>3, <2>3, <2>5 DEF Emit
  <2> QED BY <2>2, <2>4, <2>5
<1>4. CASE EndType
  BY <1>4 DEF EndType, Emitted
<1>5. CASE ReturnPeriods
  BY <1>5 DEF ReturnPeriods, Emitted
<1>6. CASE Take
  BY <1>6 DEF Take, Emitted
<1>7. CASE UNCHANGED vars
  BY <1>7 DEF vars, Acceptable, Emitted
<1> QED BY <1>1, <1>2, <1>3, <1>4, <1>5, <1>6, <1>7 DEF AnyStep, Next

\* The type invariant of generate_periods (generation/periods.py:22-91).
LEMMA TypeStart == ASSUME Init PROVE TypeOK
BY CallIsTyped DEF Init, TypeOK, Emitted

----------------------------------------------------------------------------
(* What has been listed at each moment *)

\* The periods due for a type, and those before a day.
Due(k) == {p \in {PeriodContaining(day, call.types[k]) : day \in call.start..call.end} :
              p.last <= call.end \/ call.partial}
Walked(k, first) == {PeriodContaining(day, call.types[k]) :
                        day \in {d \in call.start..call.end : d < first}}

\* The types before the current one are complete; of the current one everything
\* before the current period is listed and was due; nothing is listed twice.
Progress ==
    /\ phase = "called" => periods = <<>> /\ turn = 1
    /\ phase \in {"type", "walk", "returned"} =>
         /\ \A k \in 1..turn - 1 : k \in DOMAIN call.types /\ call.types[k] \in Supported
         /\ \A i, j \in DOMAIN periods : periods[i] = periods[j] => i = j
    /\ phase \in {"type", "returned"} =>
         Emitted = UNION {Due(k) : k \in 1..turn - 1}
    /\ phase = "returned" => turn = Len(call.types) + 1
    /\ phase = "walk" =>
         /\ Emitted = (UNION {Due(k) : k \in 1..turn - 1}) \cup Walked(turn, current.first)
         /\ \A p \in Walked(turn, current.first) : p.last <= call.end \/ call.partial
         /\ call.start <= current.last

IInv == TypeOK /\ Progress

\* What is due for another type is of that type.
LEMMA DueHasType ==
  ASSUME NEW k, call.types[k] \in Supported, NEW p \in Due(k)
  PROVE  p.type = call.types[k]
BY PeriodHasType DEF Due

\* A period that is walked past is not the current one (generation/periods.py:86-89).
LEMMA CurrentIsNew ==
  ASSUME IInv, phase = "walk"
  PROVE  current \notin Emitted
<1> USE CallIsTyped DEF IInv, TypeOK, Progress
<1>1. PICK type \in Supported : type = call.types[turn] /\ current = PeriodContaining(current.first, type)
  OBVIOUS
<1>2. current.type = type
  BY <1>1, PeriodHasType
<1>3. ASSUME NEW k \in 1..turn - 1, current \in Due(k) PROVE FALSE
  <2>1. call.types[k] = type
    BY <1>2, <1>3, DueHasType
  <2> QED BY <1>1, <2>1 DEF Acceptable
<1>4. ASSUME current \in Walked(turn, current.first) PROVE FALSE
  <2>1. PICK d \in call.start..call.end : d < current.first /\ current = PeriodContaining(d, type)
    BY <1>1, <1>4 DEF Walked
  <2>2. d \in Int /\ d >= 1
    BY <2>1
  <2>3. PeriodContaining(d, type).first \in Int /\ PeriodContaining(d, type).first <= d
    BY <2>2, PeriodHolds
  <2>4. current.first \in Int /\ current.first <= d
    BY <2>1, <2>3
  <2> QED BY <2>1, <2>2, <2>4
<1>5. Emitted = (UNION {Due(k) : k \in 1..turn - 1}) \cup Walked(turn, current.first)
  OBVIOUS
<1> HIDE DEF IInv, TypeOK, Progress
<1> QED BY <1>3, <1>4, <1>5

----------------------------------------------------------------------------
(* The steps *)

\* Of a type whose walk begins nothing is listed (generation/periods.py:77).
LEMMA ProgressOfBegin ==
  ASSUME IInv, BeginType
  PROVE  Progress'
<1> USE CallIsTyped DEF IInv, TypeOK, Progress, BeginType
<1>1. Emitted' = Emitted /\ \A k : Due(k)' = Due(k)
  BY DEF Emitted, Due
<1>2. CASE phase' = "walk"
  <2>1. /\ current'.first <= call.start /\ call.start <= current'.last
        /\ current'.first \in Int
    BY <1>2, MovedTo DEF Day
  <2>2. Walked(turn, current.first)' = {}
    <3>1. {d \in call.start..call.end : d < current'.first} = {}
      BY <2>1
    <3> QED BY <3>1 DEF Walked
  <2> QED BY <1>1, <1>2, <2>1, <2>2
<1>3. CASE phase' = "raised"
  BY <1>3
<1> QED BY <1>2, <1>3 DEF MoveTo

\* The period that is listed was due, and is listed for the first time; with it
\* everything before the period that follows is listed (generation/periods.py:80-89).
LEMMA ProgressOfEmit ==
  ASSUME IInv, Emit
  PROVE  Progress'
<1> USE CallIsTyped DEF IInv, TypeOK, Progress, Emit
<1>1. PICK type \in Supported :
        type = call.types[turn] /\ current = PeriodContaining(current.first, type)
  OBVIOUS
<1>2. PICK f \in Int, l \in Int : f = current.first /\ l = current.last /\ 1 <= f /\ f <= l
  BY <1>1, PeriodHolds DEF Day
<1>3. call.start <= l /\ f <= call.end /\ call.start <= call.end
  BY <1>2 DEF InHorizon, Acceptable
<1>4. /\ Emitted' = Emitted \cup {current}
      /\ \A i, j \in DOMAIN periods' : periods'[i] = periods'[j] => i = j
  <2>1. Emitted' = Emitted \cup {current}
    BY EmittedGrows
  <2>2. current \notin Emitted
    BY CurrentIsNew
  <2>3. /\ Len(periods') = Len(periods) + 1 /\ periods'[Len(periods')] = current
        /\ \A i \in DOMAIN periods : periods'[i] = periods[i] /\ periods[i] # current
        /\ DOMAIN periods' = 1..Len(periods) + 1 /\ DOMAIN periods = 1..Len(periods)
        /\ Len(periods) \in Nat
    BY <2>2, EmittedGrows DEF Emitted
  <2>4. ASSUME NEW i \in DOMAIN periods', NEW j \in DOMAIN periods', periods'[i] = periods'[j]
        PROVE  i = j
    <3>1. CASE i = Len(periods) + 1 /\ j \in DOMAIN periods
      BY <2>3, <2>4, <3>1
    <3>2. CASE j = Len(periods) + 1 /\ i \in DOMAIN periods
      BY <2>3, <2>4, <3>2
    <3>3. CASE i \in DOMAIN periods /\ j \in DOMAIN periods
      BY <2>3, <2>4, <3>3
    <3> QED BY <2>3, <3>1, <3>2, <3>3
  <2> QED BY <2>1, <2>4
<1>5. \A k : Due(k)' = Due(k)
  BY DEF Due
<1>6. CASE phase' = "walk"
  <2>1. current'.first = l + 1 /\ call.start <= current'.last /\ current'.last \in Int
    <3>1. current' = PeriodContaining(l + 1, type) /\ l + 1 <= current'.last /\ current'.last \in Int
      BY <1>1, <1>2, <1>6, MovedTo DEF FollowingDay
    <3>2. PeriodContaining(l + 1, type).first = l + 1
      BY <1>1, <1>2, NextBegins
    <3>3. current'.first = l + 1
      BY <3>1, <3>2
    <3>4. \A a, b, x \in Int : a <= b /\ b + 1 <= x => a <= x
      OBVIOUS
    <3> QED BY <1>2, <1>3, <3>1, <3>3, <3>4
  <2>2. Walked(turn, l + 1) = Walked(turn, f) \cup {current}
    <3>1. ASSUME NEW d \in call.start..call.end, f <= d, d <= l
          PROVE  PeriodContaining(d, type) = current
      BY <1>1, <1>2, <3>1, PeriodOfMember
    <3>2. \E d \in call.start..call.end : f <= d /\ d <= l
      <4>1. CASE f <= call.start
        BY <1>2, <1>3, <4>1
      <4>2. CASE call.start <= f
        BY <1>2, <1>3, <4>2
      <4> QED BY <1>2, <4>1, <4>2
    <3>3. current \in Walked(turn, l + 1)
      BY <1>1, <1>2, <3>1, <3>2 DEF Walked
    <3>4. ASSUME NEW p \in Walked(turn, f) PROVE p \in Walked(turn, l + 1)
      <4>1. PICK d \in call.start..call.end : d < f /\ p = PeriodContaining(d, type)
        BY <1>1 DEF Walked
      <4>2. d < l + 1
        BY <1>2, <4>1
      <4> QED BY <1>1, <4>1, <4>2 DEF Walked
    <3>5. ASSUME NEW p \in Walked(turn, l + 1) PROVE p \in Walked(turn, f) \cup {current}
      <4>1. PICK d \in call.start..call.end : d < l + 1 /\ p = PeriodContaining(d, type)
        BY <1>1 DEF Walked
      <4>2. CASE d < f
        BY <1>1, <4>1, <4>2 DEF Walked
      <4>3. CASE f <= d
        BY <1>2, <3>1, <4>1, <4>3
      <4> QED BY <1>2, <4>1, <4>2, <4>3
    <3> QED BY <3>3, <3>4, <3>5
  <2>3. Walked(turn, current.first)' = Walked(turn, l + 1)
    BY <2>1 DEF Walked
  <2>4. current.last <= call.end \/ call.partial
    BY DEF InHorizon
  <2>5. Emitted = (UNION {Due(k) : k \in 1..turn - 1}) \cup Walked(turn, f)
    BY <1>2
  <2>6. Emitted' = (UNION {Due(k)' : k \in 1..turn - 1}) \cup Walked(turn, current.first)'
    BY <1>4, <1>5, <2>2, <2>3, <2>5
  <2>7. \A p \in Walked(turn, current.first)' : p.last <= call.end \/ call.partial
    BY <1>2, <2>2, <2>3, <2>4
  <2>8. \A k \in 1..turn - 1 : k \in DOMAIN call.types /\ call.types[k] \in Supported
    OBVIOUS
  <2>9. UNCHANGED <<call, turn>>
    OBVIOUS
  <2> HIDE DEF IInv, TypeOK, Emit
  <2> QED BY <1>4, <1>6, <2>1, <2>6, <2>7, <2>8, <2>9
<1>7. CASE phase' = "raised"
  BY <1>7
<1> QED BY <1>6, <1>7 DEF MoveTo

\* A walk ends when everything due for its type is listed
\* (generation/periods.py:80-84).
LEMMA ProgressOfEnd ==
  ASSUME IInv, EndType
  PROVE  Progress'
<1> USE CallIsTyped DEF IInv, TypeOK, Progress, EndType
<1>1. PICK type \in Supported :
        type = call.types[turn] /\ current = PeriodContaining(current.first, type)
  OBVIOUS
<1>2. PICK f \in Int, l \in Int : f = current.first /\ l = current.last /\ 1 <= f /\ f <= l
  BY <1>1, PeriodHolds DEF Day
<1>3. Walked(turn, f) = Due(turn)
  <2>1. ASSUME NEW p \in Walked(turn, f) PROVE p \in Due(turn)
    BY <1>2, <2>1 DEF Walked, Due
  <2>2. ASSUME NEW p \in Due(turn) PROVE p \in Walked(turn, f)
    <3>1. PICK d \in call.start..call.end :
            p = PeriodContaining(d, type) /\ (p.last <= call.end \/ call.partial)
      BY <1>1, <2>2 DEF Due
    <3>2. d < f
      <4>1. SUFFICES ASSUME f <= d PROVE FALSE
        BY <1>2, <3>1
      <4>2. l > call.end /\ ~call.partial
        BY <1>2, <4>1 DEF InHorizon
      <4>3. p = current
        BY <1>1, <1>2, <3>1, <4>1, <4>2, PeriodOfMember
      <4> QED BY <1>2, <3>1, <4>2, <4>3
    <3> QED BY <1>1, <3>1, <3>2 DEF Walked
  <2> QED BY <2>1, <2>2
<1>4. Emitted' = Emitted /\ \A k : Due(k)' = Due(k)
  BY DEF Emitted, Due
<1>5. Emitted = (UNION {Due(k) : k \in 1..turn - 1}) \cup Due(turn)
  BY <1>2, <1>3
<1>6. turn \in Nat /\ turn >= 1 /\ turn' = turn + 1
  OBVIOUS
<1>7. \A k \in 1..turn : k \in DOMAIN call.types /\ call.types[k] \in Supported
  OBVIOUS
<1>8. \A i, j \in DOMAIN periods : periods[i] = periods[j] => i = j
  OBVIOUS
<1>9. phase' = "type" /\ UNCHANGED <<call, periods>>
  OBVIOUS
<1> HIDE DEF IInv, TypeOK, EndType, Progress
<1>10. 1..turn' - 1 = (1..turn - 1) \cup {turn}
  BY <1>6
<1>11. Emitted' = UNION {Due(k)' : k \in 1..turn' - 1}
  BY <1>4, <1>5, <1>10
<1> QED BY <1>6, <1>7, <1>8, <1>9, <1>11 DEF Progress

\* Every step keeps what is listed complete.
LEMMA ProgressStep ==
  ASSUME IInv, [AnyStep]_vars
  PROVE  Progress'
<1>1. CASE CheckCall
  <2>1. periods = <<>> /\ periods' = <<>> /\ turn = 1 /\ turn' = 1
        /\ phase' \in {"type", "raised"}
    BY <1>1 DEF CheckCall, IInv, Progress
  <2>2. Emitted' = {} /\ 1..turn' - 1 = {} /\ DOMAIN periods' = {}
    BY <2>1 DEF Emitted
  <2> QED BY <2>1, <2>2 DEF Progress
<1>2. CASE BeginType
  BY <1>2, ProgressOfBegin
<1>3. CASE Emit
  BY <1>3, ProgressOfEmit
<1>4. CASE EndType
  BY <1>4, ProgressOfEnd
<1>5. CASE ReturnPeriods
  <2>1. Emitted' = Emitted /\ \A k : Due(k)' = Due(k)
    BY <1>5 DEF ReturnPeriods, Emitted, Due
  <2>2. phase = "type" /\ phase' = "returned" /\ UNCHANGED <<call, turn, current, periods>>
        /\ turn = Len(call.types) + 1
    BY <1>5 DEF ReturnPeriods
  <2> QED BY <2>1, <2>2 DEF IInv, Progress
<1>6. CASE Take
  BY <1>6 DEF Take, Progress
<1>7. CASE UNCHANGED vars
  <2>1. /\ Emitted' = Emitted
        /\ \A k : Due(k)' = Due(k)
        /\ Walked(turn, current.first)' = Walked(turn, current.first)
    BY <1>7 DEF vars, Emitted, Due, Walked
  <2> QED BY <1>7, <2>1 DEF vars, IInv, Progress
<1> QED BY <1>1, <1>2, <1>3, <1>4, <1>5, <1>6, <1>7 DEF AnyStep, Next

\* A call begins with nothing listed.
LEMMA ProgressStart == ASSUME Init PROVE Progress
BY DEF Init, Progress

\* What is complete when the last type is done is what was asked for
\* (generation/periods.py:74-91).
LEMMA CompleteIsNoDayLost ==
  ASSUME IInv
  PROVE  NoDayIsLost
<1> SUFFICES ASSUME phase = "returned" PROVE NoDayIsLost
  BY DEF NoDayIsLost
<1>1. /\ Emitted = UNION {Due(k) : k \in 1..turn - 1}
      /\ turn = Len(call.types) + 1
      /\ \A i, j \in DOMAIN periods : periods[i] = periods[j] => i = j
  BY DEF IInv, Progress
<1>2. 1..turn - 1 = DOMAIN call.types
  <2>1. call.types \in Seq(PeriodType)
    BY CallIsTyped DEF IInv, TypeOK
  <2> QED BY <1>1, <2>1
<1>3. ASSUME NEW p
      PROVE  p \in Emitted <=> p \in {q \in Touching : q.last <= call.end \/ call.partial}
  <2>1. p \in Emitted <=> \E k \in DOMAIN call.types : p \in Due(k)
    BY <1>1, <1>2
  <2>2. ASSUME NEW k \in DOMAIN call.types
        PROVE  p \in Due(k) <=>
                   /\ \E day \in call.start..call.end : p = PeriodContaining(day, call.types[k])
                   /\ p.last <= call.end \/ call.partial
    BY DEF Due
  <2> QED BY <2>1, <2>2 DEF Touching
<1> QED BY <1>1, <1>3 DEF NoDayIsLost

----------------------------------------------------------------------------
(* Each period of the list, and its place *)

\* A period of the calendar: that of its own first day.
IsPeriod(p) ==
    /\ p.type \in Supported
    /\ p.first \in Day
    /\ p = PeriodContaining(p.first, p.type)
    /\ Constructible(p.first, p.type)

PlaceOf(p) == Place(p.type, p.first)

\* What is listed are periods.  Those of one type stand in the list as they
\* stand in the calendar, up to the current one; of the types whose turn is
\* still to come there are none.
Placed ==
    /\ \A i \in DOMAIN periods : IsPeriod(periods[i])
    /\ phase = "walk" => IsPeriod(current) /\ current.type = call.types[turn]
    /\ \A i, j \in DOMAIN periods :
            periods[i].type = periods[j].type =>
                PlaceOf(periods[j]) - PlaceOf(periods[i]) = j - i
    /\ phase = "walk" =>
            \A i \in DOMAIN periods : periods[i].type = current.type =>
                PlaceOf(current) - PlaceOf(periods[i]) = Len(periods) + 1 - i

LEMMA PeriodsAreDays ==
  ASSUME NEW p, IsPeriod(p)
  PROVE  /\ p.first \in Int /\ p.first >= 1 /\ p.first <= LastDay /\ LastDay \in Int
         /\ PlaceOf(p) \in Int
         /\ p.first = StartOf(p.type, PlaceOf(p))
         /\ p.last \in Int /\ p.first <= p.last
         /\ p.last + 1 = StartOf(p.type, PlaceOf(p) + 1)
<1>1. LastDay \in Int
  BY YearsGrow DEF LastDay, MaxYear
<1>2. p.first \in Int /\ p.first >= 1 /\ p.first <= LastDay
  BY <1>1 DEF IsPeriod, Day
<1> QED BY <1>1, <1>2, PeriodHasPlace, PeriodHolds DEF IsPeriod, PlaceOf

\* What MoveTo constructs is a period.
LEMMA MovedToPeriod ==
  ASSUME NEW day, NEW type \in PeriodType, MoveTo(day, type), phase' = "walk"
  PROVE  IsPeriod(current') /\ current'.type = type
<1>1. Constructible(day, type) /\ day \in Day
  BY DEF MoveTo
<1>2. /\ type \in Supported
      /\ current' = PeriodContaining(day, type)
      /\ current'.first \in Day
      /\ current' = PeriodContaining(current'.first, type)
  BY MovedTo
<1>3. current'.type = type
  BY <1>2, PeriodHasType
<1>4. day \in Int /\ day >= 1 /\ current'.first \in Int /\ current'.first >= 1
  <2>1. LastDay \in Int
    BY YearsGrow DEF LastDay, MaxYear
  <2> QED BY <1>1, <1>2, <2>1 DEF Day
<1>5. Constructible(current'.first, type)
  BY <1>1, <1>2, <1>4, ConstructibleOfPeriod
<1> QED BY <1>2, <1>3, <1>5 DEF IsPeriod

\* The period after the current one is at the next place.
LEMMA NextPlace ==
  ASSUME NEW p, IsPeriod(p), NEW q, IsPeriod(q), q.type = p.type, q.first = p.last + 1
  PROVE  PlaceOf(q) = PlaceOf(p) + 1
<1>1. p.type \in Supported
  BY DEF IsPeriod
<1>2. /\ PlaceOf(p) \in Int
      /\ StartOf(p.type, PlaceOf(p) + 1) = q.first /\ q.first \in Int /\ q.first >= 1
  BY PeriodsAreDays
<1>3. Place(p.type, StartOf(p.type, PlaceOf(p) + 1)) = PlaceOf(p) + 1
  BY <1>1, <1>2, PlaceOfStart
<1> QED BY <1>2, <1>3 DEF PlaceOf

\* No period of a type is listed before the walk of that type
\* (generation/periods.py:74-77).
LEMMA NoneIsListedBefore ==
  ASSUME IInv, BeginType, NEW i \in DOMAIN periods
  PROVE  periods[i].type # call.types[turn]
<1>1. /\ Emitted = UNION {Due(k) : k \in 1..turn - 1}
      /\ \A k \in 1..turn - 1 : k \in DOMAIN call.types /\ call.types[k] \in Supported
      /\ turn \in DOMAIN call.types /\ Acceptable(call)
  BY DEF IInv, TypeOK, Progress, BeginType
<1>2. PICK k \in 1..turn - 1 : periods[i] \in Due(k)
  BY <1>1 DEF Emitted
<1>3. periods[i].type = call.types[k]
  BY <1>1, <1>2, DueHasType
<1>4. k # turn
  <2>1. turn \in Int
    BY CallIsTyped DEF IInv, TypeOK
  <2> QED BY <1>2, <2>1
<1> QED BY <1>1, <1>2, <1>3, <1>4 DEF Acceptable

LEMMA PlacedStart == ASSUME Init PROVE Placed
BY DEF Init, Placed

LEMMA PlacedStep ==
  ASSUME IInv, Placed, [AnyStep]_vars
  PROVE  Placed'
<1>1. ASSUME UNCHANGED <<call, turn, current, periods>>, phase' # "walk"
      PROVE  Placed'
  BY <1>1 DEF Placed
<1>2. CASE CheckCall \/ EndType \/ ReturnPeriods \/ Take
  <2>1. CASE CheckCall \/ ReturnPeriods \/ Take
    BY <1>1, <2>1 DEF CheckCall, ReturnPeriods, Take
  <2>2. CASE EndType
    BY <2>2 DEF EndType, Placed
  <2> QED BY <1>2, <2>1, <2>2
<1>3. CASE BeginType
  <2>1. call.types[turn] \in PeriodType
    BY <1>3, CallIsTyped DEF BeginType, IInv, TypeOK
  <2>2. CASE phase' = "walk"
    <3>1. IsPeriod(current') /\ current'.type = call.types[turn]
      BY <1>3, <2>1, <2>2, MovedToPeriod DEF BeginType
    <3>2. \A i \in DOMAIN periods : periods[i].type # current'.type
      BY <1>3, <3>1, NoneIsListedBefore
    <3> QED BY <1>3, <2>2, <3>1, <3>2 DEF BeginType, Placed
  <2>3. CASE phase' # "walk"
    BY <1>3, <2>3 DEF BeginType, Placed
  <2> QED BY <2>2, <2>3
<1>4. CASE Emit
  <2>1. /\ call.types[turn] \in PeriodType /\ IsPeriod(current)
        /\ current.type = call.types[turn]
        /\ UNCHANGED <<call, turn>>
    BY <1>4, CallIsTyped DEF Emit, IInv, TypeOK, Placed
  <2>2. PICK n \in Nat : /\ n = Len(periods)
                         /\ DOMAIN periods = 1..n /\ DOMAIN periods' = 1..n + 1
                         /\ periods'[n + 1] = current
                         /\ \A i \in 1..n : periods'[i] = periods[i]
    <3>1. periods \in Seq(Emitted) /\ periods' = Append(periods, current)
      BY <1>4 DEF IInv, TypeOK, Emit
    <3> QED BY <3>1, EmittedGrows
  <2>3. \A i \in DOMAIN periods' : IsPeriod(periods'[i])
    BY <2>1, <2>2 DEF Placed
  <2>4. \A i \in 1..n : PlaceOf(periods[i]) \in Int
    BY <2>2, PeriodsAreDays DEF Placed
  <2>5. PlaceOf(current) \in Int
    BY <2>1, PeriodsAreDays
  <2>6. \A i \in 1..n : periods[i].type = current.type =>
                            PlaceOf(current) - PlaceOf(periods[i]) = n + 1 - i
    BY <1>4, <2>2 DEF Placed, Emit
  <2>7. ASSUME NEW i \in DOMAIN periods', NEW j \in DOMAIN periods',
               periods'[i].type = periods'[j].type
        PROVE  PlaceOf(periods'[j]) - PlaceOf(periods'[i]) = j - i
    <3>1. CASE i \in 1..n /\ j \in 1..n
      BY <2>2, <2>7, <3>1 DEF Placed
    <3>2. CASE i = n + 1 /\ j \in 1..n
      BY <2>2, <2>4, <2>5, <2>6, <2>7, <3>2
    <3>3. CASE i \in 1..n /\ j = n + 1
      BY <2>2, <2>4, <2>5, <2>6, <2>7, <3>3
    <3>4. CASE i = n + 1 /\ j = n + 1
      BY <2>2, <2>5, <3>4
    <3> QED BY <2>2, <3>1, <3>2, <3>3, <3>4
  <2>8. ASSUME phase' = "walk"
        PROVE  /\ IsPeriod(current') /\ current'.type = call.types[turn]
               /\ \A i \in DOMAIN periods' : periods'[i].type = current'.type =>
                        PlaceOf(current') - PlaceOf(periods'[i]) = Len(periods') + 1 - i
    <3>1. IsPeriod(current') /\ current'.type = call.types[turn]
      BY <1>4, <2>1, <2>8, MovedToPeriod DEF Emit
    <3>2. current'.first = current.last + 1
      <4>1. current' = PeriodContaining(current.last + 1, current.type)
        BY <1>4, <2>1, <2>8, MovedTo DEF Emit, FollowingDay
      <4>2. current = PeriodContaining(current.first, current.type)
            /\ current.type \in Supported
        BY <2>1 DEF IsPeriod
      <4>3. current.first \in Int /\ current.first >= 1
        BY <2>1, PeriodsAreDays
      <4> QED BY <4>1, <4>2, <4>3, NextBegins
    <3>3. PlaceOf(current') = PlaceOf(current) + 1
      BY <2>1, <3>1, <3>2, NextPlace
    <3>4. Len(periods') = n + 1
      BY <1>4, <2>2, EmittedGrows DEF Emit, IInv, TypeOK
    <3>5. ASSUME NEW i \in DOMAIN periods', periods'[i].type = current'.type
          PROVE  PlaceOf(current') - PlaceOf(periods'[i]) = Len(periods') + 1 - i
      <4>1. CASE i \in 1..n
        <5>1. periods'[i] = periods[i] /\ periods[i].type = current.type
          <6>1. periods'[i] = periods[i]
            BY <2>2, <4>1
          <6> QED BY <2>1, <3>1, <3>5, <6>1
        <5>2. PICK a \in Int, b \in Int :
                a = PlaceOf(periods[i]) /\ b = PlaceOf(current) /\ b - a = n + 1 - i
          BY <2>4, <2>5, <2>6, <4>1, <5>1
        <5>3. PlaceOf(periods'[i]) = a /\ PlaceOf(current') = b + 1
          BY <3>3, <5>1, <5>2
        <5>4. (b + 1) - a = (n + 1) + 1 - i
          <6>1. i \in Int /\ n \in Int
            BY <4>1
          <6> QED BY <5>2, <6>1
        <5> QED BY <3>4, <5>3, <5>4
      <4>2. CASE i = n + 1
        BY <2>2, <2>5, <3>3, <3>4, <4>2
      <4> QED BY <2>2, <4>1, <4>2
    <3> QED BY <3>1, <3>5
  <2> QED BY <2>1, <2>3, <2>7, <2>8 DEF Placed
<1>5. CASE UNCHANGED vars
  BY <1>5 DEF vars, Placed
<1> QED BY <1>2, <1>3, <1>4, <1>5 DEF AnyStep, Next

----------------------------------------------------------------------------
(* The names of periods, and shifting *)

\* The calendar ends on a Friday: there is no Monday of an ISO year 10000.
LEMMA LastIsoYear == LastDay \in Int /\ LastDay < FirstIsoMonday(MaxYear + 1)
<1>1. MaxYear + 1 = 10000 /\ DaysBefore(10000) = 3652059
  BY DEF MaxYear, DaysBefore
<1>2. DayOf(10000, 1, 4) = 3652063
  BY <1>1, MonthTable DEF DayOf
<1>3. Weekday(3652063) = 1
  BY DEF Weekday
<1> QED BY <1>1, <1>2, <1>3 DEF LastDay, FirstIsoMonday

\* The years of a day of the calendar have at most four digits.
LEMMA YearsHaveFourDigits ==
  ASSUME NEW d \in Day
  PROVE  /\ d \in Int /\ d >= 1
         /\ YearOf(d) \in Int /\ YearOf(d) <= MaxYear
         /\ IsoYear(d) \in Int /\ IsoYear(d) <= MaxYear
<1>1. d \in Int /\ d >= 1 /\ d <= LastDay
  BY LastIsoYear DEF Day
<1>2. YearOf(d) \in Int /\ YearOf(d) <= MaxYear
  <2>1. PICK y \in Int : y = YearOf(d) /\ y >= 1 /\ DaysBefore(y) < d
    BY <1>1, YearOfCorrect
  <2>2. y > MaxYear => DaysBefore(MaxYear + 1) <= DaysBefore(y)
    BY <2>1, YearsAreOrdered DEF MaxYear
  <2>3. DaysBefore(y) \in Int
    BY <2>1, YearsGrow
  <2> QED BY <1>1, <2>1, <2>2, <2>3, LastIsoYear DEF LastDay, MaxYear
<1>3. IsoYear(d) \in Int /\ IsoYear(d) <= MaxYear
  <2>1. PICK y \in Int : y = IsoYear(d) /\ y >= 0 /\ FirstIsoMonday(y) <= d
    BY <1>1, IsoYearCorrect
  <2>2. y > MaxYear => FirstIsoMonday(MaxYear + 1) <= FirstIsoMonday(y)
    <3>1. CASE y = MaxYear + 1
      BY <2>1, <3>1, FirstMondays
    <3>2. CASE y > MaxYear + 1
      <4>1. FirstIsoMonday(MaxYear + 1) < FirstIsoMonday(y)
        BY <2>1, <3>2, IsoYearsAreOrdered DEF MaxYear
      <4>2. FirstIsoMonday(MaxYear + 1) \in Int /\ FirstIsoMonday(y) \in Int
        BY <2>1, FirstMondays DEF MaxYear
      <4> QED BY <4>1, <4>2
    <3> QED BY <2>1, <3>1, <3>2 DEF MaxYear
  <2>3. FirstIsoMonday(y) \in Int /\ FirstIsoMonday(MaxYear + 1) \in Int
    BY <2>1, FirstMondays DEF MaxYear
  <2> QED BY <1>1, <2>1, <2>2, <2>3, LastIsoYear DEF MaxYear
<1> QED BY <1>1, <1>2, <1>3

\* The parts of an id.
LEMMA IdHasParts ==
  ASSUME NEW type, NEW year, NEW number, NEW id, id = <<type, year, number>>
  PROVE  id[1] = type /\ id[2] = year /\ id[3] = number
BY Zenon

\* A number of an id that is neither too small nor too large.
LEMMA PartIsBetween ==
  ASSUME NEW low \in Int, NEW high \in Int, NEW y \in Int, NEW x, x = y,
         x >= low, y <= high
  PROVE  y \in low..high
OBVIOUS

\* Every id of a year of four digits is read back as the period it was made for
\* (generation/periods.py:313-330 and models/periods.py).
LEMMA IdNamesItsPeriod ==
  ASSUME NEW p, IsPeriod(p), p.id[2] >= 1000
  PROVE  PeriodFromId(p.id) = {p}
<1> DEFINE low == 1000
<1>0. low \in Int /\ MaxYear \in Int /\ p.id[2] >= low
  BY DEF MaxYear
<1>1. PICK f \in Day : /\ f = p.first
                       /\ p = PeriodContaining(f, p.type) /\ Constructible(f, p.type)
  BY DEF IsPeriod
<1>2. /\ f \in Int /\ f >= 1
      /\ YearOf(f) \in Int /\ YearOf(f) <= MaxYear
      /\ IsoYear(f) \in Int /\ IsoYear(f) <= MaxYear
  BY YearsHaveFourDigits
<1>3. SUFFICES Recognised(p.id) /\ DayFromId(p.id) = f /\ p.id[1] = p.type
  BY <1>1 DEF PeriodFromId, PeriodOn
<1> HIDE DEF low
<1>4. CASE p.type = "YEAR"
  <2>1. p.id = <<"YEAR", YearOf(f), 1>> /\ f = DayOf(YearOf(f), 1, 1)
    BY <1>1, <1>4 DEF PeriodContaining, YearContaining, PeriodOf
  <2>3. p.id[1] = "YEAR" /\ p.id[2] = YearOf(f) /\ p.id[3] = 1
    BY <2>1, IdHasParts
  <2>4. YearOf(f) \in low..MaxYear
    BY <1>0, <1>2, <2>3, PartIsBetween
  <2> QED BY <1>4, <2>1, <2>3, <2>4 DEF Recognised, DayFromId, low
<1>5. CASE p.type = "QUARTER"
  <2>1. p.id = <<"QUARTER", YearOf(f), QuarterNumber(f)>>
        /\ f = QuarterStart(YearOf(f), QuarterNumber(f))
    BY <1>1, <1>5 DEF PeriodContaining, QuarterContaining, PeriodOf
  <2>2. QuarterNumber(f) \in 1..4
    <3>1. MonthOf(f) \in 1..12
      BY <1>2, MonthOfCorrect
    <3> QED BY <3>1 DEF QuarterNumber
  <2>3. p.id[1] = "QUARTER" /\ p.id[2] = YearOf(f) /\ p.id[3] = QuarterNumber(f)
    BY <2>1, IdHasParts
  <2>4. YearOf(f) \in low..MaxYear
    BY <1>0, <1>2, <2>3, PartIsBetween
  <2> QED BY <1>5, <2>1, <2>2, <2>3, <2>4 DEF Recognised, DayFromId, low, QuarterStart
<1>6. CASE p.type = "MONTH"
  <2>1. p.id = <<"MONTH", YearOf(f), MonthOf(f)>> /\ f = DayOf(YearOf(f), MonthOf(f), 1)
    BY <1>1, <1>6 DEF PeriodContaining, MonthContaining, PeriodOf
  <2>2. MonthOf(f) \in 1..12
    BY <1>2, MonthOfCorrect
  <2>3. p.id[1] = "MONTH" /\ p.id[2] = YearOf(f) /\ p.id[3] = MonthOf(f)
    BY <2>1, IdHasParts
  <2>4. YearOf(f) \in low..MaxYear
    BY <1>0, <1>2, <2>3, PartIsBetween
  <2> QED BY <1>6, <2>1, <2>2, <2>3, <2>4 DEF Recognised, DayFromId, low
<1>7. CASE p.type = "WEEK"
  <2>1. p.id = <<"WEEK", IsoYear(f), IsoWeek(f)>> /\ f = IsoMonday(IsoYear(f), IsoWeek(f))
    BY <1>1, <1>7 DEF PeriodContaining, WeekContaining, PeriodOf
  <2>2. f < FirstIsoMonday(IsoYear(f) + 1)
    BY <1>2, IsoYearCorrect
  <2>3. IsoWeek(f) >= 1
    <3>1. PICK b \in Int : b = FirstIsoMonday(IsoYear(f)) /\ b <= f
      BY <1>2, IsoYearCorrect, FirstMondays
    <3>2. (f - b) \div 7 >= 0
      BY <1>2, <3>1
    <3> QED BY <1>2, <3>1, <3>2 DEF IsoWeek
  <2>4. p.id[1] = "WEEK" /\ p.id[2] = IsoYear(f) /\ p.id[3] = IsoWeek(f)
    BY <2>1, IdHasParts
  <2>5. IsoYear(f) \in low..MaxYear
    BY <1>0, <1>2, <2>4, PartIsBetween
  <2>6. IsIsoWeek(IsoYear(f), IsoWeek(f))
    BY <2>1, <2>2, <2>3, <2>5 DEF IsIsoWeek, MinYear, MaxYear, low
  <2> QED BY <1>7, <2>1, <2>4, <2>5, <2>6 DEF Recognised, DayFromId, low
<1> QED BY <1>4, <1>5, <1>6, <1>7 DEF IsPeriod, Supported, PeriodType

\* A shift goes to the period as many places on (generation/periods.py:94-175).
LEMMA ShiftReachesPlace ==
  ASSUME NEW p, IsPeriod(p), NEW q, IsPeriod(q), p.type = q.type
  PROVE  ShiftPeriod(p, PlaceOf(q) - PlaceOf(p)) = {q}
<1>1. /\ p.first \in Int /\ p.first >= 1 /\ PlaceOf(p) \in Int /\ PlaceOf(q) \in Int
      /\ q.first = StartOf(q.type, PlaceOf(q))
  BY PeriodsAreDays
<1>2. p.type \in Supported /\ p.first = PeriodContaining(p.first, p.type).first
  BY DEF IsPeriod
<1>3. PICK n \in Int : n = PlaceOf(q) - PlaceOf(p)
  BY <1>1
<1>4. ShiftDate(p.first, p.type, n) = StartOf(p.type, PlaceOf(p) + n)
  BY <1>1, <1>2, <1>3, ShiftGoesOn DEF PlaceOf
<1>5. PlaceOf(p) + n = PlaceOf(q)
  BY <1>1, <1>3
<1>6. ShiftDate(p.first, p.type, n) = q.first
  BY <1>1, <1>4, <1>5
<1>7. PeriodOn(q.first, p.type) = {q}
  BY DEF PeriodOn, IsPeriod
<1> QED BY <1>3, <1>6, <1>7 DEF ShiftPeriod

----------------------------------------------------------------------------
(* Theorems *)

\* A call, with a caller that takes its result.
Calling == Init /\ [][AnyStep]_vars

\* The invariant is inductive (generation/periods.py:22-91).
THEOREM GenerationInvariant == Calling => []IInv
<1>1. Init => IInv
  BY TypeStart, ProgressStart DEF IInv
<1>2. IInv /\ [AnyStep]_vars => IInv'
  BY TypeStep, ProgressStep DEF IInv
<1> QED BY <1>1, <1>2, PTL DEF Calling

\* What is listed stays in the order of the calendar.
LEMMA PlacedInvariant == Calling => []Placed
<1>1. Placed /\ IInv /\ [AnyStep]_vars => Placed'
  BY PlacedStep
<1> QED BY <1>1, PlacedStart, GenerationInvariant, PTL DEF Calling

\* generate_periods is typed: in particular its loop variable always is the
\* period of its own first day (generation/periods.py:22-91).
THEOREM GenerationTypeCorrect == Calling => []TypeOK
<1>1. IInv => TypeOK
  BY DEF IInv
<1> QED BY <1>1, GenerationInvariant, PTL

\* For all horizons, all lists of types and both ways to treat the last period,
\* a returned list holds each period of the horizon once, and nothing else
\* (generation/periods.py:74-91).
THEOREM NoDayIsEverLost == Calling => []NoDayIsLost
<1>1. IInv => NoDayIsLost
  BY CompleteIsNoDayLost
<1> QED BY <1>1, GenerationInvariant, PTL

\* For every call the id of each generated period, once its year has four
\* digits, is recognised and names that period again
\* (generation/periods.py:313-330).
THEOREM IdsNamePeriods == Calling => []IdsNameTheirPeriods
<1>1. Placed => IdsNameTheirPeriods
  BY IdNamesItsPeriod DEF Placed, IdsNameTheirPeriods
<1> QED BY <1>1, PlacedInvariant, PTL

\* For every call, shifting a generated period by the distance in the list gives
\* the other generated period (generation/periods.py:94-175 and 74-89).
THEOREM ShiftsAgreeWithGeneration == Calling => []ShiftsFollowGeneration
<1>1. Placed => ShiftsFollowGeneration
  <2> SUFFICES ASSUME Placed, phase = "returned",
                      NEW i \in DOMAIN periods, NEW j \in DOMAIN periods,
                      periods[i].type = periods[j].type
               PROVE  ShiftPeriod(periods[i], j - i) = {periods[j]}
    BY DEF ShiftsFollowGeneration
  <2>1. IsPeriod(periods[i]) /\ IsPeriod(periods[j])
        /\ PlaceOf(periods[j]) - PlaceOf(periods[i]) = j - i
    BY DEF Placed
  <2> QED BY <2>1, ShiftReachesPlace
<1> QED BY <1>1, PlacedInvariant, PTL

================================================================================
