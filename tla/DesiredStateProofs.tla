--------------------------- MODULE DesiredStateProofs ---------------------------
(* A whole build or rebuild, beside a repository that moves: what was proved  *)
(* of generate_periods holds inside it, the memberships made from its periods *)
(* fit their cycles, the recorded revision is the one that was read, and the  *)
(* dates of contracts are the business days their rules ask for: business     *)
(* days are counted right on every calendar, from days that are sessions and  *)
(* from days that are not, forwards and backwards. Where calendars are open   *)
(* on fifteen days of any four weeks, a horizon that was validated leaves     *)
(* room for every contract of a modest rule.                                  *)
EXTENDS DesiredState, PeriodGenerationProofs, RankProofs

----------------------------------------------------------------------------
(* Trading calendars *)

\* Sessions are days between the first one and the last one.
LEMMA SessionsAreDays ==
  ASSUME NEW c \in DOMAIN Calendars
  PROVE  /\ FirstSession(c) \in Int /\ LastSession(c) \in Int
         /\ IsSession(c, FirstSession(c))
         /\ \A day : IsSession(c, day) =>
               day \in Int /\ FirstSession(c) <= day /\ day <= LastSession(c)
<1>1. FirstSession(c) \in Int /\ LastSession(c) \in Int
  <2>1. LastDay \in Int
    BY YearsGrow DEF LastDay, MaxYear
  <2> QED BY <2>1, CalendarsAssumption DEF FirstSession, LastSession, Day
<1>2. IsSession(c, FirstSession(c))
  BY BoundsAssumption DEF IsSession, FirstSession
<1>3. \A day : IsSession(c, day) => day \in FirstSession(c)..LastSession(c)
  BY DEF IsSession, TradingDays, FirstSession, LastSession
<1> QED BY <1>1, <1>2, <1>3

\* The sessions between two days are finitely many.
LEMMA SessionsAreFinite ==
  ASSUME NEW c, NEW from \in Int, NEW to \in Int
  PROVE  /\ IsFiniteSet(SessionsIn(c, from, to))
         /\ Cardinality(SessionsIn(c, from, to)) \in Nat
         /\ SessionsIn(c, from, to) \subseteq Int
         /\ (Cardinality(SessionsIn(c, from, to)) = 0 <=> SessionsIn(c, from, to) = {})
<1>1. SessionsIn(c, from, to) \subseteq from..to
  BY DEF SessionsIn
<1>2. IsFiniteSet(from..to)
  BY FS_Interval
<1>3. IsFiniteSet(SessionsIn(c, from, to))
  BY <1>1, <1>2, FS_Subset
<1>4. \A d \in from..to : d \in Int
  OBVIOUS
<1> QED BY <1>1, <1>3, <1>4, FS_CardinalityType, FS_EmptySet

\* What get_last_prior_session_date finds: a session, and none between it and
\* the day (trading_calendars/trading_calendar.py:144-167).
LEMMA LastPriorIsLast ==
  ASSUME NEW c \in DOMAIN Calendars, NEW day \in Int, NEW s \in LastPriorSession(c, day)
  PROVE  /\ s \in Int /\ IsSession(c, s) /\ s <= day
         /\ SessionsIn(c, s + 1, day) = {}
<1> DEFINE P(k) == IsSession(c, day - k) /\ SessionsIn(c, day - k + 1, day) = {}
           f == FirstSession(c)
           set == SessionsIn(c, f, day)
           before == [x \in set |-> {y \in set : y > x}]
<1>1. /\ Covered(c, day) /\ f \in Int /\ f <= day
      /\ s = day - (CHOOSE k \in 0..day - f : P(k))
  BY SessionsAreDays DEF LastPriorSession, Covered
<1>2. IsFiniteSet(set) /\ Cardinality(set) \in Nat /\ set \subseteq Int
  BY <1>1, SessionsAreFinite
<1>3. IsRanking(set, before)
  <2>1. before \in [set -> SUBSET set]
    OBVIOUS
  <2>2. \A x \in set : x \notin before[x]
    BY <1>2
  <2>3. ASSUME NEW x \in set, NEW y \in set, y \in before[x], NEW z \in before[y]
        PROVE  z \in before[x]
    BY <1>2, <2>3
  <2>4. ASSUME NEW x \in set, NEW y \in set, x # y
        PROVE  x \in before[y] \/ y \in before[x]
    BY <1>2, <2>4
  <2> HIDE DEF set, before
  <2> QED BY <2>1, <2>2, <2>3, <2>4 DEF IsRanking
<1>4. 1 \in 1..Cardinality(set)
  <2>1. f \in set
    BY <1>1, SessionsAreDays DEF SessionsIn
  <2>2. Cardinality(set) # 0
    BY <1>1, <2>1, SessionsAreFinite
  <2> QED BY <1>2, <2>2
<1>5. PICK x \in set : Cardinality(before[x]) = 0
  <2> HIDE DEF set, before
  <2>1. \E x \in set : Cardinality(before[x]) = 1 - 1
    BY <1>2, <1>3, <1>4, EveryPlaceIsTaken
  <2> QED BY <2>1
<1>6. before[x] = {}
  <2>1. before[x] \subseteq set
    OBVIOUS
  <2>2. IsFiniteSet(before[x])
    BY <1>2, <2>1, FS_Subset
  <2> QED BY <1>5, <2>2, FS_EmptySet
<1>7. x \in Int /\ f <= x /\ x <= day /\ IsSession(c, x)
  BY <1>1 DEF SessionsIn
<1>8. SessionsIn(c, x + 1, day) = {}
  <2>1. SUFFICES ASSUME NEW d \in SessionsIn(c, x + 1, day) PROVE FALSE
    OBVIOUS
  <2>2. d \in Int /\ d >= x + 1 /\ d <= day /\ IsSession(c, d)
    BY <1>1, <1>7, <2>1 DEF SessionsIn
  <2>3. d \in set
    BY <1>1, <1>7, <2>2 DEF SessionsIn
  <2> QED BY <1>6, <1>7, <2>2, <2>3
<1>9. \E k \in 0..day - f : P(k)
  <2>1. day - x \in 0..day - f /\ day - (day - x) = x
    BY <1>1, <1>7
  <2> QED BY <1>7, <1>8, <2>1
<1>10. PICK k \in 0..day - f : P(k) /\ s = day - k
  BY <1>1, <1>9
<1> QED BY <1>1, <1>10

\* What session_offset finds (trading_calendars/trading_calendar.py:93-104).
LEMMA OffsetIsShifted ==
  ASSUME NEW c \in DOMAIN Calendars, NEW s \in Int, NEW n \in Int,
         NEW r \in SessionOffset(c, s, n)
  PROVE  r \in Int /\ IsShifted(c, s, n, r)
<1>1. IsShifted(c, s, n, r)
  BY Zenon DEF SessionOffset
<1> QED BY <1>1, SessionsAreDays DEF IsShifted

\* Counting n business days from any day finds the day between which and that
\* day there are n sessions (trading_calendars/trading_calendar.py:169-194).
THEOREM RelativeIsCounted ==
  ASSUME NEW c \in DOMAIN Calendars, NEW day \in Int, NEW n \in Int,
         NEW r \in RelativeBusinessDay(c, day, n)
  PROVE  r \in Int /\ Counted(c, day, n, r)
<1>1. PICK s \in LastPriorSession(c, day) : r \in SessionOffset(c, s, Adjusted(c, day, n))
  BY DEF RelativeBusinessDay
<1>2. s \in Int /\ IsSession(c, s) /\ s <= day /\ SessionsIn(c, s + 1, day) = {}
  BY LastPriorIsLast
<1>3. PICK m \in Int : m = Adjusted(c, day, n)
  BY DEF Adjusted
<1>4. r \in Int /\ IsShifted(c, s, m, r)
  BY <1>1, <1>2, <1>3, OffsetIsShifted
<1>5. IsSession(c, r)
  BY <1>4 DEF IsShifted
<1>6. ASSUME NEW d, IsSession(c, d), d > s, d <= day PROVE FALSE
  BY <1>2, <1>6, SessionsAreDays DEF SessionsIn
<1>7. CASE n > 0
  <2>1. r >= s /\ Cardinality(SessionsIn(c, s + 1, r)) = n
    BY <1>3, <1>4, <1>7 DEF Adjusted, IsShifted
  <2>2. SessionsIn(c, s + 1, r) # {}
    BY <1>2, <1>4, <1>7, <2>1, SessionsAreFinite
  <2>3. r > day
    <3>1. PICK d \in SessionsIn(c, s + 1, r) : TRUE
      BY <2>2
    <3>2. d \in Int /\ s < d /\ d <= r /\ IsSession(c, d)
      BY <1>2, <1>4, <3>1 DEF SessionsIn
    <3> QED BY <1>2, <1>4, <1>6, <3>2
  <2>4. SessionsIn(c, day + 1, r) = SessionsIn(c, s + 1, r)
    <3>1. ASSUME NEW d \in SessionsIn(c, s + 1, r) PROVE d \in SessionsIn(c, day + 1, r)
      <4>1. d \in Int /\ s < d /\ d <= r /\ IsSession(c, d)
        BY <1>2, <1>4, <3>1 DEF SessionsIn
      <4> QED BY <1>4, <1>6, <4>1 DEF SessionsIn
    <3>2. ASSUME NEW d \in SessionsIn(c, day + 1, r) PROVE d \in SessionsIn(c, s + 1, r)
      BY <1>2, <1>4, <3>2 DEF SessionsIn
    <3> QED BY <3>1, <3>2
  <2> QED BY <1>4, <1>5, <1>7, <2>1, <2>3, <2>4 DEF Counted
<1>8. CASE n = 0
  <2>1. r >= s /\ Cardinality(SessionsIn(c, s + 1, r)) = 0
    BY <1>3, <1>4, <1>8 DEF Adjusted, IsShifted
  <2>2. SessionsIn(c, s + 1, r) = {}
    BY <1>2, <1>4, <2>1, SessionsAreFinite
  <2>3. r = s
    BY <1>2, <1>4, <1>5, <2>1, <2>2 DEF SessionsIn
  <2> QED BY <1>2, <1>4, <1>5, <1>8, <2>3 DEF Counted
<1>9. CASE n < 0 /\ IsSession(c, day)
  <2>1. m = n
    BY <1>3, <1>9 DEF Adjusted
  <2>2. s = day
    BY <1>2, <1>6, <1>9
  <2> QED BY <1>4, <1>5, <1>9, <2>1, <2>2 DEF Counted, IsShifted
<1>10. CASE n < 0 /\ ~IsSession(c, day)
  <2>1. m = n + 1 /\ s < day
    BY <1>2, <1>3, <1>10 DEF Adjusted
  <2>2. CASE n = -1
    <3>1. r >= s /\ Cardinality(SessionsIn(c, s + 1, r)) = 0
      BY <1>4, <2>1, <2>2 DEF IsShifted
    <3>2. SessionsIn(c, s + 1, r) = {}
      BY <1>2, <1>4, <3>1, SessionsAreFinite
    <3>3. r = s
      BY <1>2, <1>4, <1>5, <3>1, <3>2 DEF SessionsIn
    <3>4. SessionsIn(c, r, day - 1) = {s}
      <4>1. ASSUME NEW d \in SessionsIn(c, r, day - 1) PROVE d = s
        <5>1. d \in Int /\ s <= d /\ d <= day - 1 /\ IsSession(c, d)
          BY <1>2, <3>3, <4>1 DEF SessionsIn
        <5> QED BY <1>2, <1>6, <5>1
      <4>2. s \in SessionsIn(c, r, day - 1)
        BY <1>2, <2>1, <3>3 DEF SessionsIn
      <4> QED BY <4>1, <4>2
    <3>5. Cardinality(SessionsIn(c, r, day - 1)) = 1
      BY <3>4, FS_Singleton
    <3> QED BY <1>4, <1>5, <2>1, <2>2, <3>3, <3>5 DEF Counted
  <2>3. CASE n < -1
    <3>1. r < s /\ Cardinality(SessionsIn(c, r, s - 1)) = -(n + 1)
      BY <1>4, <2>1, <2>3 DEF IsShifted
    <3>2. SessionsIn(c, r, day - 1) = SessionsIn(c, r, s - 1) \cup {s}
      <4>1. ASSUME NEW d \in SessionsIn(c, r, day - 1)
            PROVE  d \in SessionsIn(c, r, s - 1) \cup {s}
        <5>1. d \in Int /\ r <= d /\ d <= day - 1 /\ IsSession(c, d)
          BY <1>4, <4>1 DEF SessionsIn
        <5>2. d <= s
          BY <1>2, <1>6, <5>1
        <5> QED BY <1>2, <1>4, <5>1, <5>2 DEF SessionsIn
      <4>2. ASSUME NEW d \in SessionsIn(c, r, s - 1) \cup {s}
            PROVE  d \in SessionsIn(c, r, day - 1)
        BY <1>2, <1>4, <2>1, <3>1, <4>2 DEF SessionsIn
      <4> QED BY <4>1, <4>2
    <3>3. /\ s \notin SessionsIn(c, r, s - 1)
          /\ IsFiniteSet(SessionsIn(c, r, s - 1))
      BY <1>2, <1>4, SessionsAreFinite DEF SessionsIn
    <3>4. Cardinality(SessionsIn(c, r, day - 1)) = -(n + 1) + 1
      BY <3>1, <3>2, <3>3, FS_AddElement
    <3> QED BY <1>2, <1>4, <1>5, <2>1, <2>3, <3>1, <3>4 DEF Counted
  <2> QED BY <1>10, <2>2, <2>3
<1> QED BY <1>4, <1>7, <1>8, <1>9, <1>10

----------------------------------------------------------------------------

\* The n-th of the days of a period is one of them, and no other is it.
LEMMA NthIsOne ==
  ASSUME NEW from \in Int, NEW to \in Int, NEW days \in SUBSET (from..to), NEW n,
         NEW x \in Nth(days, n), NEW y \in Nth(days, n)
  PROVE  x = y /\ x \in Int
<1> DEFINE before == [d \in days |-> {e \in days : e < d}]
<1>1. days \subseteq Int /\ x \in days /\ y \in days
  BY DEF Nth
<1>2. IsFiniteSet(days)
  <2>1. IsFiniteSet(from..to)
    BY FS_Interval
  <2> QED BY <2>1, FS_Subset
<1>3. IsRanking(days, before)
  <2>1. before \in [days -> SUBSET days]
    OBVIOUS
  <2>2. \A d \in days : d \notin before[d]
    BY <1>1
  <2>3. ASSUME NEW d \in days, NEW e \in days, e \in before[d], NEW z \in before[e]
        PROVE  z \in before[d]
    BY <1>1, <2>3
  <2>4. ASSUME NEW d \in days, NEW e \in days, d # e
        PROVE  d \in before[e] \/ e \in before[d]
    BY <1>1, <2>4
  <2> HIDE DEF before
  <2> QED BY <2>1, <2>2, <2>3, <2>4 DEF IsRanking
<1>4. ASSUME NEW d \in days
      PROVE  Cardinality({e \in days : e <= d}) = Cardinality(before[d]) + 1
  <2>1. {e \in days : e <= d} = before[d] \cup {d}
    <3>1. before[d] = {e \in days : e < d}
      OBVIOUS
    <3>2. d \in Int /\ \A e \in days : e \in Int /\ (e <= d <=> e < d \/ e = d)
      BY <1>1
    <3> HIDE DEF before
    <3> QED BY <3>1, <3>2
  <2>2. IsFiniteSet(before[d]) /\ d \notin before[d]
    <3>1. before[d] \subseteq days
      OBVIOUS
    <3>2. IsFiniteSet(before[d])
      BY <1>2, <3>1, FS_Subset
    <3>3. d \notin before[d]
      BY <1>1
    <3> QED BY <3>2, <3>3
  <2> QED BY <2>1, <2>2, FS_AddElement
<1>5. Cardinality({e \in days : e <= x}) = Cardinality({e \in days : e <= y})
  BY DEF Nth
<1>6. Cardinality(before[x]) = Cardinality(before[y])
  <2>1. Cardinality(before[x]) \in Nat /\ Cardinality(before[y]) \in Nat
    <3>1. \A d \in days : IsFiniteSet(before[d])
      <4>1. \A d \in days : before[d] \subseteq days
        OBVIOUS
      <4> HIDE DEF before
      <4> QED BY <1>2, <4>1, FS_Subset
    <3> HIDE DEF before
    <3> QED BY <1>1, <3>1, FS_CardinalityType
  <2> HIDE DEF before
  <2> QED BY <1>1, <1>4, <1>5, <2>1
<1> HIDE DEF before
<1> QED BY <1>1, <1>2, <1>3, <1>6, RankIsUnique

----------------------------------------------------------------------------
(* Periods and memberships *)

\* Whatever a command or the repository does, the variables of generate_periods
\* are left alone or take one of its steps.
LEMMA GenerationIsRun ==
  ASSUME [DesiredNext]_desiredVars
  PROVE  [AnyStep]_vars
<1>1. CASE RepositoryMoves
  BY <1>1 DEF RepositoryMoves, StartCheckout, CheckoutFile, FinishCheckout, EditFile,
              RepositoryStep
<1>2. CASE GeneratePeriods
  BY <1>2 DEF GeneratePeriods, AnyStep
<1>3. CASE EndPeriods
  BY <1>3 DEF EndPeriods, AnyStep
<1>4. CASE \/ ReadConfiguration \/ ListFiles \/ LoadFuturesProduct \/ EndLoading
           \/ ResolveRevision \/ RevisionUnresolved \/ ValidateCoverage
           \/ GenerateFuturesContracts
           \/ EndContracts \/ DropOwnedSchema \/ PersistDesiredState
  BY <1>4 DEF ReadConfiguration, ListFiles, LoadFuturesProduct, EndLoading,
              ResolveRevision, RevisionUnresolved, ValidateCoverage,
              GenerateFuturesContracts,
              EndContracts, DropOwnedSchema, PersistDesiredState
<1>5. CASE UNCHANGED desiredVars
  BY <1>5 DEF desiredVars
<1> QED BY <1>1, <1>2, <1>3, <1>4, <1>5 DEF DesiredNext, CommandStep

\* A command is a caller of generate_periods.
LEMMA CommandsCall == DesiredSpec => Calling
<1>1. DesiredInit => Init
  BY DEF DesiredInit
<1> QED BY <1>1, GenerationIsRun, PTL DEF DesiredSpec, Calling

\* A generated period is the period of its own first day.
LEMMA EmittedIsItsOwn ==
  ASSUME IInv, phase = "returned", NEW p \in Emitted
  PROVE  /\ p.type \in Supported
         /\ p.first \in Int /\ p.first >= 1
         /\ p = PeriodContaining(p.first, p.type)
<1>1. /\ p \in Touching
      /\ \A k \in DOMAIN call.types : call.types[k] \in Supported
  <2>1. p \in Touching
    BY CompleteIsNoDayLost DEF NoDayIsLost
  <2>2. call.types \in Seq(PeriodType) /\ turn = Len(call.types) + 1
    BY CallIsTyped DEF IInv, TypeOK, Progress
  <2>3. DOMAIN call.types = 1..turn - 1
    BY <2>2
  <2> QED BY <2>1, <2>3 DEF IInv, Progress
<1>2. PICK k \in DOMAIN call.types, day \in call.start..call.end :
        p = PeriodContaining(day, call.types[k])
  BY <1>1 DEF Touching
<1>3. day \in Int /\ day >= 1
  BY CallIsTyped DEF IInv, TypeOK
<1>4. /\ p.first \in Int /\ p.first >= 1 /\ p.last \in Int
      /\ p.first <= day /\ day <= p.last
  BY <1>1, <1>2, <1>3, PeriodHolds
<1>5. p.type = call.types[k]
  BY <1>1, <1>2, PeriodHasType
<1>6. PeriodContaining(p.first, call.types[k]) = p
  BY <1>1, <1>2, <1>3, <1>4, PeriodOfMember
<1> QED BY <1>1, <1>4, <1>5, <1>6

\* A month is determined by its year and its number, and so is a quarter; they
\* are what a cycle has positions for (materialisation.py:259-311).
LEMMA PositionsFit ==
  ASSUME IInv, phase = "returned"
  PROVE  MembershipsFitCycles
<1>1. ASSUME NEW p \in Emitted, p.type = "MONTH"
      PROVE  /\ p = MonthContaining(p.first)
             /\ CycleElement(p) = MonthOf(p.first) /\ CycleElement(p) \in 1..12
  BY <1>1, EmittedIsItsOwn, MonthOfCorrect DEF PeriodContaining, CycleElement
<1>2. ASSUME NEW p \in Emitted, p.type = "QUARTER"
      PROVE  /\ p = QuarterContaining(p.first)
             /\ CycleElement(p) = QuarterNumber(p.first) /\ CycleElement(p) \in 1..4
  <2>1. p = QuarterContaining(p.first) /\ CycleElement(p) = QuarterNumber(p.first)
    BY <1>2, EmittedIsItsOwn DEF PeriodContaining, CycleElement
  <2>2. PICK m \in 1..12 : m = MonthOf(p.first)
    BY EmittedIsItsOwn, MonthOfCorrect
  <2>3. QuarterNumber(p.first) \in 1..4
    BY <2>2 DEF QuarterNumber
  <2> QED BY <2>1, <2>3
<1>3. DOMAIN CycleSize = {"MONTH", "QUARTER"} /\ CycleSize["MONTH"] = 12
        /\ CycleSize["QUARTER"] = 4
  BY DEF CycleSize
<1>4. ASSUME NEW m \in Memberships, NEW n \in Memberships
      PROVE  /\ m.position = n.position => m = n
             /\ m.position[3] \in 1..CycleSize[m.position[1]]
  <2>1. PICK p \in Emitted : p.type \in {"MONTH", "QUARTER"} /\
          m = [period |-> p.id, position |-> <<p.type, YearOf(p.first), CycleElement(p)>>]
    BY <1>3 DEF Memberships
  <2>2. PICK q \in Emitted : q.type \in {"MONTH", "QUARTER"} /\
          n = [period |-> q.id, position |-> <<q.type, YearOf(q.first), CycleElement(q)>>]
    BY <1>3 DEF Memberships
  <2>3. ASSUME m.position = n.position PROVE m = n
    <3>1. p.type = q.type /\ YearOf(p.first) = YearOf(q.first)
            /\ CycleElement(p) = CycleElement(q)
      BY <2>1, <2>2, <2>3
    <3>2. CASE p.type = "MONTH"
      <4>1. p = q
        BY <1>1, <3>1, <3>2, ZenonT(30) DEF MonthContaining
      <4> QED BY <2>1, <2>2, <4>1
    <3>3. CASE p.type = "QUARTER"
      <4>1. p = q
        BY <1>2, <3>1, <3>3, ZenonT(30) DEF QuarterContaining
      <4> QED BY <2>1, <2>2, <4>1
    <3> QED BY <2>1, <3>2, <3>3
  <2>4. m.position[3] \in 1..CycleSize[m.position[1]]
    <3>1. CASE p.type = "MONTH"
      BY <1>1, <1>3, <2>1, <3>1
    <3>2. CASE p.type = "QUARTER"
      BY <1>2, <1>3, <2>1, <3>2
    <3> QED BY <2>1, <3>1, <3>2
  <2> QED BY <2>3, <2>4
<1> QED BY <1>4 DEF MembershipsFitCycles

----------------------------------------------------------------------------
(* Files and revision *)

Recorded == {records[i] : i \in DOMAIN records}
RecordOf(p) == [path |-> p, document |-> tree[p]]
Ahead == {RecordOf(unread[i]) : i \in DOMAIN unread}

\* While files are read, those read and those ahead are what HEAD holds if
\* nothing moved; from then on the records stay.
SourceInv ==
    /\ records \in Seq(Recorded)
    /\ unread \in Seq(Path)
    /\ still => Clean
    /\ stage \in {"configuration", "listing"} => records = <<>>
    /\ stage \in {"configuration", "listing", "reading", "revision"} => revision = NoCommit
    /\ stage = "reading" /\ still => Recorded \cup Ahead = Held(head)
    /\ stage = "revision" => ProductsAreDistinct /\ (still => Recorded = Held(head))
    /\ revision # NoCommit => ProductsAreDistinct /\ (still => Recorded = Held(revision))

\* The listed files are all files, in order (sources/futures_product.py:861).
LEMMA SortedIsWhole ==
  ASSUME NEW paths \in SUBSET Path
  PROVE  /\ Sorted(paths) \in Seq(Path)
         /\ {Sorted(paths)[i] : i \in DOMAIN Sorted(paths)} = paths
<1> DEFINE n == Cardinality(paths)
           before == [p \in paths |-> {q \in paths : q < p}]
<1>1. paths \subseteq Nat /\ IsFiniteSet(paths) /\ n \in Nat
  BY PathAssumption, FS_Subset, FS_CardinalityType
<1>2. IsRanking(paths, before)
  <2>1. before \in [paths -> SUBSET paths]
    OBVIOUS
  <2>2. \A x \in paths : x \notin before[x]
    BY <1>1
  <2>3. ASSUME NEW x \in paths, NEW y \in paths, y \in before[x], NEW z \in before[y]
        PROVE  z \in before[x]
    BY <1>1, <2>3
  <2>4. ASSUME NEW x \in paths, NEW y \in paths, x # y
        PROVE  x \in before[y] \/ y \in before[x]
    BY <1>1, <2>4
  <2> HIDE DEF before
  <2> QED BY <2>1, <2>2, <2>3, <2>4 DEF IsRanking
<1>3. ASSUME NEW i \in 1..n
      PROVE  /\ Sorted(paths)[i] \in paths
             /\ Cardinality(before[Sorted(paths)[i]]) = i - 1
  <2>1. \E p \in paths : Cardinality(before[p]) = i - 1
    BY <1>1, <1>2, EveryPlaceIsTaken, ZenonT(30)
  <2>2. \E p \in paths : Cardinality({q \in paths : q < p}) = i - 1
    BY <2>1
  <2>3. Sorted(paths)[i] = CHOOSE p \in paths : Cardinality({q \in paths : q < p}) = i - 1
    BY DEF Sorted
  <2> QED BY <2>2, <2>3
<1>4. DOMAIN Sorted(paths) = 1..n
  BY DEF Sorted
<1>5. Sorted(paths) \in Seq(Path)
  <2>1. Sorted(paths) = [i \in 1..n |-> CHOOSE p \in paths :
                              Cardinality({q \in paths : q < p}) = i - 1]
    BY DEF Sorted
  <2>2. \A i \in 1..n : Sorted(paths)[i] \in Path
    BY <1>3
  <2>3. Sorted(paths) \in [1..n -> Path]
    BY <2>1, <2>2
  <2> QED BY <1>1, <2>3
<1>6. ASSUME NEW p \in paths
      PROVE  \E i \in 1..n : Sorted(paths)[i] = p
  <2>1. Cardinality(before[p]) \in 0..n - 1
    BY <1>1, <1>2, RankIsSmall
  <2>2. PICK i \in 1..n : i - 1 = Cardinality(before[p])
    <3>1. ASSUME NEW k \in 0..n - 1 PROVE \E i \in 1..n : i - 1 = k
      <4>1. k + 1 \in 1..n /\ (k + 1) - 1 = k
        BY <1>1
      <4> QED BY <4>1
    <3> QED BY <2>1, <3>1
  <2>3. Sorted(paths)[i] \in paths
        /\ Cardinality(before[Sorted(paths)[i]]) = Cardinality(before[p])
    BY <1>3, <2>2
  <2>4. Sorted(paths)[i] = p
    BY <1>1, <1>2, <2>3, RankIsUnique
  <2> QED BY <2>4
<1> HIDE DEF n, before
<1> QED BY <1>3, <1>4, <1>5, <1>6

\* What is listed from a clean tree is what HEAD holds.
LEMMA ListingIsHeld ==
  ASSUME SourceInv, ListFiles, still'
  PROVE  Ahead' = Held(head)
<1>1. tree' = tree /\ tree = Commits[head] /\ unread' = Sorted(Files)
  BY DEF ListFiles, Clean, repositoryVars
<1>2. {unread'[i] : i \in DOMAIN unread'} = Files
  <2>1. Files \in SUBSET Path
    BY DEF Files
  <2>2. {Sorted(Files)[i] : i \in DOMAIN Sorted(Files)} = Files
    BY <2>1, SortedIsWhole
  <2> QED BY <1>1, <2>2
<1>3. ASSUME NEW r PROVE r \in Ahead' <=> \E p \in Files : r = [path |-> p, document |-> tree[p]]
  BY <1>1, <1>2 DEF Ahead, RecordOf
<1>4. ASSUME NEW r
      PROVE  r \in Held(head) <=> \E p \in Files : r = [path |-> p, document |-> tree[p]]
  BY <1>1 DEF Held, Files
<1> QED BY <1>3, <1>4

\* A file that is read moves from those ahead to those read.
LEMMA ReadingKeepsAll ==
  ASSUME SourceInv, LoadFuturesProduct, stage' = "reading"
  PROVE  /\ (Recorded \cup Ahead)' = Recorded \cup Ahead
         /\ records' \in Seq(Recorded') /\ unread' \in Seq(Path)
<1>1. /\ records' = Append(records, RecordOf(Head(unread)))
      /\ unread # <<>> /\ unread' = Tail(unread) /\ tree' = tree
  BY DEF LoadFuturesProduct, Raise, RecordOf, repositoryVars
<1>2. PICK r : r = RecordOf(Head(unread))
  OBVIOUS
<1>3. records \in Seq(Recorded \cup {r}) /\ records' = Append(records, r)
  BY <1>1, <1>2 DEF SourceInv
<1>4. /\ records' \in Seq(Recorded \cup {r})
      /\ Recorded' = Recorded \cup {r}
  <2>1. /\ records' \in Seq(Recorded \cup {r})
        /\ DOMAIN records = 1..Len(records) /\ DOMAIN records' = 1..Len(records) + 1
        /\ Len(records) \in Nat
        /\ records'[Len(records) + 1] = r
        /\ \A i \in 1..Len(records) : records'[i] = records[i]
    BY <1>3
  <2> QED BY <2>1 DEF Recorded
<1>5. /\ unread' \in Seq(Path)
      /\ Ahead = Ahead' \cup {r}
  <2>1. /\ unread \in Seq(Path) /\ unread' \in Seq(Path)
        /\ DOMAIN unread = 1..Len(unread) /\ DOMAIN unread' = 1..Len(unread) - 1
        /\ Len(unread) \in Nat /\ Len(unread) >= 1
        /\ Head(unread) = unread[1]
        /\ \A i \in 1..Len(unread) - 1 : unread'[i] = unread[i + 1]
    BY <1>1 DEF SourceInv
  <2>2. ASSUME NEW x \in Ahead PROVE x \in Ahead' \cup {r}
    <3>1. PICK i \in 1..Len(unread) : x = RecordOf(unread[i])
      BY <2>1 DEF Ahead
    <3>2. CASE i = 1
      BY <1>2, <2>1, <3>1, <3>2
    <3>3. CASE i # 1
      <4>1. i - 1 \in DOMAIN unread' /\ unread'[i - 1] = unread[i]
        BY <2>1, <3>3
      <4> QED BY <1>1, <3>1, <4>1 DEF Ahead, RecordOf
    <3> QED BY <3>2, <3>3
  <2>3. ASSUME NEW x \in Ahead' PROVE x \in Ahead
    <3>1. PICK i \in DOMAIN unread' : x = RecordOf(unread'[i])
      BY <1>1 DEF Ahead, RecordOf
    <3>2. i + 1 \in DOMAIN unread /\ unread[i + 1] = unread'[i]
      BY <2>1
    <3> QED BY <3>1, <3>2 DEF Ahead
  <2>4. r \in Ahead
    BY <1>2, <2>1 DEF Ahead
  <2> QED BY <2>1, <2>2, <2>3, <2>4
<1> QED BY <1>4, <1>5

\* The source invariant at the beginning.
LEMMA SourceStart == ASSUME DesiredInit PROVE SourceInv
BY DEF DesiredInit, SourceInv, Recorded

\* Each step of the command and of the repository preserves it.
LEMMA SourceStep ==
  ASSUME SourceInv, [DesiredNext]_desiredVars
  PROVE  SourceInv'
<1>1. ASSUME UNCHANGED <<records, unread, revision, head, target, tree, still>>,
             \/ stage' = stage
             \/ stage \notin {"listing", "reading", "revision"}
                  /\ stage' \notin {"configuration", "reading", "revision"}
                  /\ (stage' = "listing" => stage = "configuration")
             \/ stage' = "raised"
      PROVE  SourceInv'
  <2>1. /\ Recorded' = Recorded /\ Ahead' = Ahead /\ Clean' = Clean
        /\ ProductsAreDistinct' = ProductsAreDistinct
        /\ Held(head)' = Held(head) /\ Held(revision)' = Held(revision)
    BY <1>1 DEF Recorded, Ahead, RecordOf, Clean, ProductsAreDistinct, Held
  <2> QED BY <1>1, <2>1 DEF SourceInv
<1>2. CASE RepositoryMoves
  <2>1. /\ ~still' /\ UNCHANGED <<stage, records, unread, revision>>
        /\ stage \in {"listing", "reading", "revision"}
    BY <1>2 DEF RepositoryMoves, StartCheckout, CheckoutFile, FinishCheckout, EditFile,
                RepositoryStep, sourceVars
  <2>2. Recorded' = Recorded /\ ProductsAreDistinct' = ProductsAreDistinct
    BY <2>1 DEF Recorded, ProductsAreDistinct
  <2> QED BY <2>1, <2>2 DEF SourceInv
<1>3. CASE ReadConfiguration
  BY <1>1, <1>3 DEF ReadConfiguration, Enter, Raise, sourceVars, repositoryVars
<1>4. CASE ListFiles
  <2>1. /\ stage' \in {"reading", "raised"} /\ records' = <<>> /\ revision' = NoCommit
        /\ head' = head
    BY <1>4 DEF ListFiles, Enter, Raise, SourceInv, repositoryVars
  <2>2. Recorded' = {} /\ records' \in Seq(Recorded')
    BY <2>1 DEF Recorded
  <2>3. unread' \in Seq(Path)
    BY <1>4, SortedIsWhole DEF ListFiles, Files
  <2>4. still' => Clean'
    BY <1>4 DEF ListFiles, Clean, repositoryVars
  <2>5. still' => Recorded' \cup Ahead' = Held(head)'
    <3>1. Held(head)' = Held(head)
      BY <2>1 DEF Held
    <3> QED BY <1>4, <2>2, <3>1, ListingIsHeld
  <2> QED BY <2>1, <2>2, <2>3, <2>4, <2>5 DEF SourceInv
<1>5. CASE LoadFuturesProduct
  <2>1. /\ stage' \in {"reading", "raised"} /\ revision' = NoCommit
        /\ stage = "reading"
        /\ UNCHANGED <<head, tree, target, still>>
        /\ (stage' = "raised" => records' = records)
    BY <1>5 DEF LoadFuturesProduct, Enter, Raise, SourceInv, repositoryVars
  <2>2. Clean' = Clean /\ Held(head)' = Held(head)
    BY <2>1 DEF Clean, Held
  <2>3. CASE stage' = "reading"
    BY <1>5, <2>1, <2>2, <2>3, ReadingKeepsAll DEF SourceInv
  <2>4. CASE stage' = "raised"
    <3>1. Recorded' = Recorded /\ records' = records
      BY <2>1, <2>4 DEF Recorded
    <3>2. unread' \in Seq(Path)
      <4>1. unread \in Seq(Path) /\ unread # <<>> /\ unread' = Tail(unread)
        BY <1>5 DEF LoadFuturesProduct, SourceInv
      <4> QED BY <4>1
    <3> QED BY <2>1, <2>2, <2>4, <3>1, <3>2 DEF SourceInv
  <2> QED BY <2>1, <2>3, <2>4
<1>6. CASE EndLoading
  <2>1. /\ stage' \in {"revision", "raised"} /\ stage = "reading" /\ unread = <<>>
        /\ UNCHANGED <<records, unread, revision, head, target, tree, still>>
        /\ (stage' = "revision" => ProductsAreDistinct)
    BY <1>6 DEF EndLoading, Enter, Raise, sourceVars, repositoryVars
  <2>2. Ahead = {}
    BY <2>1 DEF Ahead
  <2>3. /\ Recorded' = Recorded /\ Clean' = Clean /\ Held(head)' = Held(head)
        /\ ProductsAreDistinct' = ProductsAreDistinct
    BY <2>1 DEF Recorded, Clean, Held, ProductsAreDistinct
  <2> QED BY <2>1, <2>2, <2>3 DEF SourceInv
<1>7. CASE ResolveRevision
  <2>1. /\ stage = "revision" /\ stage' = "periods" /\ revision' = head
        /\ UNCHANGED <<records, unread, head, target, tree, still>>
    BY <1>7 DEF ResolveRevision, Enter, repositoryVars
  <2>2. /\ Recorded' = Recorded /\ Clean' = Clean
        /\ ProductsAreDistinct' = ProductsAreDistinct
        /\ Held(revision)' = Held(head)
    BY <2>1 DEF Recorded, Clean, Held, ProductsAreDistinct
  <2> QED BY <2>1, <2>2 DEF SourceInv
<1>8. CASE GeneratePeriods
  BY <1>1, <1>8 DEF GeneratePeriods, sourceVars, repositoryVars
<1>9. CASE EndPeriods
  BY <1>1, <1>9 DEF EndPeriods, Enter, Raise, sourceVars, repositoryVars
<1>10. CASE ValidateCoverage
  BY <1>1, <1>10 DEF ValidateCoverage, Enter, Raise, sourceVars, repositoryVars
<1>11. CASE GenerateFuturesContracts
  <2>1. /\ stage = "contracts" /\ stage' \in {"contracts", "raised"}
        /\ UNCHANGED <<sourceVars, repositoryVars, still>>
    BY <1>11 DEF GenerateFuturesContracts, Enter, Raise
  <2> QED BY <1>1, <2>1 DEF sourceVars, repositoryVars
<1>12. CASE EndContracts
  BY <1>1, <1>12 DEF EndContracts, Enter, sourceVars, repositoryVars
<1>13. CASE DropOwnedSchema
  BY <1>1, <1>13 DEF DropOwnedSchema, Enter, sourceVars, repositoryVars
<1>14. CASE PersistDesiredState
  BY <1>1, <1>14 DEF PersistDesiredState, Enter, Raise, sourceVars, repositoryVars
<1>15. CASE RevisionUnresolved
  BY <1>1, <1>15 DEF RevisionUnresolved, Raise, sourceVars, repositoryVars
<1>16. CASE UNCHANGED desiredVars
  BY <1>1, <1>16 DEF desiredVars, sourceVars, repositoryVars
<1> QED BY <1>2, <1>3, <1>4, <1>5, <1>6, <1>7, <1>8, <1>9, <1>10, <1>11, <1>12,
           <1>13, <1>14, <1>15, <1>16 DEF DesiredNext, CommandStep

\* Distinct products among the records are distinct products of the commit.
LEMMA RecordsAreProvenance == ASSUME SourceInv PROVE ProvenanceIsExact
<1> SUFFICES ASSUME still, revision # NoCommit PROVE ProvenanceIsExact
  BY DEF ProvenanceIsExact
<1>1. Recorded = Held(revision) /\ ProductsAreDistinct
  BY DEF SourceInv
<1>2. ASSUME NEW r \in Held(revision), NEW s \in Held(revision), r.document.id = s.document.id
      PROVE  r = s
  <2>1. PICK i \in DOMAIN records : r = records[i]
    BY <1>1 DEF Recorded
  <2>2. PICK j \in DOMAIN records : s = records[j]
    BY <1>1 DEF Recorded
  <2> QED BY <1>1, <1>2, <2>1, <2>2 DEF ProductsAreDistinct
<1> QED BY <1>1, <1>2 DEF ProvenanceIsExact, Recorded

----------------------------------------------------------------------------
(* Dates of contracts *)

\* What is constructed around a computed date is one period of days.
LEMMA PeriodOnIsOne ==
  ASSUME NEW day, NEW type, NEW q \in PeriodOn(day, type)
  PROVE  /\ q = PeriodContaining(day, type)
         /\ q.first \in Int /\ q.last \in Int
<1>1. q = PeriodContaining(day, type) /\ day \in Day /\ Constructible(day, type)
  BY DEF PeriodOn
<1>2. type \in Supported
  BY <1>1 DEF Constructible, Supported, PeriodType
<1>3. day \in Int /\ day >= 1
  <2>1. LastDay \in Int
    BY YearsGrow DEF LastDay, MaxYear
  <2> QED BY <1>1, <2>1 DEF Day
<1> QED BY <1>1, <1>2, <1>3, PeriodHolds

\* A period that is shifted is one period.
LEMMA ShiftIsOne ==
  ASSUME NEW p, NEW n, NEW q \in ShiftPeriod(p, n), NEW r \in ShiftPeriod(p, n)
  PROVE  q = r /\ q.first \in Int /\ q.last \in Int
<1>1. /\ q \in PeriodOn(ShiftDate(p.first, p.type, n), p.type)
      /\ r \in PeriodOn(ShiftDate(p.first, p.type, n), p.type)
  BY DEF ShiftPeriod
<1> QED BY <1>1, PeriodOnIsOne

\* A rule names at most one reference date (trading_calendars/last_trading_day.py).
LEMMA ReferenceIsOne ==
  ASSUME NEW c, NEW p, NEW rule, rule.event \in ReferenceEvents,
         NEW x \in LastTradingReference(c, p, rule),
         NEW y \in LastTradingReference(c, p, rule)
  PROVE  x = y /\ x \in Int
<1>1. PICK q \in ShiftPeriod(p, rule.offset) : x \in ReferenceDate(c, q, rule)
  BY DEF LastTradingReference
<1>2. PICK r \in ShiftPeriod(p, rule.offset) : y \in ReferenceDate(c, r, rule)
  BY DEF LastTradingReference
<1>3. q = r /\ q.first \in Int /\ q.last \in Int
  BY ShiftIsOne
<1>4. \E days \in SUBSET (q.first..q.last) : x \in Nth(days, rule.n) /\ y \in Nth(days, rule.n)
  <2>1. CASE rule.event = "business_day_of_period"
    <3>1. /\ x \in Nth(SessionsIn(c, q.first, q.last), rule.n)
          /\ y \in Nth(SessionsIn(c, q.first, q.last), rule.n)
      BY <1>1, <1>2, <1>3, <2>1 DEF ReferenceDate, NthBusinessDay
    <3>2. SessionsIn(c, q.first, q.last) \subseteq q.first..q.last
      BY DEF SessionsIn
    <3> QED BY <3>1, <3>2
  <2>2. CASE rule.event = "calendar_day_of_period"
    <3>1. x \in Nth(q.first..q.last, rule.n) /\ y \in Nth(q.first..q.last, rule.n)
      BY <1>1, <1>2, <1>3, <2>2 DEF ReferenceDate, NthCalendarDay
    <3> QED BY <3>1
  <2>3. CASE rule.event = "weekday_of_period"
    <3> DEFINE days == {day \in q.first..q.last : Weekday(day) = rule.weekday}
    <3>1. x \in Nth(days, rule.n) /\ y \in Nth(days, rule.n)
      BY <1>1, <1>2, <1>3, <2>3 DEF ReferenceDate, NthWeekday
    <3>2. days \subseteq q.first..q.last
      OBVIOUS
    <3> HIDE DEF days
    <3> QED BY <3>1, <3>2
  <2> QED BY <2>1, <2>2, <2>3 DEF ReferenceEvents
<1> QED BY <1>3, <1>4, NthIsOne

\* A last trading day is so many business days from its reference date.
LEMMA ExpiryIsCounted ==
  ASSUME NEW c \in DOMAIN Calendars, NEW p, NEW rule,
         rule.event \in ReferenceEvents, rule.days \in Int,
         NEW e \in LastTradingDay(c, p, rule), NEW x \in LastTradingReference(c, p, rule)
  PROVE  e \in Int /\ Counted(c, x, rule.days, e)
<1>1. PICK y \in LastTradingReference(c, p, rule) : e \in RelativeBusinessDay(c, y, rule.days)
  BY DEF LastTradingDay
<1>2. y = x /\ x \in Int
  BY ReferenceIsOne
<1> QED BY <1>1, <1>2, RelativeIsCounted

\* So many business days from a date lies one date.
LEMMA RelativeIsOne ==
  ASSUME NEW c, NEW day, NEW n,
         NEW x \in RelativeBusinessDay(c, day, n), NEW y \in RelativeBusinessDay(c, day, n)
  PROVE  x = y
<1>1. PICK s \in LastPriorSession(c, day) : x \in SessionOffset(c, s, Adjusted(c, day, n))
  BY DEF RelativeBusinessDay
<1>2. PICK t \in LastPriorSession(c, day) : y \in SessionOffset(c, t, Adjusted(c, day, n))
  BY DEF RelativeBusinessDay
<1>3. s = t
  BY Zenon DEF LastPriorSession
<1>4. \A m, u, v : u \in SessionOffset(c, s, m) /\ v \in SessionOffset(c, s, m) => u = v
  BY ZenonT(30) DEF SessionOffset
<1> QED BY <1>1, <1>2, <1>3, <1>4

\* A contract has one date from which its first day of interest is counted
\* (trading_calendars/first_day_of_interest.py).
LEMMA InterestReferenceIsOne ==
  ASSUME NEW c \in DOMAIN Calendars, NEW p, NEW rule, NEW lastTrading,
         lastTrading.event \in ReferenceEvents, lastTrading.days \in Int,
         NEW x \in InterestReference(c, p, rule, lastTrading),
         NEW y \in InterestReference(c, p, rule, lastTrading)
  PROVE  x = y /\ x \in Int
<1> DEFINE Dates(l) ==
             IF rule.reference \in DOMAIN AnnualMonth
             THEN UNION {LastTradingDay(c, q, lastTrading) : q \in AnnualPeriod(l, rule)}
             ELSE IF rule.reference = "period" THEN {l.last} ELSE {}
<1>1. PICK l \in Listing(p, rule) : x \in Dates(l)
  BY DEF InterestReference
<1>2. PICK k \in Listing(p, rule) : y \in Dates(k)
  BY DEF InterestReference
<1>3. l = k /\ l.last \in Int
  <2>1. /\ l \in ShiftPeriod(p, -rule.shifts[MonthOf(p.first)])
        /\ k \in ShiftPeriod(p, -rule.shifts[MonthOf(p.first)])
    BY DEF Listing
  <2> QED BY <2>1, ShiftIsOne
<1>4. CASE rule.reference \in DOMAIN AnnualMonth
  <2>1. PICK q \in AnnualPeriod(l, rule) : x \in LastTradingDay(c, q, lastTrading)
    BY <1>1, <1>4
  <2>2. PICK r \in AnnualPeriod(l, rule) : y \in LastTradingDay(c, r, lastTrading)
    BY <1>2, <1>3, <1>4
  <2>3. q = r
    <3>1. PICK day : /\ q \in PeriodOn(day, rule.type)
                     /\ r \in PeriodOn(day, rule.type)
      BY DEF AnnualPeriod
    <3> QED BY <3>1, PeriodOnIsOne
  <2>4. PICK u \in LastTradingReference(c, q, lastTrading) :
          x \in RelativeBusinessDay(c, u, lastTrading.days)
    BY <2>1 DEF LastTradingDay
  <2>5. PICK v \in LastTradingReference(c, q, lastTrading) :
          y \in RelativeBusinessDay(c, v, lastTrading.days)
    BY <2>2, <2>3 DEF LastTradingDay
  <2>6. u = v
    BY ReferenceIsOne
  <2>7. x \in Int
    BY <2>1, <2>4, ExpiryIsCounted
  <2> QED BY <2>4, <2>5, <2>6, <2>7, RelativeIsOne
<1>5. CASE rule.reference \notin DOMAIN AnnualMonth
  BY <1>1, <1>2, <1>3, <1>5
<1> QED BY <1>4, <1>5

\* A first day of interest is the business day after that date.
LEMMA InterestIsCounted ==
  ASSUME NEW c \in DOMAIN Calendars, NEW p, NEW rule, NEW lastTrading,
         lastTrading.event \in ReferenceEvents, lastTrading.days \in Int,
         NEW i \in FirstDayOfInterest(c, p, rule, lastTrading),
         NEW x \in InterestReference(c, p, rule, lastTrading)
  PROVE  Counted(c, x, 1, i)
<1>1. PICK y \in InterestReference(c, p, rule, lastTrading) : i \in RelativeBusinessDay(c, y, 1)
  BY DEF FirstDayOfInterest
<1>2. y = x /\ x \in Int
  BY InterestReferenceIsOne
<1> QED BY <1>1, <1>2, RelativeIsCounted

----------------------------------------------------------------------------
(* Contracts come from the documents that were read *)

\* A contract was made by the rules of a record.
IsMade(k) ==
    \E r \in Recorded :
        LET product == r.document.product
        IN  /\ k.product = r.document.id
            /\ k.expiry \in LastTradingDay(product.calendar, k.period, product.lastTrading)
            /\ k.interest \in FirstDayOfInterest(product.calendar, k.period,
                                                 product.interest, product.lastTrading)

Calendared == {"contracts", "drop", "persist"}
Loaded == {"revision", "periods", "coverage"} \cup Calendared

\* Records parse; once loaded they are of distinct products, once the coverage
\* is validated their calendars are known; contracts are made from records.
ContractInv ==
    /\ records \in Seq(Recorded)
    /\ \A r \in Recorded : Parses(r.document)
    /\ stage \in {"configuration", "listing"} => records = <<>>
    /\ stage \in Loaded => ProductsAreDistinct
    /\ stage \in Calendared =>
         /\ \A document \in Read : document.product.calendar \in DOMAIN Calendars
         /\ \A k \in contracts : IsMade(k)
    /\ stage = "contracts" => unmade \in Seq(Recorded)
    /\ stage \notin Calendared \cup {"done", "raised"} => contracts = {}

\* No contract is there before the first file is read.
LEMMA ContractStart == ASSUME DesiredInit PROVE ContractInv
<1>1. /\ records = <<>> /\ contracts = {}
      /\ stage \in {"configuration", "periods"}
  BY DEF DesiredInit
<1>2. Recorded = {} /\ records \in Seq(Recorded) /\ ProductsAreDistinct
  BY <1>1 DEF Recorded, ProductsAreDistinct
<1> QED BY <1>1, <1>2 DEF ContractInv, Calendared

\* A record that is appended parses.
LEMMA RecordsParse ==
  ASSUME ContractInv, LoadFuturesProduct
  PROVE  ContractInv'
<1>1. /\ stage = "reading" /\ stage' \in {"reading", "raised"}
      /\ contracts = {} /\ contracts' = contracts
  BY DEF LoadFuturesProduct, Enter, Raise, contractVars, ContractInv, Calendared
<1>2. CASE records' = records
  <2>1. Recorded' = Recorded
    BY <1>2 DEF Recorded
  <2> QED BY <1>1, <1>2, <2>1 DEF ContractInv, Loaded, Calendared, Parses
<1>3. CASE records' # records
  <2>1. PICK r : records' = Append(records, r) /\ Parses(r.document)
    <3>1. /\ records' = Append(records, RecordOf(Head(unread)))
          /\ Parses(tree[Head(unread)])
      BY <1>3 DEF LoadFuturesProduct, RecordOf
    <3>2. RecordOf(Head(unread)).document = tree[Head(unread)]
      BY DEF RecordOf
    <3> QED BY <3>1, <3>2
  <2>2. records \in Seq(Recorded \cup {r})
    BY DEF ContractInv
  <2>3. records' \in Seq(Recorded \cup {r}) /\ Recorded' = Recorded \cup {r}
    <3>1. /\ records' \in Seq(Recorded \cup {r})
          /\ DOMAIN records = 1..Len(records) /\ DOMAIN records' = 1..Len(records) + 1
          /\ Len(records) \in Nat
          /\ records'[Len(records) + 1] = r
          /\ \A i \in 1..Len(records) : records'[i] = records[i]
      BY <2>1, <2>2
    <3> QED BY <3>1 DEF Recorded
  <2>4. \A q \in Recorded' : Parses(q.document)'
    BY <2>1, <2>3 DEF ContractInv, Parses
  <2> QED BY <1>1, <2>3, <2>4 DEF ContractInv, Loaded, Calendared
<1> QED BY <1>2, <1>3

\* What the next product adds is made from its record.
LEMMA ContractsAreMade ==
  ASSUME ContractInv, GenerateFuturesContracts
  PROVE  ContractInv'
<1>1. /\ stage = "contracts" /\ unmade # <<>> /\ unmade' = Tail(unmade)
      /\ stage' \in {"contracts", "raised"} /\ records' = records
  BY DEF GenerateFuturesContracts, Enter, Raise, sourceVars
<1>2. /\ Recorded' = Recorded /\ Read' = Read
      /\ ProductsAreDistinct' = ProductsAreDistinct
      /\ \A k : IsMade(k)' = IsMade(k)
  BY <1>1 DEF Recorded, Read, ProductsAreDistinct, IsMade
<1>3. unmade \in Seq(Recorded) /\ unmade' \in Seq(Recorded) /\ Head(unmade) \in Recorded
  <2>1. unmade \in Seq(Recorded)
    BY <1>1 DEF ContractInv
  <2> QED BY <1>1, <2>1
<1>4. PICK r \in Recorded : r = Head(unmade)
  BY <1>3
<1>5. ASSUME NEW k \in contracts', stage' = "contracts" PROVE IsMade(k)
  <2>1. CASE k \in contracts
    BY <1>1, <2>1 DEF ContractInv, Calendared
  <2>2. CASE k \notin contracts
    <3>1. k \in UNION ContractsOf(r.document, Emitted)
      BY <1>4, <1>5, <2>2 DEF GenerateFuturesContracts, Raise
    <3>2. PICK p : k \in Contract(r.document.id, r.document.product, p)
      BY <3>1 DEF ContractsOf
    <3> QED BY <3>2 DEF Contract, IsMade
  <2> QED BY <2>1, <2>2
<1> QED BY <1>1, <1>2, <1>3, <1>5 DEF ContractInv, Loaded, Calendared, Parses

\* Each step preserves where contracts come from.
LEMMA ContractStep ==
  ASSUME ContractInv, [DesiredNext]_desiredVars
  PROVE  ContractInv'
<1>1. ASSUME UNCHANGED <<records, contracts>>,
             \/ stage' = stage /\ unmade' = unmade
             \/ stage \in Loaded /\ stage' \in Loaded \ {"contracts"}
                  /\ (stage' \in Calendared <=> stage \in Calendared)
             \/ stage = "configuration" /\ stage' = "listing"
             \/ stage = "listing" /\ stage' = "reading"
             \/ stage' \in {"done", "raised"}
      PROVE  ContractInv'
  <2>1. /\ Recorded' = Recorded /\ Read' = Read
        /\ ProductsAreDistinct' = ProductsAreDistinct
        /\ \A k : IsMade(k)' = IsMade(k)
    BY <1>1 DEF Recorded, Read, ProductsAreDistinct, IsMade
  <2> QED BY <1>1, <2>1 DEF ContractInv, Loaded, Calendared, Parses
<1>2. CASE RepositoryMoves
  <2>1. UNCHANGED <<records, contracts, stage, unmade>>
    BY <1>2 DEF RepositoryMoves, StartCheckout, CheckoutFile, FinishCheckout, EditFile,
                RepositoryStep, sourceVars, contractVars
  <2> QED BY <1>1, <2>1
<1>3. CASE ReadConfiguration
  BY <1>1, <1>3 DEF ReadConfiguration, Enter, Raise, sourceVars, contractVars
<1>4. CASE ListFiles
  BY <1>1, <1>4 DEF ListFiles, Enter, Raise, contractVars
<1>5. CASE LoadFuturesProduct
  BY <1>5, RecordsParse
<1>6. CASE EndLoading
  <2>1. /\ stage = "reading" /\ UNCHANGED <<records, contracts>>
        /\ stage' = "raised" \/ (stage' = "revision" /\ ProductsAreDistinct)
    BY <1>6 DEF EndLoading, Enter, Raise, sourceVars, contractVars
  <2>2. Recorded' = Recorded /\ ProductsAreDistinct' = ProductsAreDistinct
    BY <2>1 DEF Recorded, ProductsAreDistinct
  <2> QED BY <2>1, <2>2 DEF ContractInv, Loaded, Calendared, Parses
<1>7. CASE ResolveRevision
  BY <1>1, <1>7 DEF ResolveRevision, Enter, contractVars, Loaded, Calendared
<1>8. CASE GeneratePeriods
  BY <1>1, <1>8 DEF GeneratePeriods, sourceVars, contractVars
<1>9. CASE EndPeriods
  BY <1>1, <1>9 DEF EndPeriods, Enter, Raise, sourceVars, contractVars, Loaded, Calendared
<1>10. CASE ValidateCoverage
  <2>1. /\ stage = "coverage" /\ UNCHANGED <<records, contracts>> /\ unmade' = records
        /\ \/ stage' = "raised"
           \/ /\ stage' = "contracts"
              /\ \A document \in Read : CalendarCovers(document.product.calendar)
    BY <1>10 DEF ValidateCoverage, Enter, Raise, sourceVars
  <2>2. /\ Recorded' = Recorded /\ Read' = Read
        /\ ProductsAreDistinct' = ProductsAreDistinct
    BY <2>1 DEF Recorded, Read, ProductsAreDistinct
  <2>3. contracts = {}
    BY <2>1 DEF ContractInv, Calendared
  <2> QED BY <2>1, <2>2, <2>3 DEF ContractInv, Loaded, Calendared, Parses, CalendarCovers
<1>11. CASE GenerateFuturesContracts
  BY <1>11, ContractsAreMade
<1>12. CASE EndContracts
  BY <1>1, <1>12 DEF EndContracts, Enter, sourceVars, contractVars, Loaded, Calendared
<1>13. CASE DropOwnedSchema
  BY <1>1, <1>13 DEF DropOwnedSchema, Enter, sourceVars, contractVars, Loaded, Calendared
<1>14. CASE PersistDesiredState
  BY <1>1, <1>14 DEF PersistDesiredState, Enter, Raise, sourceVars, contractVars
<1>15. CASE RevisionUnresolved
  BY <1>1, <1>15 DEF RevisionUnresolved, Raise, sourceVars, contractVars
<1>16. CASE UNCHANGED desiredVars
  BY <1>1, <1>16 DEF desiredVars, sourceVars, contractVars
<1> QED BY <1>2, <1>3, <1>4, <1>5, <1>6, <1>7, <1>8, <1>9, <1>10, <1>11, <1>12,
           <1>13, <1>14, <1>15, <1>16 DEF DesiredNext, CommandStep

\* The record a contract was made from is the one of its product.
LEMMA ContractsAreCounted == ASSUME ContractInv PROVE DatesAreCounted
<1> SUFFICES ASSUME stage = "persist", NEW k \in contracts, NEW document \in Read,
                    k.product = document.id
             PROVE  LET product == document.product
                        c == product.calendar
                    IN  /\ \A day \in LastTradingReference(c, k.period, product.lastTrading) :
                               Counted(c, day, product.lastTrading.days, k.expiry)
                        /\ \A day \in InterestReference(c, k.period, product.interest,
                                                        product.lastTrading) :
                               Counted(c, day, 1, k.interest)
  BY DEF DatesAreCounted
<1>1. ProductsAreDistinct /\ IsMade(k) /\ document.product.calendar \in DOMAIN Calendars
  BY DEF ContractInv, Loaded, Calendared
<1>2. PICK i \in DOMAIN records : document = records[i].document
  BY DEF Read
<1>3. PICK j \in DOMAIN records :
        LET product == records[j].document.product
        IN  /\ k.product = records[j].document.id
            /\ k.expiry \in LastTradingDay(product.calendar, k.period, product.lastTrading)
            /\ k.interest \in FirstDayOfInterest(product.calendar, k.period,
                                                 product.interest, product.lastTrading)
  BY <1>1 DEF IsMade, Recorded
<1>4. i = j
  BY <1>1, <1>2, <1>3 DEF ProductsAreDistinct
<1>5. /\ document.product.lastTrading.event \in ReferenceEvents
      /\ document.product.lastTrading.days \in Int
  BY <1>2 DEF ContractInv, Recorded, Parses
<1> QED BY <1>1, <1>2, <1>3, <1>4, <1>5, ExpiryIsCounted, InterestIsCounted

----------------------------------------------------------------------------
(* Contracts expire in the order of their periods *)

\* A reference date is a day of its period.
LEMMA ReferenceLiesInPeriod ==
  ASSUME NEW c, NEW q, q.first \in Int, q.last \in Int,
         NEW rule, rule.event \in ReferenceEvents, NEW x \in ReferenceDate(c, q, rule)
  PROVE  x \in Int /\ q.first <= x /\ x <= q.last
<1>1. CASE rule.event = "business_day_of_period"
  <2>1. x \in SessionsIn(c, q.first, q.last)
    BY <1>1 DEF ReferenceDate, NthBusinessDay, Nth
  <2> QED BY <2>1 DEF SessionsIn
<1>2. CASE rule.event = "calendar_day_of_period"
  <2>1. x \in q.first..q.last
    BY <1>2 DEF ReferenceDate, NthCalendarDay, Nth
  <2> QED BY <2>1
<1>3. CASE rule.event = "weekday_of_period"
  <2>1. x \in q.first..q.last
    BY <1>3 DEF ReferenceDate, NthWeekday, Nth
  <2> QED BY <2>1
<1> QED BY <1>1, <1>2, <1>3 DEF ReferenceEvents

\* Fewer sessions lie between two days than between two days around them one of
\* which is a session more.
LEMMA MoreSessions ==
  ASSUME NEW c, NEW a \in Int, NEW b \in Int, NEW from \in Int, NEW to \in Int,
         from <= a, b <= to,
         NEW d \in SessionsIn(c, from, to), d \notin SessionsIn(c, a, b)
  PROVE  Cardinality(SessionsIn(c, a, b)) < Cardinality(SessionsIn(c, from, to))
<1>1. SessionsIn(c, a, b) \subseteq SessionsIn(c, from, to)
  BY DEF SessionsIn
<1>2. /\ IsFiniteSet(SessionsIn(c, from, to))
      /\ Cardinality(SessionsIn(c, from, to)) \in Nat
      /\ Cardinality(SessionsIn(c, a, b)) \in Nat
  BY SessionsAreFinite
<1>3. Cardinality(SessionsIn(c, a, b)) <= Cardinality(SessionsIn(c, from, to))
  BY <1>1, <1>2, FS_Subset
<1>4. Cardinality(SessionsIn(c, a, b)) # Cardinality(SessionsIn(c, from, to))
  BY <1>1, <1>2, FS_Subset
<1> QED BY <1>2, <1>3, <1>4

\* So many business days from a later date is not earlier, in either direction
\* and whether the dates are sessions or not
\* (trading_calendars/trading_calendar.py:169-194).
LEMMA CountingKeepsOrder ==
  ASSUME NEW c \in DOMAIN Calendars, NEW n \in Int,
         NEW x \in Int, NEW y \in Int, x < y,
         NEW e \in RelativeBusinessDay(c, x, n), NEW f \in RelativeBusinessDay(c, y, n)
  PROVE  e \in Int /\ f \in Int /\ e <= f
<1>1. /\ e \in Int /\ f \in Int /\ IsSession(c, e) /\ IsSession(c, f)
      /\ Counted(c, x, n, e) /\ Counted(c, y, n, f)
  BY RelativeIsCounted DEF Counted
<1>2. SUFFICES ASSUME f < e PROVE FALSE
  BY <1>1
<1>3. CASE n > 0
  <2>1. /\ f > y /\ Cardinality(SessionsIn(c, x + 1, e)) = n
        /\ Cardinality(SessionsIn(c, y + 1, f)) = n
    BY <1>1, <1>3 DEF Counted
  <2>2. e \in SessionsIn(c, x + 1, e) /\ e \notin SessionsIn(c, y + 1, f)
    BY <1>1, <1>2, <2>1 DEF SessionsIn
  <2>3. Cardinality(SessionsIn(c, y + 1, f)) < Cardinality(SessionsIn(c, x + 1, e))
    BY <1>1, <1>2, <2>2, MoreSessions
  <2> QED BY <2>1, <2>3
<1>4. CASE n = 0
  <2>1. e <= x /\ SessionsIn(c, f + 1, y) = {}
    BY <1>1, <1>4 DEF Counted
  <2>2. e \in SessionsIn(c, f + 1, y)
    BY <1>1, <1>2, <2>1 DEF SessionsIn
  <2> QED BY <2>1, <2>2
<1>5. CASE n < 0
  <2>1. /\ e < x /\ Cardinality(SessionsIn(c, e, x - 1)) = -n
        /\ Cardinality(SessionsIn(c, f, y - 1)) = -n
    BY <1>1, <1>5 DEF Counted
  <2>2. f \in SessionsIn(c, f, y - 1) /\ f \notin SessionsIn(c, e, x - 1)
    BY <1>1, <1>2, <2>1 DEF SessionsIn
  <2>3. Cardinality(SessionsIn(c, e, x - 1)) < Cardinality(SessionsIn(c, f, y - 1))
    BY <1>1, <1>2, <2>2, MoreSessions
  <2> QED BY <2>1, <2>3
<1> QED BY <1>3, <1>4, <1>5

\* A period with an earlier first day has an earlier place.
LEMMA EarlierMonthsHaveEarlierPlaces ==
  ASSUME NEW p, IsPeriod(p), p.type = "MONTH", NEW q, IsPeriod(q), q.type = "MONTH",
         p.first < q.first
  PROVE  PlaceOf(p) < PlaceOf(q)
<1>1. PICK i \in Int : /\ i = PlaceOf(p) /\ p.first = StartOf("MONTH", i)
                       /\ p.first \in Int
  BY PeriodsAreDays
<1>2. PICK j \in Int : /\ j = PlaceOf(q) /\ q.first = StartOf("MONTH", j)
                       /\ q.last + 1 = StartOf("MONTH", j + 1)
                       /\ q.first \in Int /\ q.last \in Int /\ q.first <= q.last
                       /\ q.first >= 1
  BY PeriodsAreDays
<1>3. i # j
  BY <1>1, <1>2
<1>4. ~ (j < i)
  <2>1. SUFFICES ASSUME j < i PROVE FALSE
    OBVIOUS
  <2>2. StartOf("MONTH", j + 1) <= StartOf("MONTH", i)
    BY <1>1, <1>2, <2>1, MonthsStartInOrder
  <2> QED BY <1>1, <1>2, <2>2
<1> QED BY <1>1, <1>2, <1>3, <1>4

\* Where a month is shifted to (generation/periods.py:94-175).
LEMMA ShiftedMonthHasPlace ==
  ASSUME NEW p, IsPeriod(p), p.type = "MONTH", NEW n \in Int, NEW s \in ShiftPeriod(p, n)
  PROVE  /\ s.first \in Int /\ s.last \in Int /\ s.first >= 1 /\ s.first <= s.last
         /\ s.first = StartOf("MONTH", PlaceOf(p) + n)
         /\ s.last + 1 = StartOf("MONTH", PlaceOf(p) + n + 1)
<1>1. /\ p.first \in Int /\ p.first >= 1
      /\ p.first = PeriodContaining(p.first, "MONTH").first
      /\ "MONTH" \in Supported
  BY PeriodsAreDays DEF IsPeriod, Supported, PeriodType
<1>2. PICK i \in Int : i = PlaceOf(p) + n
  BY PeriodsAreDays
<1>3. ShiftDate(p.first, "MONTH", n) = StartOf("MONTH", i)
  BY <1>1, <1>2, ShiftGoesOn DEF PlaceOf
<1>4. PICK d : /\ d = StartOf("MONTH", i) /\ d \in Day
               /\ s = PeriodContaining(d, "MONTH")
  BY <1>3 DEF ShiftPeriod, PeriodOn
<1>5. d \in Int /\ d >= 1
  BY <1>4, LastIsoYear DEF Day
<1>6. Place("MONTH", d) = i
  BY <1>1, <1>2, <1>4, <1>5, PlaceOfStart
<1>7. s.first = StartOf("MONTH", i) /\ s.last + 1 = StartOf("MONTH", i + 1)
  BY <1>1, <1>4, <1>5, <1>6, PeriodHasPlace
<1>8. s.first \in Int /\ s.last \in Int /\ s.first >= 1 /\ s.first <= s.last
  BY <1>1, <1>4, <1>5, PeriodHolds
<1> QED BY <1>2, <1>7, <1>8

\* Shifted alike, the earlier month ends before the later one begins, over ends
\* of years and in either direction.
LEMMA ShiftsKeepOrder ==
  ASSUME NEW p, IsPeriod(p), p.type = "MONTH", NEW q, IsPeriod(q), q.type = "MONTH",
         p.first < q.first,
         NEW n \in Int, NEW s \in ShiftPeriod(p, n), NEW t \in ShiftPeriod(q, n)
  PROVE  s.last < t.first
<1>1. PICK i \in Int, j \in Int : i = PlaceOf(p) + n /\ j = PlaceOf(q) + n /\ i < j
  BY PeriodsAreDays, EarlierMonthsHaveEarlierPlaces
<1>2. /\ s.first \in Int /\ s.last \in Int /\ s.first >= 1
      /\ s.first = StartOf("MONTH", i) /\ s.last + 1 = StartOf("MONTH", i + 1)
  BY <1>1, ShiftedMonthHasPlace
<1>3. t.first \in Int /\ t.first = StartOf("MONTH", j)
  BY <1>1, ShiftedMonthHasPlace
<1>4. StartOf("MONTH", i + 1) <= StartOf("MONTH", j)
  BY <1>1, <1>2, MonthsStartInOrder
<1> QED BY <1>2, <1>3, <1>4

\* By one rule on one calendar, the last trading day of a later month is not
\* earlier (trading_calendars/last_trading_day.py:60-110).
LEMMA LastTradingDaysKeepOrder ==
  ASSUME NEW c \in DOMAIN Calendars, NEW rule,
         rule.offset \in Int, rule.days \in Int, rule.event \in ReferenceEvents,
         NEW p, IsPeriod(p), p.type = "MONTH", NEW q, IsPeriod(q), q.type = "MONTH",
         p.first < q.first,
         NEW e \in LastTradingDay(c, p, rule), NEW f \in LastTradingDay(c, q, rule)
  PROVE  e <= f
<1>1. PICK s \in ShiftPeriod(p, rule.offset) : \E x \in ReferenceDate(c, s, rule) :
              e \in RelativeBusinessDay(c, x, rule.days)
  BY DEF LastTradingDay, LastTradingReference
<1>2. PICK t \in ShiftPeriod(q, rule.offset) : \E y \in ReferenceDate(c, t, rule) :
              f \in RelativeBusinessDay(c, y, rule.days)
  BY DEF LastTradingDay, LastTradingReference
<1>3. PICK x \in ReferenceDate(c, s, rule) : e \in RelativeBusinessDay(c, x, rule.days)
  BY <1>1
<1>4. PICK y \in ReferenceDate(c, t, rule) : f \in RelativeBusinessDay(c, y, rule.days)
  BY <1>2
<1>5. s.last < t.first
  BY ShiftsKeepOrder
<1>6. /\ s.first \in Int /\ s.last \in Int /\ t.first \in Int /\ t.last \in Int
  BY ShiftIsOne
<1>7. x \in Int /\ x <= s.last
  BY <1>6, ReferenceLiesInPeriod
<1>8. y \in Int /\ t.first <= y
  BY <1>6, ReferenceLiesInPeriod
<1>9. x < y
  BY <1>5, <1>6, <1>7, <1>8
<1> QED BY <1>3, <1>4, <1>7, <1>8, <1>9, CountingKeepsOrder

\* While there are contracts, also after the command has ended: each was made of
\* a period, from the one record of its product.
MadeInv ==
    contracts # {} =>
        /\ ProductsAreDistinct
        /\ \A document \in Read : document.product.calendar \in DOMAIN Calendars
        /\ \A k \in contracts : IsMade(k) /\ IsPeriod(k.period)

LEMMA MadeStart == ASSUME DesiredInit PROVE MadeInv
BY DEF DesiredInit, MadeInv

LEMMA MadeStep ==
  ASSUME MadeInv, ContractInv, Placed, [DesiredNext]_desiredVars
  PROVE  MadeInv'
<1>1. ASSUME UNCHANGED <<records, contracts>> PROVE MadeInv'
  <2>1. /\ Read' = Read /\ ProductsAreDistinct' = ProductsAreDistinct
        /\ \A k : IsMade(k)' = IsMade(k)
    BY <1>1 DEF Recorded, Read, ProductsAreDistinct, IsMade
  <2> QED BY <1>1, <2>1 DEF MadeInv
<1>2. CASE RepositoryMoves \/ UNCHANGED desiredVars
  <2>1. UNCHANGED <<records, contracts>>
    BY <1>2 DEF RepositoryMoves, StartCheckout, CheckoutFile, FinishCheckout, EditFile,
                RepositoryStep, sourceVars, contractVars, desiredVars
  <2> QED BY <1>1, <2>1
<1>3. CASE \/ ReadConfiguration \/ ListFiles \/ EndLoading \/ ResolveRevision
           \/ RevisionUnresolved \/ GeneratePeriods \/ EndPeriods \/ ValidateCoverage
           \/ EndContracts \/ DropOwnedSchema \/ PersistDesiredState
  <2>1. UNCHANGED <<records, contracts>>
    BY <1>3 DEF ReadConfiguration, ListFiles, EndLoading, ResolveRevision,
                RevisionUnresolved, GeneratePeriods, EndPeriods, ValidateCoverage,
                EndContracts, DropOwnedSchema, PersistDesiredState, sourceVars, contractVars
  <2> QED BY <1>1, <2>1
<1>4. CASE LoadFuturesProduct
  <2>1. contracts' = {}
    BY <1>4 DEF LoadFuturesProduct, contractVars, ContractInv, Calendared
  <2> QED BY <2>1 DEF MadeInv
<1>5. CASE GenerateFuturesContracts
  <2>1. /\ stage = "contracts" /\ unmade # <<>> /\ records' = records
        /\ unmade \in Seq(Recorded)
    BY <1>5 DEF GenerateFuturesContracts, sourceVars, ContractInv
  <2>2. /\ Read' = Read /\ ProductsAreDistinct' = ProductsAreDistinct
        /\ \A k : IsMade(k)' = IsMade(k)
    BY <2>1 DEF Recorded, Read, ProductsAreDistinct, IsMade
  <2>3. /\ ProductsAreDistinct
        /\ \A document \in Read : document.product.calendar \in DOMAIN Calendars
    BY <2>1 DEF ContractInv, Loaded, Calendared
  <2>4. PICK r \in Recorded : r = Head(unmade)
    BY <2>1
  <2>5. ASSUME NEW k \in contracts' PROVE IsMade(k) /\ IsPeriod(k.period)
    <3>1. CASE k \in contracts
      BY <3>1 DEF MadeInv
    <3>2. CASE k \notin contracts
      <4>1. k \in UNION ContractsOf(r.document, Emitted)
        BY <1>5, <2>4, <2>5, <3>2 DEF GenerateFuturesContracts, Raise
      <4>2. PICK p \in Emitted : k \in Contract(r.document.id, r.document.product, p)
        BY <4>1 DEF ContractsOf
      <4>3. IsPeriod(p)
        BY <4>2 DEF Emitted, Placed
      <4> QED BY <4>2, <4>3 DEF Contract, IsMade
    <3> QED BY <3>1, <3>2
  <2> QED BY <2>2, <2>3, <2>5 DEF MadeInv
<1> QED BY <1>2, <1>3, <1>4, <1>5 DEF DesiredNext, CommandStep

\* Contracts are of months: others have no listing
\* (trading_calendars/first_day_of_interest.py).
LEMMA ContractsAreOfMonths ==
  ASSUME NEW c, NEW p, NEW rule, NEW lastTrading,
         NEW i \in FirstDayOfInterest(c, p, rule, lastTrading)
  PROVE  p.type = "MONTH"
BY DEF FirstDayOfInterest, InterestReference, Listing

\* Contracts of one product were made by one rule on one calendar.
LEMMA ExpiriesAreOrdered ==
  ASSUME MadeInv, ContractInv
  PROVE  ExpiriesFollowPeriods
<1> SUFFICES ASSUME NEW k \in contracts, NEW l \in contracts,
                    k.product = l.product, k.period.first < l.period.first
             PROVE  k.expiry <= l.expiry
  BY DEF ExpiriesFollowPeriods
<1>1. /\ ProductsAreDistinct
      /\ \A document \in Read : document.product.calendar \in DOMAIN Calendars
      /\ IsMade(k) /\ IsPeriod(k.period) /\ IsMade(l) /\ IsPeriod(l.period)
  BY DEF MadeInv
<1>2. PICK i \in DOMAIN records :
        LET product == records[i].document.product
        IN  /\ k.product = records[i].document.id
            /\ k.expiry \in LastTradingDay(product.calendar, k.period, product.lastTrading)
            /\ k.interest \in FirstDayOfInterest(product.calendar, k.period,
                                                 product.interest, product.lastTrading)
  BY <1>1 DEF IsMade, Recorded
<1>3. PICK j \in DOMAIN records :
        LET product == records[j].document.product
        IN  /\ l.product = records[j].document.id
            /\ l.expiry \in LastTradingDay(product.calendar, l.period, product.lastTrading)
            /\ l.interest \in FirstDayOfInterest(product.calendar, l.period,
                                                 product.interest, product.lastTrading)
  BY <1>1 DEF IsMade, Recorded
<1>4. i = j
  BY <1>1, <1>2, <1>3 DEF ProductsAreDistinct
<1>5. PICK product : product = records[i].document.product
  OBVIOUS
<1>6. /\ product.lastTrading.event \in ReferenceEvents
      /\ product.lastTrading.days \in Int /\ product.lastTrading.offset \in Int
      /\ product.calendar \in DOMAIN Calendars
  BY <1>1, <1>2, <1>5 DEF ContractInv, Recorded, Parses, Read
<1>7. k.period.type = "MONTH" /\ l.period.type = "MONTH"
  BY <1>2, <1>3, ContractsAreOfMonths
<1>8. /\ k.expiry \in LastTradingDay(product.calendar, k.period, product.lastTrading)
      /\ l.expiry \in LastTradingDay(product.calendar, l.period, product.lastTrading)
  BY <1>2, <1>3, <1>4, <1>5
<1> QED BY <1>1, <1>6, <1>7, <1>8, LastTradingDaysKeepOrder

----------------------------------------------------------------------------
(* The months of the calendar, by their places *)

MonthStart(i) == StartOf("MONTH", i)

\* The month at a place, of 28 days at least, and the one after it.
LEMMA MonthAtPlace ==
  ASSUME NEW i \in Int, i >= 12
  PROVE  /\ MonthStart(i) \in Int /\ MonthStart(i) >= 1
         /\ MonthStart(i + 1) \in Int /\ MonthStart(i) + 28 <= MonthStart(i + 1)
         /\ MonthStart(i) = DayOf(i \div 12, (i % 12) + 1, 1)
         /\ MonthStart(i + 1) = NextMonth(i \div 12, (i % 12) + 1)
         /\ Place("MONTH", MonthStart(i)) = i
         /\ YearOf(MonthStart(i)) = i \div 12 /\ MonthOf(MonthStart(i)) = (i % 12) + 1
<1>1. PICK y \in Int, m \in 1..12 : y = i \div 12 /\ m = (i % 12) + 1 /\ i = 12 * y + m - 1
  OBVIOUS
<1>2. y >= 1
  BY <1>1
<1>3. PICK d \in Int, n \in 28..31 : /\ d = DayOf(y, m, 1) /\ NextMonth(y, m) = d + n
  BY <1>2, MonthsFollow
<1>4. d >= 1
  <2>1. DaysBefore(y) \in Nat
    BY <1>2, YearsAreNatural
  <2>2. DaysBeforeMonth(y, m) >= 0 /\ DaysBeforeMonth(y, m) \in Int
    BY DEF DaysBeforeMonth
  <2> QED BY <1>3, <2>1, <2>2 DEF DayOf
<1>5. MonthStart(i) = d
  BY <1>1, <1>3 DEF MonthStart, StartOf
<1>6. YearOf(d) = y /\ MonthOf(d) = m
  BY <1>2, <1>3, <1>4, MonthOfUnique
<1>7. MonthStart(i + 1) = NextMonth(y, m)
  <2>1. CASE m = 12
    <3>1. (i + 1) \div 12 = y + 1 /\ ((i + 1) % 12) + 1 = 1
      BY <1>1, <2>1
    <3> QED BY <2>1, <3>1 DEF MonthStart, StartOf, NextMonth
  <2>2. CASE m # 12
    <3>1. m \in 0..11 /\ i + 1 = 12 * y + m
      BY <1>1, <2>2
    <3>2. (12 * y + m) \div 12 = y /\ (12 * y + m) % 12 = m
      BY <3>1
    <3>3. (i + 1) \div 12 = y /\ ((i + 1) % 12) + 1 = m + 1
      BY <3>1, <3>2
    <3> QED BY <2>2, <3>3 DEF MonthStart, StartOf, NextMonth
  <2> QED BY <2>1, <2>2
<1>8. Place("MONTH", d) = i
  <2>1. "MONTH" \in Supported
    BY DEF Supported, PeriodType
  <2> QED BY <1>3, <1>4, <1>5, <2>1, PlaceOfStart DEF MonthStart
<1> QED BY <1>1, <1>3, <1>4, <1>5, <1>6, <1>7, <1>8

\* A day lies in the month at its place.
LEMMA DayHasPlace ==
  ASSUME NEW d \in Int, d >= 1
  PROVE  /\ Place("MONTH", d) \in Int /\ Place("MONTH", d) >= 12
         /\ Place("MONTH", d) = 12 * YearOf(d) + MonthOf(d) - 1
         /\ YearOf(d) \in Int /\ MonthOf(d) \in 1..12
         /\ MonthStart(Place("MONTH", d)) <= d /\ d < MonthStart(Place("MONTH", d) + 1)
<1>1. PICK y \in Int, m \in 1..12 : /\ y = YearOf(d) /\ y >= 1 /\ m = MonthOf(d)
  BY YearOfCorrect, MonthOfCorrect
<1>2. PICK i \in Int : i = Place("MONTH", d) /\ i = 12 * y + m - 1
  BY <1>1 DEF Place, MonthIndex
<1>3. i >= 12
  BY <1>1, <1>2
<1>4. "MONTH" \in Supported
  BY DEF Supported, PeriodType
<1>5. /\ PeriodContaining(d, "MONTH").first = MonthStart(i)
      /\ PeriodContaining(d, "MONTH").last + 1 = MonthStart(i + 1)
  BY <1>2, <1>4, PeriodHasPlace DEF MonthStart
<1>6. PICK f \in Int, l \in Int : /\ f = PeriodContaining(d, "MONTH").first
                                  /\ l = PeriodContaining(d, "MONTH").last
                                  /\ f <= d /\ d <= l
  BY <1>4, PeriodHolds
<1> QED BY <1>1, <1>2, <1>3, <1>5, <1>6

\* The same date of another year is as far into its month.
LEMMA SameDateHasPlace ==
  ASSUME NEW day \in Int, day >= 1, NEW k \in Int, SameDateExists(day, k),
         NEW i, i = Place("MONTH", day)
  PROVE  /\ i \in Int /\ i + 12 * k >= 12
         /\ SameDate(day, k) = MonthStart(i + 12 * k) + (day - MonthStart(i))
         /\ SameDate(day, k) < MonthStart(i + 12 * k + 1)
<1>1. PICK y \in Int, m \in 1..12 : /\ y = YearOf(day) /\ m = MonthOf(day)
                                    /\ i = 12 * y + m - 1 /\ i >= 12
  BY DayHasPlace
<1>2. PICK d : d = DayOfMonth(day)
  OBVIOUS
<1>3. IsDate(y + k, m, d) /\ SameDate(day, k) = DayOf(y + k, m, d)
  BY <1>1, <1>2 DEF SameDateExists, SameDate
<1>4. PICK j \in Int : j = i + 12 * k
  BY <1>1
<1>5. j = 12 * (y + k) + m - 1 /\ y + k \in Int /\ y + k >= 1
  <2>1. y + k \in MinYear..MaxYear
    BY <1>3 DEF IsDate
  <2>2. y + k >= 1
    BY <2>1 DEF MinYear
  <2>3. j = 12 * (y + k) + m - 1
    BY <1>1, <1>4
  <2> QED BY <1>1, <2>2, <2>3
<1>6. j >= 12 /\ j \div 12 = y + k /\ (j % 12) + 1 = m
  <2>1. \A z \in Int, n \in 1..12 :
            (12 * z + n - 1) \div 12 = z /\ ((12 * z + n - 1) % 12) + 1 = n
    OBVIOUS
  <2> QED BY <1>4, <1>5, <2>1
<1>7. i \div 12 = y /\ (i % 12) + 1 = m
  BY <1>1
<1>8. MonthStart(j) = DayOf(y + k, m, 1) /\ MonthStart(i) = DayOf(y, m, 1)
  BY <1>1, <1>4, <1>6, <1>7, MonthAtPlace
<1>9. MonthStart(j + 1) = DayOf(y + k, m, 1) + DaysInMonth(y + k, m)
  <2>1. MonthStart(j + 1) = NextMonth(y + k, m)
    BY <1>4, <1>6, MonthAtPlace
  <2> QED BY <1>5, <2>1, MonthsFollow
<1>10. PICK n \in 28..31 : n = DaysInMonth(y + k, m) /\ d \in 1..n
  BY <1>3, <1>5, MonthsFollow DEF IsDate
<1>11. /\ DaysBefore(y) \in Int /\ DaysBefore(y + k) \in Int
       /\ DaysBeforeMonth(y, m) \in Int /\ DaysBeforeMonth(y + k, m) \in Int
  BY DEF DaysBefore, DaysBeforeMonth
<1>12. d = day - DaysBefore(y) - DaysBeforeMonth(y, m)
  BY <1>1, <1>2, <1>11 DEF DayOfMonth, DayOfYear
<1>13. /\ SameDate(day, k) = MonthStart(j) + (day - MonthStart(i))
       /\ SameDate(day, k) < MonthStart(j + 1)
  BY <1>3, <1>8, <1>9, <1>10, <1>11, <1>12 DEF DayOf
<1> QED BY <1>1, <1>4, <1>6, <1>13

\* Later months begin at least 28 days later.
LEMMA MonthsAreLong ==
  ASSUME NEW i \in Int, i >= 12, NEW j \in Int, i < j
  PROVE  MonthStart(j) \in Int /\ MonthStart(i) + 28 <= MonthStart(j)
<1>1. /\ MonthStart(i) \in Int /\ MonthStart(i) >= 1
      /\ MonthStart(i + 1) \in Int /\ MonthStart(i) + 28 <= MonthStart(i + 1)
  BY MonthAtPlace
<1>2. MonthStart(j) \in Int /\ MonthStart(i + 1) <= MonthStart(j)
  BY <1>1, MonthsStartInOrder DEF MonthStart
<1> QED BY <1>1, <1>2

IsMonthAt(q, i) ==
    /\ IsPeriod(q) /\ q.type = "MONTH" /\ PlaceOf(q) = i
    /\ q.first = MonthStart(i) /\ q.last = MonthStart(i + 1) - 1

\* At each place before the last day there is a month.
LEMMA MonthIsThere ==
  ASSUME NEW i \in Int, i >= 12, MonthStart(i + 1) <= LastDay
  PROVE  \E q \in PeriodOn(MonthStart(i), "MONTH") : IsMonthAt(q, i)
<1>1. PICK d \in Int, e \in Int : /\ d = MonthStart(i) /\ d >= 1 /\ e = MonthStart(i + 1)
                                  /\ d + 28 <= e /\ Place("MONTH", d) = i
                                  /\ e = NextMonth(YearOf(d), MonthOf(d))
                                  /\ d = DayOf(YearOf(d), MonthOf(d), 1)
  BY MonthAtPlace
<1>2. d \in Day
  BY <1>1, LastIsoYear DEF Day
<1>3. Constructible(d, "MONTH")
  BY <1>1 DEF Constructible
<1>4. PICK q : q = PeriodContaining(d, "MONTH")
  OBVIOUS
<1>5. q.type = "MONTH" /\ q.first = d /\ q.last = e - 1
  BY <1>1, <1>4 DEF PeriodContaining, MonthContaining, PeriodOf
<1>6. "MONTH" \in Supported
  BY DEF Supported, PeriodType
<1>7. IsMonthAt(q, i)
  BY <1>1, <1>2, <1>3, <1>4, <1>5, <1>6 DEF IsMonthAt, IsPeriod, PlaceOf
<1> QED BY <1>1, <1>2, <1>3, <1>4, <1>7 DEF PeriodOn

\* A month can be shifted to any such place.
LEMMA ShiftIsThere ==
  ASSUME NEW p, IsPeriod(p), p.type = "MONTH", NEW n \in Int,
         PlaceOf(p) + n >= 12, MonthStart(PlaceOf(p) + n + 1) <= LastDay
  PROVE  \E q \in ShiftPeriod(p, n) : IsMonthAt(q, PlaceOf(p) + n)
<1>1. PICK i \in Int : i = PlaceOf(p) + n
  BY PeriodsAreDays
<1>2. /\ p.first \in Int /\ p.first >= 1
      /\ p.first = PeriodContaining(p.first, "MONTH").first
      /\ "MONTH" \in Supported
  BY PeriodsAreDays DEF IsPeriod, Supported, PeriodType
<1>3. ShiftDate(p.first, "MONTH", n) = MonthStart(i)
  BY <1>1, <1>2, ShiftGoesOn DEF PlaceOf, MonthStart
<1>4. PICK q \in PeriodOn(MonthStart(i), "MONTH") : IsMonthAt(q, i)
  BY <1>1, MonthIsThere
<1> QED BY <1>1, <1>3, <1>4 DEF ShiftPeriod

----------------------------------------------------------------------------
(* Dates that can be counted: there are enough sessions on that side *)

\* Some element of a finite set is the k-th, counted from either end.
LEMMA SomeIsCounted ==
  ASSUME NEW S \in SUBSET Int, IsFiniteSet(S), NEW k \in 1..Cardinality(S)
  PROVE  /\ \E x \in S : Cardinality({y \in S : y <= x}) = k
         /\ \E x \in S : Cardinality({y \in S : y >= x}) = k
<1> DEFINE smaller == [x \in S |-> {y \in S : y < x}]
           greater == [x \in S |-> {y \in S : y > x}]
<1>1. /\ smaller \in [S -> SUBSET S] /\ greater \in [S -> SUBSET S]
      /\ \A x, y \in S : /\ y \in smaller[x] <=> y < x
                         /\ y \in greater[x] <=> y > x
      /\ \A x \in S : smaller[x] \subseteq S /\ greater[x] \subseteq S
  OBVIOUS
<1>2. \A x \in S : x \in Int
  OBVIOUS
<1> HIDE DEF smaller, greater
<1>3. IsRanking(S, smaller) /\ IsRanking(S, greater)
  <2>1. ASSUME NEW x \in S, NEW y \in S
        PROVE  /\ x \notin smaller[x] /\ x \notin greater[x]
               /\ x # y => x \in smaller[y] \/ y \in smaller[x]
               /\ x # y => x \in greater[y] \/ y \in greater[x]
    BY <1>1, <1>2
  <2>2. ASSUME NEW x \in S, NEW y \in S, y \in smaller[x], NEW z \in smaller[y]
        PROVE  z \in smaller[x]
    <3>1. x \in Int /\ y \in Int /\ y < x /\ z \in S /\ z \in Int /\ z < y
      BY <1>1, <1>2, <2>2
    <3> QED BY <1>1, <3>1
  <2>3. ASSUME NEW x \in S, NEW y \in S, y \in greater[x], NEW z \in greater[y]
        PROVE  z \in greater[x]
    <3>1. x \in Int /\ y \in Int /\ y > x /\ z \in S /\ z \in Int /\ z > y
      BY <1>1, <1>2, <2>3
    <3> QED BY <1>1, <3>1
  <2> QED BY <1>1, <2>1, <2>2, <2>3 DEF IsRanking
<1>4. ASSUME NEW T \in SUBSET S, NEW x \in S, x \notin T, Cardinality(T) = k - 1
      PROVE  Cardinality(T \cup {x}) = k
  <2>1. IsFiniteSet(T)
    BY FS_Subset
  <2>2. Cardinality(T \cup {x}) = k - 1 + 1
    BY <1>4, <2>1, FS_AddElement
  <2> QED BY <2>2
<1>5. \E x \in S : Cardinality({y \in S : y <= x}) = k
  <2>1. PICK x \in S : Cardinality(smaller[x]) = k - 1
    BY <1>3, EveryPlaceIsTaken
  <2>2. smaller[x] \in SUBSET S /\ x \notin smaller[x]
    BY <1>1, <1>2
  <2>3. {y \in S : y <= x} = smaller[x] \cup {x}
    <3>1. \A y : y \in smaller[x] <=> y \in S /\ y < x
      BY <1>1
    <3>2. \A y \in S : y <= x <=> y < x \/ y = x
      BY <1>2
    <3> QED BY <3>1, <3>2
  <2> QED BY <1>4, <2>1, <2>2, <2>3
<1>6. \E x \in S : Cardinality({y \in S : y >= x}) = k
  <2>1. PICK x \in S : Cardinality(greater[x]) = k - 1
    BY <1>3, EveryPlaceIsTaken
  <2>2. greater[x] \in SUBSET S /\ x \notin greater[x]
    BY <1>1, <1>2
  <2>3. {y \in S : y >= x} = greater[x] \cup {x}
    <3>1. \A y : y \in greater[x] <=> y \in S /\ y > x
      BY <1>1
    <3>2. \A y \in S : y >= x <=> y > x \/ y = x
      BY <1>2
    <3> QED BY <3>1, <3>2
  <2> QED BY <1>4, <2>1, <2>2, <2>3
<1> QED BY <1>5, <1>6

\* An index is taken of a list that is long enough for it.
LEMMA NthIsThere ==
  ASSUME NEW days \in SUBSET Int, IsFiniteSet(days), NEW n \in Int,
         Cardinality(days) >= 1, n <= Cardinality(days), -n <= Cardinality(days)
  PROVE  Nth(days, n) # {}
<1>1. PICK k \in 1..Cardinality(days) :
        k = IF n > 0 THEN n ELSE IF n = 0 THEN 1 ELSE Cardinality(days) + n + 1
  BY FS_CardinalityType
<1>2. PICK x \in days : Cardinality({d \in days : d <= x}) = k
  BY SomeIsCounted
<1> QED BY <1>1, <1>2 DEF Nth

\* session_offset finds a session if there are as many that way.
LEMMA OffsetIsThere ==
  ASSUME NEW c \in DOMAIN Calendars, NEW s, IsSession(c, s), NEW n \in Int,
         n >= 0 => Cardinality(SessionsIn(c, s + 1, LastSession(c))) >= n,
         n < 0 => Cardinality(SessionsIn(c, FirstSession(c), s - 1)) >= -n
  PROVE  SessionOffset(c, s, n) # {}
<1>1. PICK f \in Int, l \in Int : f = FirstSession(c) /\ l = LastSession(c)
  BY SessionsAreDays
<1>2. s \in Int /\ f <= s /\ s <= l
  BY <1>1, SessionsAreDays
<1> DEFINE places == IF n >= 0 THEN 0..l - s ELSE 1..s - f
           At(k)  == IF n >= 0 THEN s + k ELSE s - k
<1>3. (\E k \in places : IsShifted(c, s, n, At(k))) => SessionOffset(c, s, n) # {}
  <2>1. SUFFICES ASSUME \E k \in places : IsShifted(c, s, n, At(k))
                 PROVE  SessionOffset(c, s, n) # {}
    OBVIOUS
  <2>2. SessionOffset(c, s, n) = {At(CHOOSE k \in places : IsShifted(c, s, n, At(k)))}
    BY <1>1, <2>1 DEF SessionOffset
  <2> QED BY <2>2
<1>4. \E k \in places : IsShifted(c, s, n, At(k))
  <2>1. CASE n = 0
    <3>1. SessionsIn(c, s + 1, s) = {}
      BY <1>2 DEF SessionsIn
    <3>2. IsShifted(c, s, n, s)
      BY <1>2, <2>1, <3>1, FS_EmptySet DEF IsShifted
    <3>3. 0 \in places /\ At(0) = s
      BY <1>1, <1>2, <2>1
    <3> QED BY <3>2, <3>3
  <2>2. CASE n > 0
    <3> DEFINE set == SessionsIn(c, s + 1, l)
    <3>1. IsFiniteSet(set) /\ Cardinality(set) \in Nat /\ set \in SUBSET Int
      BY <1>1, <1>2, SessionsAreFinite
    <3>2. n \in 1..Cardinality(set)
      BY <1>1, <2>2, <3>1
    <3> HIDE DEF set
    <3>3. PICK x \in set : Cardinality({y \in set : y <= x}) = n
      BY <3>1, <3>2, SomeIsCounted
    <3>4. x \in Int /\ s < x /\ x <= l /\ IsSession(c, x)
      BY <1>1, <1>2, <3>1 DEF set, SessionsIn
    <3>5. {y \in set : y <= x} = SessionsIn(c, s + 1, x)
      BY <1>1, <1>2, <3>4 DEF set, SessionsIn
    <3>6. IsShifted(c, s, n, x)
      BY <1>2, <2>2, <3>3, <3>4, <3>5 DEF IsShifted
    <3>7. x - s \in places /\ At(x - s) = x
      BY <1>1, <1>2, <2>2, <3>4
    <3> QED BY <3>6, <3>7
  <2>3. CASE n < 0
    <3> DEFINE set == SessionsIn(c, f, s - 1)
    <3>1. IsFiniteSet(set) /\ Cardinality(set) \in Nat /\ set \in SUBSET Int
      BY <1>1, <1>2, SessionsAreFinite
    <3>2. -n \in 1..Cardinality(set)
      BY <1>1, <2>3, <3>1
    <3> HIDE DEF set
    <3>3. PICK x \in set : Cardinality({y \in set : y >= x}) = -n
      BY <3>1, <3>2, SomeIsCounted
    <3>4. x \in Int /\ f <= x /\ x < s /\ IsSession(c, x)
      BY <1>1, <1>2, <3>1 DEF set, SessionsIn
    <3>5. {y \in set : y >= x} = SessionsIn(c, x, s - 1)
      BY <1>1, <1>2, <3>4 DEF set, SessionsIn
    <3>6. IsShifted(c, s, n, x)
      BY <1>2, <2>3, <3>3, <3>4, <3>5 DEF IsShifted
    <3>7. s - x \in places /\ At(s - x) = x
      BY <1>1, <1>2, <2>3, <3>4
    <3> QED BY <3>6, <3>7
  <2> QED BY <2>1, <2>2, <2>3
<1> QED BY <1>3, <1>4

\* Between days further apart there are at least as many sessions.
LEMMA NoFewerSessions ==
  ASSUME NEW c, NEW a \in Int, NEW b \in Int, NEW from \in Int, NEW to \in Int,
         from <= a, b <= to
  PROVE  /\ Cardinality(SessionsIn(c, a, b)) \in Nat
         /\ Cardinality(SessionsIn(c, from, to)) \in Nat
         /\ Cardinality(SessionsIn(c, a, b)) <= Cardinality(SessionsIn(c, from, to))
<1>1. SessionsIn(c, a, b) \subseteq SessionsIn(c, from, to)
  BY DEF SessionsIn
<1>2. /\ IsFiniteSet(SessionsIn(c, from, to))
      /\ Cardinality(SessionsIn(c, from, to)) \in Nat
      /\ Cardinality(SessionsIn(c, a, b)) \in Nat
  BY SessionsAreFinite
<1> QED BY <1>1, <1>2, FS_Subset

\* Business days can be counted from a covered day if there are as many sessions
\* on that side of it (trading_calendars/trading_calendar.py:169-194).
LEMMA RelativeIsThere ==
  ASSUME NEW c \in DOMAIN Calendars, NEW day \in Int, Covered(c, day), NEW n \in Int,
         n > 0 => Cardinality(SessionsIn(c, day + 1, LastSession(c))) >= n,
         n < 0 => Cardinality(SessionsIn(c, FirstSession(c), day - 1)) >= -n
  PROVE  RelativeBusinessDay(c, day, n) # {}
<1>1. PICK f \in Int, l \in Int : f = FirstSession(c) /\ l = LastSession(c)
  BY SessionsAreDays
<1>2. PICK s \in LastPriorSession(c, day) : TRUE
  BY DEF LastPriorSession
<1>3. s \in Int /\ IsSession(c, s) /\ s <= day /\ SessionsIn(c, s + 1, day) = {}
  BY LastPriorIsLast
<1>4. f <= s /\ s <= l
  BY <1>1, <1>3, SessionsAreDays
<1>5. PICK m \in Int : m = Adjusted(c, day, n)
  BY DEF Adjusted
<1>6. m >= 0 => Cardinality(SessionsIn(c, s + 1, l)) >= m
  <2>1. CASE n > 0
    <3>1. m = n
      BY <1>5, <2>1 DEF Adjusted
    <3>2. Cardinality(SessionsIn(c, day + 1, l)) >= n
      BY <1>1, <2>1
    <3>3. /\ Cardinality(SessionsIn(c, day + 1, l)) \in Nat
          /\ Cardinality(SessionsIn(c, s + 1, l)) \in Nat
          /\ Cardinality(SessionsIn(c, day + 1, l)) <= Cardinality(SessionsIn(c, s + 1, l))
      BY <1>3, NoFewerSessions
    <3> QED BY <3>1, <3>2, <3>3
  <2>2. CASE n <= 0
    <3>1. m <= 0
      BY <1>5, <2>2 DEF Adjusted
    <3>2. Cardinality(SessionsIn(c, s + 1, l)) \in Nat
      BY <1>3, SessionsAreFinite
    <3> QED BY <3>1, <3>2
  <2> QED BY <2>1, <2>2
<1>7. m < 0 => Cardinality(SessionsIn(c, f, s - 1)) >= -m
  <2>1. SUFFICES ASSUME m < 0 PROVE Cardinality(SessionsIn(c, f, s - 1)) >= -m
    OBVIOUS
  <2>2. n < 0
    BY <1>5, <2>1 DEF Adjusted
  <2>3. Cardinality(SessionsIn(c, f, day - 1)) >= -n
    BY <1>1, <2>2
  <2>4. ASSUME NEW d, IsSession(c, d), d > s, d <= day PROVE FALSE
    BY <1>3, <2>4, SessionsAreDays DEF SessionsIn
  <2>5. CASE IsSession(c, day)
    <3>1. m = n /\ s = day
      BY <1>3, <1>5, <2>4, <2>5 DEF Adjusted
    <3> QED BY <2>3, <3>1
  <2>6. CASE ~IsSession(c, day)
    <3>1. m = n + 1 /\ s < day
      BY <1>3, <1>5, <2>2, <2>6 DEF Adjusted
    <3>2. SessionsIn(c, f, day - 1) = SessionsIn(c, f, s - 1) \cup {s}
      <4>1. ASSUME NEW d \in SessionsIn(c, f, day - 1)
            PROVE  d \in SessionsIn(c, f, s - 1) \cup {s}
        <5>1. d \in Int /\ f <= d /\ d <= day - 1 /\ IsSession(c, d)
          BY <1>1, <4>1 DEF SessionsIn
        <5>2. d <= s
          BY <1>3, <2>4, <5>1
        <5> QED BY <1>1, <1>3, <5>1, <5>2 DEF SessionsIn
      <4>2. ASSUME NEW d \in SessionsIn(c, f, s - 1) \cup {s}
            PROVE  d \in SessionsIn(c, f, day - 1)
        BY <1>1, <1>3, <1>4, <3>1, <4>2 DEF SessionsIn
      <4> QED BY <4>1, <4>2
    <3>3. /\ s \notin SessionsIn(c, f, s - 1)
          /\ IsFiniteSet(SessionsIn(c, f, s - 1))
          /\ Cardinality(SessionsIn(c, f, s - 1)) \in Nat
      BY <1>1, <1>3, SessionsAreFinite DEF SessionsIn
    <3>4. Cardinality(SessionsIn(c, f, day - 1)) = Cardinality(SessionsIn(c, f, s - 1)) + 1
      BY <3>2, <3>3, FS_AddElement
    <3> QED BY <2>3, <3>1, <3>3, <3>4
  <2> QED BY <2>5, <2>6
<1>8. SessionOffset(c, s, m) # {}
  BY <1>1, <1>3, <1>6, <1>7, OffsetIsThere
<1> QED BY <1>2, <1>5, <1>8 DEF RelativeBusinessDay

\* Fifteen sessions lie between covered days that are four weeks apart or more.
LEMMA FourWeeksHaveSessions ==
  ASSUME RegularCalendars, NEW c \in DOMAIN Calendars, NEW a \in Int, NEW b \in Int,
         Covered(c, a), Covered(c, b), a + 27 <= b
  PROVE  /\ Cardinality(SessionsIn(c, a, b)) \in Nat
         /\ Cardinality(SessionsIn(c, a, b)) >= 15
<1>1. PICK f \in Int, l \in Int : f = FirstSession(c) /\ l = LastSession(c)
  BY SessionsAreDays
<1>2. a \in f..l - 27
  BY <1>1 DEF Covered
<1>3. Cardinality(SessionsIn(c, a, a + 27)) >= 15
  BY <1>1, <1>2 DEF RegularCalendars
<1>4. /\ Cardinality(SessionsIn(c, a, a + 27)) \in Nat
      /\ Cardinality(SessionsIn(c, a, b)) \in Nat
      /\ Cardinality(SessionsIn(c, a, a + 27)) <= Cardinality(SessionsIn(c, a, b))
  BY NoFewerSessions
<1> QED BY <1>3, <1>4

\* From a day with four covered weeks after it, and before it if days are counted
\* back, any date so near is found.
LEMMA NearDatesAreThere ==
  ASSUME RegularCalendars, NEW c \in DOMAIN Calendars, NEW day \in Int, NEW n \in -10..10,
         FirstSession(c) <= day, day + 28 <= LastSession(c),
         n < 0 => FirstSession(c) + 28 <= day
  PROVE  RelativeBusinessDay(c, day, n) # {}
<1>1. PICK f \in Int, l \in Int : f = FirstSession(c) /\ l = LastSession(c)
  BY SessionsAreDays
<1>2. Covered(c, day)
  BY <1>1 DEF Covered
<1>3. n > 0 => Cardinality(SessionsIn(c, day + 1, LastSession(c))) >= n
  <2>1. Covered(c, day + 1) /\ Covered(c, l) /\ day + 1 + 27 <= l
    BY <1>1 DEF Covered
  <2>2. /\ Cardinality(SessionsIn(c, day + 1, l)) \in Nat
        /\ Cardinality(SessionsIn(c, day + 1, l)) >= 15
    BY <1>1, <2>1, FourWeeksHaveSessions
  <2> QED BY <1>1, <2>2
<1>4. n < 0 => Cardinality(SessionsIn(c, FirstSession(c), day - 1)) >= -n
  <2>1. SUFFICES ASSUME n < 0 PROVE Cardinality(SessionsIn(c, f, day - 1)) >= -n
    BY <1>1
  <2>2. Covered(c, f) /\ Covered(c, day - 1) /\ f + 27 <= day - 1
    BY <1>1, <2>1 DEF Covered
  <2>3. /\ Cardinality(SessionsIn(c, f, day - 1)) \in Nat
        /\ Cardinality(SessionsIn(c, f, day - 1)) >= 15
    BY <1>1, <2>2, FourWeeksHaveSessions
  <2> QED BY <2>3
<1> QED BY <1>2, <1>3, <1>4, RelativeIsThere

----------------------------------------------------------------------------
(* The dates of the rules of a month, where the calendar has room for them *)

\* A month does not begin before an earlier one.
LEMMA MonthsStartLater ==
  ASSUME NEW i \in Int, i >= 12, NEW j \in Int, i <= j
  PROVE  MonthStart(i) \in Int /\ MonthStart(j) \in Int /\ MonthStart(i) <= MonthStart(j)
<1>1. MonthStart(i) \in Int
  BY MonthAtPlace
<1>2. CASE i = j
  BY <1>1, <1>2
<1>3. CASE i < j
  BY <1>1, <1>3, MonthsAreLong
<1> QED BY <1>2, <1>3

DaysOn(w, first, last) == {day \in first..last : Weekday(day) = w}

\* A month has each weekday four times.
LEMMA WeekdaysRecur ==
  ASSUME NEW first \in Int, NEW last \in Int, first + 27 <= last, NEW w \in 0..6,
         NEW days, days = DaysOn(w, first, last)
  PROVE  /\ days \in SUBSET Int /\ IsFiniteSet(days)
         /\ Cardinality(days) \in Nat /\ Cardinality(days) >= 4
<1>1. PICK a \in Int, r \in 0..6 : first + 6 = 7 * a + r
  <2>1. first + 6 = 7 * ((first + 6) \div 7) + ((first + 6) % 7)
    OBVIOUS
  <2> QED BY <2>1
<1>2. PICK b \in Int, t \in 0..6 : w - r = 7 * b + t
  <2>1. w - r = 7 * ((w - r) \div 7) + ((w - r) % 7)
    OBVIOUS
  <2> QED BY <2>1
<1>3. \A k \in 0..3 : Weekday(first + t + 7 * k) = w
  <2>1. SUFFICES ASSUME NEW k \in 0..3 PROVE Weekday(first + t + 7 * k) = w
    OBVIOUS
  <2>2. PICK z \in Int : z = a - b + k
    OBVIOUS
  <2>3. first + t + 7 * k + 6 = 7 * z + w
    BY <1>1, <1>2, <2>2
  <2>4. (7 * z + w) % 7 = w
    OBVIOUS
  <2> QED BY <2>3, <2>4 DEF Weekday
<1>4. PICK d \in Int : d = first + t
  OBVIOUS
<1>5. {d, d + 7, d + 14, d + 21} \subseteq days
  <2>1. Weekday(d) = w /\ Weekday(d + 7) = w /\ Weekday(d + 14) = w /\ Weekday(d + 21) = w
    <3>1. 0 \in 0..3 /\ 1 \in 0..3 /\ 2 \in 0..3 /\ 3 \in 0..3
      OBVIOUS
    <3>2. /\ d = first + t + 7 * 0 /\ d + 7 = first + t + 7 * 1
          /\ d + 14 = first + t + 7 * 2 /\ d + 21 = first + t + 7 * 3
      BY <1>4
    <3> QED BY <1>3, <3>1, <3>2
  <2>2. {d, d + 7, d + 14, d + 21} \subseteq first..last
    BY <1>4
  <2> QED BY <2>1, <2>2 DEF DaysOn
<1>6. Cardinality({d, d + 7, d + 14, d + 21}) = 4
  <2>1. ASSUME NEW S, NEW n \in Nat, IsFiniteSet(S), Cardinality(S) = n, NEW x, x \notin S
        PROVE  IsFiniteSet(S \cup {x}) /\ Cardinality(S \cup {x}) = n + 1
    BY <2>1, FS_AddElement
  <2>2. PICK S : S = {d}
    OBVIOUS
  <2>3. IsFiniteSet(S) /\ Cardinality(S) = 1 /\ d + 7 \notin S
    <3>1. IsFiniteSet({d}) /\ Cardinality({d}) = 1
      BY FS_Singleton, Zenon
    <3>2. d + 7 \notin {d}
      OBVIOUS
    <3> QED BY <2>2, <3>1, <3>2
  <2>4. PICK T : T = S \cup {d + 7}
    OBVIOUS
  <2>5. IsFiniteSet(T) /\ Cardinality(T) = 1 + 1 /\ d + 14 \notin T
    BY <2>1, <2>2, <2>3, <2>4
  <2>6. PICK U : U = T \cup {d + 14}
    OBVIOUS
  <2>7. IsFiniteSet(U) /\ Cardinality(U) = 2 + 1 /\ d + 21 \notin U
    BY <2>1, <2>2, <2>4, <2>5, <2>6
  <2>8. Cardinality(U \cup {d + 21}) = 3 + 1
    BY <2>1, <2>7
  <2>9. {d, d + 7, d + 14, d + 21} = U \cup {d + 21}
    BY <2>2, <2>4, <2>6
  <2> QED BY <2>8, <2>9
<1>7. IsFiniteSet(days) /\ days \in SUBSET Int
  <2>1. IsFiniteSet(first..last) /\ days \subseteq first..last
    BY FS_Interval DEF DaysOn
  <2> QED BY <2>1, FS_Subset
<1>8. Cardinality({d, d + 7, d + 14, d + 21}) <= Cardinality(days) /\ Cardinality(days) \in Nat
  BY <1>5, <1>7, FS_Subset, FS_CardinalityType
<1> QED BY <1>6, <1>7, <1>8

\* A rule whose parameters every month can meet.
IsUsual(rule) ==
    /\ rule.event \in ReferenceEvents
    /\ rule.event = "weekday_of_period" => rule.weekday \in 0..6
    /\ rule.n \in IF rule.event = "weekday_of_period" THEN -4..4 ELSE -15..15
    /\ rule.days \in -10..10

\* It has a reference date in each covered month.
LEMMA ReferenceIsThere ==
  ASSUME RegularCalendars, NEW c \in DOMAIN Calendars, NEW rule, IsUsual(rule),
         NEW q, q.first \in Int, q.last \in Int, q.first + 27 <= q.last,
         FirstSession(c) <= q.first, q.last <= LastSession(c)
  PROVE  ReferenceDate(c, q, rule) # {}
<1>1. PICK first \in Int, last \in Int : first = q.first /\ last = q.last
  OBVIOUS
<1>2. Covered(c, first) /\ Covered(c, last)
  BY <1>1, SessionsAreDays DEF Covered
<1>3. CASE rule.event = "business_day_of_period"
  <2> DEFINE days == SessionsIn(c, first, last)
  <2>1. /\ days \in SUBSET Int /\ IsFiniteSet(days)
        /\ Cardinality(days) \in Nat /\ Cardinality(days) >= 15
    BY <1>1, <1>2, SessionsAreFinite, FourWeeksHaveSessions
  <2>2. rule.n \in -15..15
    BY <1>3 DEF IsUsual
  <2> HIDE DEF days
  <2>3. Nth(days, rule.n) # {}
    BY <2>1, <2>2, NthIsThere
  <2> QED BY <1>1, <1>2, <1>3, <2>3 DEF ReferenceDate, NthBusinessDay, days
<1>4. CASE rule.event = "calendar_day_of_period"
  <2>1. PICK days \in SUBSET Int : days = first..last
    OBVIOUS
  <2>2. IsFiniteSet(days) /\ Cardinality(days) \in Nat /\ Cardinality(days) >= 15
    <3>1. /\ IsFiniteSet(days)
          /\ Cardinality(days) = IF first > last THEN 0 ELSE last - first + 1
      BY <2>1, FS_Interval, Zenon
    <3>2. PICK k : k = Cardinality(days)
      OBVIOUS
    <3>3. k = last - first + 1 /\ k >= 28
      BY <1>1, <3>1, <3>2
    <3> QED BY <3>1, <3>2, <3>3
  <2>3. rule.n \in -15..15
    BY <1>4 DEF IsUsual
  <2>4. Nth(days, rule.n) # {}
    BY <2>2, <2>3, NthIsThere
  <2> QED BY <1>1, <1>4, <2>1, <2>4 DEF ReferenceDate, NthCalendarDay
<1>5. CASE rule.event = "weekday_of_period"
  <2>1. PICK w \in 0..6 : rule.n \in -4..4 /\ w = rule.weekday
    BY <1>5 DEF IsUsual
  <2>2. PICK days : days = DaysOn(w, first, last)
    OBVIOUS
  <2>3. first + 27 <= last
    BY <1>1
  <2>4. /\ days \in SUBSET Int /\ IsFiniteSet(days)
        /\ Cardinality(days) \in Nat /\ Cardinality(days) >= 4
    BY <2>2, <2>3, WeekdaysRecur
  <2>5. Nth(days, rule.n) # {}
    BY <2>1, <2>4, NthIsThere
  <2> QED BY <1>1, <1>5, <2>1, <2>2, <2>5 DEF ReferenceDate, NthWeekday, DaysOn
<1> QED BY <1>3, <1>4, <1>5 DEF IsUsual, ReferenceEvents

\* From a date with four covered weeks on either side the last trading day is
\* found, and there is a session after it.
LEMMA ExpiryIsThere ==
  ASSUME RegularCalendars, NEW c \in DOMAIN Calendars, NEW n \in -10..10,
         NEW day \in Int, FirstSession(c) + 28 <= day, day + 28 <= LastSession(c)
  PROVE  \E e \in RelativeBusinessDay(c, day, n) :
            /\ e \in Int /\ IsSession(c, e)
            /\ \E d \in Int : IsSession(c, d) /\ e < d
<1>1. PICK f \in Int, l \in Int : f = FirstSession(c) /\ l = LastSession(c)
  BY SessionsAreDays
<1>2. PICK e \in RelativeBusinessDay(c, day, n) : TRUE
  BY <1>1, NearDatesAreThere
<1>3. e \in Int /\ Counted(c, day, n, e)
  BY RelativeIsCounted
<1>4. IsSession(c, e)
  BY <1>3 DEF Counted
<1>5. Covered(c, day + 1) /\ Covered(c, l) /\ day + 1 + 27 <= l
  BY <1>1 DEF Covered
<1>6. /\ Cardinality(SessionsIn(c, day + 1, l)) \in Nat
      /\ Cardinality(SessionsIn(c, day + 1, l)) >= 15
  BY <1>5, FourWeeksHaveSessions
<1>7. \E d \in SessionsIn(c, day + 1, l) : d > e
  <2>1. SUFFICES ASSUME \A d \in SessionsIn(c, day + 1, l) : ~(d > e) PROVE FALSE
    OBVIOUS
  <2>2. SessionsIn(c, day + 1, l) \subseteq SessionsIn(c, day + 1, e)
    BY <1>1, <1>3, <2>1 DEF SessionsIn
  <2>3. /\ IsFiniteSet(SessionsIn(c, day + 1, e))
        /\ Cardinality(SessionsIn(c, day + 1, e)) \in Nat
        /\ (Cardinality(SessionsIn(c, day + 1, e)) = 0
                <=> SessionsIn(c, day + 1, e) = {})
    BY <1>3, SessionsAreFinite
  <2>4. Cardinality(SessionsIn(c, day + 1, e)) >= 15
    BY <1>6, <2>2, <2>3, FS_Subset
  <2>5. CASE n > 0
    <3>1. Cardinality(SessionsIn(c, day + 1, e)) = n
      BY <1>3, <2>5 DEF Counted
    <3> QED BY <2>4, <3>1
  <2>6. CASE n <= 0
    <3>1. e <= day
      BY <1>3, <2>6 DEF Counted
    <3>2. SessionsIn(c, day + 1, e) = {}
      BY <1>3, <3>1 DEF SessionsIn
    <3> QED BY <2>3, <2>4, <3>2
  <2> QED BY <2>5, <2>6
<1>8. PICK d \in SessionsIn(c, day + 1, l) : d > e
  BY <1>7
<1>9. d \in Int /\ IsSession(c, d)
  BY <1>1, <1>8 DEF SessionsIn
<1> QED BY <1>2, <1>3, <1>4, <1>8, <1>9

\* The business day after a session that is not the last one.
LEMMA NextDayIsThere ==
  ASSUME NEW c \in DOMAIN Calendars, NEW x \in Int, IsSession(c, x),
         NEW d \in Int, IsSession(c, d), x < d
  PROVE  RelativeBusinessDay(c, x, 1) # {}
<1>1. PICK f \in Int, l \in Int : f = FirstSession(c) /\ l = LastSession(c)
  BY SessionsAreDays
<1>2. Covered(c, x) /\ d <= l
  BY <1>1, SessionsAreDays DEF Covered
<1>3. d \in SessionsIn(c, x + 1, l)
  BY <1>1, <1>2 DEF SessionsIn
<1>4. Cardinality(SessionsIn(c, x + 1, l)) \in Nat /\ Cardinality(SessionsIn(c, x + 1, l)) # 0
  BY <1>1, <1>3, SessionsAreFinite
<1> QED BY <1>1, <1>2, <1>4, RelativeIsThere

\* The calendar has room for the rules of the month at a place: from 23 months
\* before it and until four weeks after the eleventh month after it.
HasRoom(c, j) ==
    /\ j \in Int /\ j >= 36
    /\ FirstSession(c) < MonthStart(j - 23)
    /\ MonthStart(j + 12) + 27 <= LastSession(c)

\* In that room a month has its last trading day, and there is a session after it.
LEMMA LastTradingDayIsThere ==
  ASSUME RegularCalendars, NEW c \in DOMAIN Calendars, NEW j, HasRoom(c, j),
         NEW rule, IsUsual(rule), rule.offset \in Int,
         NEW p, IsPeriod(p), p.type = "MONTH",
         PlaceOf(p) + rule.offset >= j - 22, PlaceOf(p) + rule.offset <= j + 11
  PROVE  \E e \in LastTradingDay(c, p, rule) :
            /\ e \in Int /\ IsSession(c, e)
            /\ \E d \in Int : IsSession(c, d) /\ e < d
<1>1. PICK f \in Int, l \in Int : /\ f = FirstSession(c) /\ l = LastSession(c)
                                  /\ l <= LastDay /\ LastDay \in Int
  <2>1. LastDay \in Int
    BY LastIsoYear
  <2> QED BY <2>1, SessionsAreDays, CalendarsAssumption DEF LastSession, Day
<1>2. PICK i \in Int : i = PlaceOf(p) + rule.offset
  BY PeriodsAreDays
<1>3. i >= j - 22 /\ i <= j + 11 /\ i >= 14 /\ j \in Int /\ j - 23 >= 13
  BY <1>2 DEF HasRoom
<1>4. PICK a \in Int, b \in Int : /\ a = MonthStart(j - 23) /\ b = MonthStart(j + 12)
                                  /\ f < a /\ b + 27 <= l
  <2>1. MonthStart(j - 23) \in Int /\ MonthStart(j + 12) \in Int
    BY <1>3, MonthAtPlace
  <2> QED BY <1>1, <2>1 DEF HasRoom
<1>5. PICK s \in Int, t \in Int : /\ s = MonthStart(i) /\ t = MonthStart(i + 1)
                                  /\ s + 28 <= t
  <2>1. i >= 12 /\ i + 1 \in Int /\ i < i + 1
    BY <1>3
  <2> QED BY <2>1, MonthsStartLater, MonthsAreLong
<1>6. t <= b
  BY <1>3, <1>4, <1>5, MonthsStartLater
<1>7. a + 28 <= s
  BY <1>3, <1>4, <1>5, MonthsAreLong
<1>8. PICK q \in ShiftPeriod(p, rule.offset) : q.first = s /\ q.last = t - 1
  <2>1. MonthStart(i + 1) <= LastDay
    BY <1>1, <1>4, <1>5, <1>6
  <2> QED BY <1>2, <1>3, <1>5, <2>1, ShiftIsThere DEF IsMonthAt
<1>9. PICK x \in ReferenceDate(c, q, rule) : TRUE
  BY <1>1, <1>4, <1>5, <1>6, <1>7, <1>8, ReferenceIsThere
<1>10. x \in Int /\ s <= x /\ x <= t - 1
  BY <1>5, <1>8, <1>9, ReferenceLiesInPeriod DEF IsUsual
<1>11. f + 28 <= x /\ x + 28 <= l
  BY <1>4, <1>5, <1>6, <1>7, <1>10
<1>12. \E e \in RelativeBusinessDay(c, x, rule.days) :
            /\ e \in Int /\ IsSession(c, e)
            /\ \E d \in Int : IsSession(c, d) /\ e < d
  BY <1>1, <1>10, <1>11, ExpiryIsThere DEF IsUsual
<1> QED BY <1>8, <1>9, <1>12 DEF LastTradingDay, LastTradingReference

\* The month of the annual rule, in the year in which a month lies, lies not
\* before the month before that one and not a year after it.
LEMMA AnnualMonthIsThere ==
  ASSUME NEW l \in Int, l >= 12, MonthStart(l + 12) <= LastDay,
         NEW listing, IsMonthAt(listing, l),
         NEW rule, rule.type = "MONTH", rule.reference \in DOMAIN AnnualMonth
  PROVE  \E q \in AnnualPeriod(listing, rule) :
            /\ IsPeriod(q) /\ q.type = "MONTH" /\ PlaceOf(q) \in Int
            /\ PlaceOf(q) >= l - 1 /\ PlaceOf(q) <= l + 11
<1>1. PICK d \in Int : /\ d = listing.last /\ d >= 1
                       /\ MonthStart(l) <= d /\ d < MonthStart(l + 1)
                       /\ MonthStart(l) \in Int /\ MonthStart(l + 1) \in Int
  <2>1. /\ MonthStart(l) \in Int /\ MonthStart(l) >= 1
        /\ MonthStart(l + 1) \in Int /\ MonthStart(l) + 28 <= MonthStart(l + 1)
    BY MonthAtPlace
  <2> QED BY <2>1 DEF IsMonthAt
<1>2. PICK y \in Int, m \in 1..12, k \in Int :
            /\ y = YearOf(d) /\ k = 12 * y + m - 1 /\ k >= 12
            /\ MonthStart(k) <= d /\ d < MonthStart(k + 1)
  BY <1>1, DayHasPlace
<1>3. k = l
  <2>1. MonthStart(k) \in Int /\ MonthStart(k + 1) \in Int
    BY <1>2, MonthAtPlace
  <2>2. ~(k < l)
    <3>1. SUFFICES ASSUME k < l PROVE FALSE
      OBVIOUS
    <3>2. k + 1 >= 12 /\ k + 1 <= l /\ k + 1 \in Int
      BY <1>2, <3>1
    <3>3. MonthStart(k + 1) <= MonthStart(l)
      BY <3>2, MonthsStartLater
    <3> QED BY <1>1, <1>2, <2>1, <3>3
  <2>3. ~(l < k)
    <3>1. SUFFICES ASSUME l < k PROVE FALSE
      OBVIOUS
    <3>2. l + 1 >= 12 /\ l + 1 <= k /\ l + 1 \in Int
      BY <3>1
    <3>3. MonthStart(l + 1) <= MonthStart(k)
      BY <1>2, <3>2, MonthsStartLater
    <3> QED BY <1>1, <1>2, <2>1, <3>3
  <2> QED BY <1>2, <2>2, <2>3
<1>4. PICK n \in 11..12 : n = AnnualMonth[rule.reference]
  BY DEF AnnualMonth
<1>5. PICK a \in Int : a = 12 * y + n - 1
  OBVIOUS
<1>6. a >= l - 1 /\ a <= l + 11 /\ a >= 12
  BY <1>2, <1>3, <1>4, <1>5
<1>7. MonthStart(a) = DayOf(y, n, 1)
  <2>1. a \div 12 = y /\ (a % 12) + 1 = n
    <3>1. \A z \in Int, v \in 1..12 :
            (12 * z + v - 1) \div 12 = z /\ ((12 * z + v - 1) % 12) + 1 = v
      OBVIOUS
    <3>2. n \in 1..12
      BY <1>4
    <3> QED BY <1>5, <3>1, <3>2
  <2> QED BY <1>6, <2>1, MonthAtPlace
<1>8. MonthStart(a + 1) <= LastDay
  <2>1. a + 1 >= 12 /\ a + 1 <= l + 12 /\ a + 1 \in Int /\ l + 12 \in Int
    BY <1>6
  <2>2. /\ MonthStart(a + 1) \in Int /\ MonthStart(l + 12) \in Int
        /\ MonthStart(a + 1) <= MonthStart(l + 12)
    BY <2>1, MonthsStartLater
  <2> QED BY <2>2, LastIsoYear
<1>9. PICK q \in PeriodOn(MonthStart(a), "MONTH") : IsMonthAt(q, a)
  BY <1>6, <1>8, MonthIsThere
<1>10. q \in AnnualPeriod(listing, rule)
  BY <1>1, <1>2, <1>4, <1>7, <1>9 DEF AnnualPeriod
<1> QED BY <1>6, <1>9, <1>10 DEF IsMonthAt

\* In that room a month has its first day of interest.
LEMMA InterestIsThere ==
  ASSUME RegularCalendars, NEW c \in DOMAIN Calendars,
         NEW p, IsPeriod(p), p.type = "MONTH", HasRoom(c, PlaceOf(p)),
         NEW last, IsUsual(last), last.offset \in Int,
         NEW rule, rule.type = "MONTH", MonthOf(p.first) \in DOMAIN rule.shifts,
         NEW n \in 0..24, rule.shifts[MonthOf(p.first)] = n,
         \/ rule.reference = "period"
         \/ /\ rule.reference \in DOMAIN AnnualMonth
            /\ last.offset <= 0 /\ n - last.offset <= 21
  PROVE  FirstDayOfInterest(c, p, rule, last) # {}
<1>1. PICK f \in Int, t \in Int : /\ f = FirstSession(c) /\ t = LastSession(c)
                                  /\ t <= LastDay /\ LastDay \in Int
  <2>1. LastDay \in Int
    BY LastIsoYear
  <2> QED BY <2>1, SessionsAreDays, CalendarsAssumption DEF LastSession, Day
<1>2. PICK j \in Int : j = PlaceOf(p) /\ j >= 36
  BY DEF HasRoom
<1>3. PICK l \in Int : l = j - n /\ l >= 12 /\ l <= j /\ l + 1 >= j - 23
  BY <1>2
<1>4. PICK a \in Int, b \in Int, e \in Int :
            /\ a = MonthStart(j - 23) /\ b = MonthStart(j + 12) /\ e = MonthStart(l + 1)
            /\ f < a /\ b + 27 <= t /\ a <= e /\ e <= b
  <2>1. j - 23 >= 12 /\ j - 23 <= l + 1 /\ l + 1 <= j + 12 /\ l + 1 >= 12
    BY <1>2, <1>3
  <2>2. /\ MonthStart(j - 23) \in Int /\ MonthStart(l + 1) \in Int
        /\ MonthStart(j - 23) <= MonthStart(l + 1)
    BY <2>1, MonthsStartLater
  <2>3. MonthStart(j + 12) \in Int /\ MonthStart(l + 1) <= MonthStart(j + 12)
    BY <2>1, MonthsStartLater
  <2> QED BY <1>1, <1>2, <2>2, <2>3 DEF HasRoom
<1>5. PICK listing \in ShiftPeriod(p, -n) : IsMonthAt(listing, l)
  <2>1. -n \in Int /\ PlaceOf(p) + (-n) = l
    BY <1>2, <1>3
  <2>2. MonthStart(l + 1) <= LastDay
    BY <1>1, <1>4
  <2> QED BY <1>3, <2>1, <2>2, ShiftIsThere
<1>6. listing \in Listing(p, rule)
  BY <1>5 DEF Listing
<1>7. CASE rule.reference = "period"
  <2>1. "period" \notin DOMAIN AnnualMonth
    BY DEF AnnualMonth
  <2>2. listing.last = e - 1
    BY <1>4, <1>5 DEF IsMonthAt
  <2>3. e - 1 \in InterestReference(c, p, rule, last)
    BY <1>6, <1>7, <2>1, <2>2 DEF InterestReference
  <2>4. RelativeBusinessDay(c, e - 1, 1) # {}
    <3>1. f <= e - 1 /\ e - 1 + 28 <= t /\ 1 \in -10..10 /\ ~(1 < 0)
      BY <1>4
    <3> QED BY <1>1, <3>1, NearDatesAreThere
  <2> QED BY <2>3, <2>4 DEF FirstDayOfInterest
<1>8. CASE rule.reference # "period"
  <2>1. /\ rule.reference \in DOMAIN AnnualMonth
        /\ last.offset <= 0 /\ n - last.offset <= 21
    BY <1>8
  <2>2. MonthStart(l + 12) <= LastDay
    <3>1. l + 12 >= 12 /\ l + 12 <= j + 12 /\ l + 12 \in Int /\ j + 12 \in Int
      BY <1>3
    <3>2. MonthStart(l + 12) \in Int /\ MonthStart(l + 12) <= MonthStart(j + 12)
      BY <3>1, MonthsStartLater
    <3> QED BY <1>1, <1>4, <3>2
  <2>3. PICK q \in AnnualPeriod(listing, rule) :
            /\ IsPeriod(q) /\ q.type = "MONTH" /\ PlaceOf(q) \in Int
            /\ PlaceOf(q) >= l - 1 /\ PlaceOf(q) <= l + 11
    BY <1>3, <1>5, <2>1, <2>2, AnnualMonthIsThere
  <2>4. PlaceOf(q) + last.offset >= j - 22 /\ PlaceOf(q) + last.offset <= j + 11
    BY <1>3, <2>1, <2>3
  <2>5. PICK x \in LastTradingDay(c, q, last) :
            /\ x \in Int /\ IsSession(c, x)
            /\ \E d \in Int : IsSession(c, d) /\ x < d
    BY <1>2, <2>3, <2>4, LastTradingDayIsThere
  <2>6. x \in InterestReference(c, p, rule, last)
    BY <1>6, <2>1, <2>3, <2>5 DEF InterestReference
  <2>7. RelativeBusinessDay(c, x, 1) # {}
    BY <2>5, NextDayIsThere
  <2> QED BY <2>6, <2>7 DEF FirstDayOfInterest
<1> QED BY <1>7, <1>8

\* Where there is room, a modest rule makes the contract of each eligible period.
LEMMA ContractIsThere ==
  ASSUME RegularCalendars, NEW document, Parses(document), Modest(document.product),
         document.product.calendar \in DOMAIN Calendars,
         NEW p, IsPeriod(p), IsValidPeriod(document.product, p),
         HasRoom(document.product.calendar, PlaceOf(p))
  PROVE  Contract(document.id, document.product, p) # {}
<1>1. PICK product : product = document.product /\ Modest(product)
  OBVIOUS
<1>2. PICK last, rule, c : /\ last = product.lastTrading /\ rule = product.interest
                           /\ c = product.calendar
  OBVIOUS
<1>3. /\ product.types = {"MONTH"} /\ product.months = DOMAIN rule.shifts
      /\ last.offset \in -12..11 /\ last.days \in -10..10
      /\ last.n \in IF last.event = "weekday_of_period" THEN -4..4 ELSE -15..15
      /\ \A m \in product.months : rule.shifts[m] \in 0..24
      /\ rule.type = "MONTH"
      /\ rule.reference # "period" =>
            /\ rule.reference \in DOMAIN AnnualMonth /\ last.offset <= 0
            /\ \A m \in product.months : rule.shifts[m] - last.offset <= 21
  BY <1>1, <1>2, Zenon DEF Modest
<1>4. IsUsual(last)
  <2>1. /\ last.event \in ReferenceEvents
        /\ last.event = "weekday_of_period" => last.weekday \in 0..6
    BY <1>1, <1>2 DEF Parses
  <2> QED BY <1>3, <2>1, Zenon DEF IsUsual
<1>5. p.type = "MONTH" /\ MonthOf(p.first) \in product.months
  BY <1>1, <1>3, Zenon DEF IsValidPeriod
<1>6. PICK n \in 0..24 :
        /\ n = rule.shifts[MonthOf(p.first)]
        /\ rule.reference # "period" =>
              /\ rule.reference \in DOMAIN AnnualMonth /\ last.offset <= 0
              /\ n - last.offset <= 21
  BY <1>3, <1>5, Zenon
<1>7. FirstDayOfInterest(c, p, rule, last) # {}
  <2>1. last.offset \in Int /\ c \in DOMAIN Calendars /\ HasRoom(c, PlaceOf(p))
    BY <1>1, <1>2, <1>3
  <2> QED BY <1>3, <1>4, <1>5, <1>6, <2>1, InterestIsThere
<1>8. LastTradingDay(c, p, last) # {}
  <2>1. PICK j \in Int : j = PlaceOf(p)
    BY PeriodsAreDays
  <2>2. PlaceOf(p) + last.offset >= j - 22 /\ PlaceOf(p) + last.offset <= j + 11
    BY <1>3, <2>1
  <2>3. HasRoom(c, j) /\ c \in DOMAIN Calendars /\ last.offset \in Int
    BY <1>1, <1>2, <1>3, <2>1
  <2>4. \E e \in LastTradingDay(c, p, last) : e \in Int
    BY <1>4, <1>5, <2>2, <2>3, LastTradingDayIsThere
  <2> QED BY <2>4
<1>9. PICK i \in FirstDayOfInterest(c, p, rule, last), e \in LastTradingDay(c, p, last) : TRUE
  BY <1>7, <1>8
<1>10. [id |-> <<document.id, p.id>>, product |-> document.id, period |-> p,
        interest |-> i, expiry |-> e] \in Contract(document.id, product, p)
  BY <1>1, <1>2, <1>9 DEF Contract
<1> QED BY <1>1, <1>10

\* The check of the coverage leaves that room for each period of the horizon
\* (materialisation.py:393-425).
LEMMA HorizonHasRoom ==
  ASSUME NEW c \in DOMAIN Calendars, CalendarCovers(c),
         SameDateExists(call.start, -LookbackYears),
         SameDateExists(call.end, LookaheadYears),
         call.start \in Day, call.end \in Day,
         NEW p, IsPeriod(p), p.type = "MONTH", call.start <= p.last, p.last <= call.end
  PROVE  HasRoom(c, PlaceOf(p))
<1>1. PICK start \in Int, end \in Int : /\ start = call.start /\ end = call.end
                                        /\ start >= 1 /\ end >= 1
  BY LastIsoYear DEF Day
<1>2. PICK f \in Int, t \in Int : /\ f = FirstSession(c) /\ t = LastSession(c)
  BY SessionsAreDays
<1>3. PICK j \in Int : /\ j = PlaceOf(p) /\ p.first = MonthStart(j)
                       /\ p.last + 1 = MonthStart(j + 1)
                       /\ p.first \in Int /\ p.last \in Int /\ p.first <= p.last
  BY PeriodsAreDays DEF MonthStart
<1>4. PICK s \in Int : /\ s = Place("MONTH", start) /\ s - 24 >= 12
                       /\ MonthStart(s) <= start
                       /\ f < MonthStart(s - 24 + 1)
  <2>1. PICK s \in Int : s = Place("MONTH", start) /\ MonthStart(s) <= start
    BY <1>1, DayHasPlace
  <2>2. SameDateExists(start, -2) /\ Covered(c, SameDate(start, -2)) /\ -2 \in Int
    BY <1>1 DEF CalendarCovers, LookbackYears
  <2>3. /\ s + 12 * (-2) >= 12
        /\ SameDate(start, -2) = MonthStart(s + 12 * (-2)) + (start - MonthStart(s))
        /\ SameDate(start, -2) < MonthStart(s + 12 * (-2) + 1)
    BY <1>1, <2>1, <2>2, SameDateHasPlace
  <2>4. s + 12 * (-2) = s - 24
    OBVIOUS
  <2>5. MonthStart(s) \in Int /\ MonthStart(s - 24) \in Int /\ MonthStart(s - 24 + 1) \in Int
    BY <2>3, <2>4, MonthAtPlace
  <2>6. f <= SameDate(start, -2)
    BY <1>2, <2>2 DEF Covered
  <2> QED BY <1>1, <1>2, <2>1, <2>3, <2>4, <2>5, <2>6
<1>5. PICK e \in Int : /\ e = Place("MONTH", end) /\ e >= 12
                       /\ end < MonthStart(e + 1) /\ MonthStart(e) <= end
                       /\ MonthStart(e + 12) + (end - MonthStart(e)) <= t
  <2>1. PICK e \in Int : /\ e = Place("MONTH", end) /\ e >= 12
                         /\ MonthStart(e) <= end /\ end < MonthStart(e + 1)
    BY <1>1, DayHasPlace
  <2>2. SameDateExists(end, 1) /\ Covered(c, SameDate(end, 1))
    BY <1>1 DEF CalendarCovers, LookaheadYears
  <2>3. SameDate(end, 1) = MonthStart(e + 12 * 1) + (end - MonthStart(e))
    BY <1>1, <2>1, <2>2, SameDateHasPlace
  <2>4. e + 12 * 1 = e + 12
    OBVIOUS
  <2> QED BY <1>2, <2>1, <2>2, <2>3, <2>4 DEF Covered
<1>6. s <= j
  <2>1. SUFFICES ASSUME j + 1 <= s PROVE FALSE
    OBVIOUS
  <2>2. j >= 12
    BY <1>3, DayHasPlace, PeriodsAreDays DEF PlaceOf
  <2>3. MonthStart(s) \in Int /\ MonthStart(j + 1) <= MonthStart(s)
    BY <2>1, <2>2, MonthsStartLater
  <2> QED BY <1>1, <1>3, <1>4, <2>3
<1>7. j <= e
  <2>1. SUFFICES ASSUME e + 1 <= j PROVE FALSE
    OBVIOUS
  <2>2. MonthStart(e + 1) \in Int /\ MonthStart(e + 1) <= MonthStart(j)
    BY <1>5, <2>1, MonthsStartLater
  <2> QED BY <1>1, <1>3, <1>5, <2>2
<1>8. j >= 36 /\ f < MonthStart(j - 23)
  <2>1. s - 24 + 1 >= 12 /\ s - 24 + 1 <= j - 23
    BY <1>4, <1>6
  <2>2. /\ MonthStart(s - 24 + 1) \in Int /\ MonthStart(j - 23) \in Int
        /\ MonthStart(s - 24 + 1) <= MonthStart(j - 23)
    BY <2>1, MonthsStartLater
  <2> QED BY <1>4, <1>6, <2>2
<1>9. MonthStart(j + 12) + 27 <= t
  <2>1. /\ MonthStart(e) \in Int /\ MonthStart(e + 12) \in Int /\ MonthStart(j + 12) \in Int
    BY <1>5, <1>8, MonthAtPlace
  <2>2. CASE j = e
    <3>1. MonthStart(j) + 28 <= MonthStart(j + 1) /\ MonthStart(j + 1) \in Int
      BY <1>8, MonthAtPlace
    <3>2. end - MonthStart(e) >= 27
      BY <1>1, <1>3, <2>1, <2>2, <3>1
    <3> QED BY <1>5, <2>1, <2>2, <3>2
  <2>3. CASE j < e
    <3>1. MonthStart(j + 12) + 28 <= MonthStart(e + 12)
      BY <1>8, <2>3, MonthsAreLong
    <3> QED BY <1>1, <1>5, <2>1, <3>1
  <2> QED BY <1>7, <2>2, <2>3
<1> QED BY <1>2, <1>3, <1>8, <1>9 DEF HasRoom

----------------------------------------------------------------------------
(* A validated coverage leaves that room *)

\* A period of the horizon of a build.
IsOfHorizon(p) == IsPeriod(p) /\ call.start <= p.last /\ p.last <= call.end

HorizonIsCovered ==
    /\ SameDateExists(call.start, -LookbackYears)
    /\ SameDateExists(call.end, LookaheadYears)
    /\ \A document \in Read : CalendarCovers(document.product.calendar)

\* When contracts are generated, the periods are of the horizon, which is
\* covered; what cannot be generated ended the command and is by no modest rule.
CoverageInv ==
    /\ command = "generate_periods" \/ call \in Horizons
    /\ stage \in {"coverage", "contracts"} =>
         /\ command # "generate_periods"
         /\ \A p \in Emitted : IsOfHorizon(p)
    /\ stage = "contracts" => HorizonIsCovered
    /\ error = "contracts" => stage = "raised"
    /\ CoverageSuffices

\* Nothing is generated yet.
LEMMA CoverageStart == ASSUME DesiredInit PROVE CoverageInv
BY DEF DesiredInit, CoverageInv, CoverageSuffices

\* All of the periods returned are of the horizon.
LEMMA EmittedAreOfHorizon ==
  ASSUME IInv, Placed, phase = "returned", call \in Horizons, NEW p \in Emitted
  PROVE  IsOfHorizon(p)
<1>1. IsPeriod(p)
  BY DEF Emitted, Placed
<1>2. call.start \in Int /\ call.end \in Int /\ call.start >= 1 /\ ~call.partial
  BY HorizonsAssumption, CallsAssumption, LastIsoYear DEF Day
<1>3. p \in Touching /\ p.last <= call.end
  BY <1>2, CompleteIsNoDayLost DEF NoDayIsLost
<1>4. PICK k \in DOMAIN call.types, day \in call.start..call.end :
        p = PeriodContaining(day, call.types[k])
  BY <1>3 DEF Touching
<1>5. call.types[k] \in Supported
  <2>1. call.types = <<"YEAR", "QUARTER", "MONTH">>
    BY HorizonsAssumption
  <2> QED BY <1>4, <2>1 DEF Supported, PeriodType
<1>6. day \in Int /\ day >= 1 /\ call.start <= day
  BY <1>2
<1>7. day <= p.last /\ p.last \in Int
  BY <1>4, <1>5, <1>6, PeriodHolds
<1> QED BY <1>1, <1>2, <1>3, <1>6, <1>7 DEF IsOfHorizon

\* Contracts that cannot be made are by a rule that is not modest.
LEMMA OnlyImmodestRulesFail ==
  ASSUME RegularCalendars, CoverageInv, ContractInv, stage = "contracts",
         NEW r \in Recorded, {} \in ContractsOf(r.document, Emitted)
  PROVE  ~Modest(r.document.product)
<1>1. PICK document : document = r.document /\ document \in Read
  BY DEF Recorded, Read
<1>2. PICK p \in Emitted : /\ IsValidPeriod(document.product, p)
                           /\ Contract(document.id, document.product, p) = {}
  BY <1>1 DEF ContractsOf
<1>3. SUFFICES ASSUME Modest(document.product) PROVE FALSE
  BY <1>1
<1>4. Parses(document) /\ document.product.calendar \in DOMAIN Calendars
  BY <1>1 DEF ContractInv, Calendared
<1>5. IsPeriod(p) /\ call.start <= p.last /\ p.last <= call.end
  BY DEF CoverageInv, IsOfHorizon
<1>6. p.type = "MONTH"
  BY <1>2, <1>3 DEF IsValidPeriod, Modest
<1>7. call.start \in Day /\ call.end \in Day
  BY HorizonsAssumption, CallsAssumption DEF CoverageInv
<1>8. HasRoom(document.product.calendar, PlaceOf(p))
  BY <1>1, <1>4, <1>5, <1>6, <1>7, HorizonHasRoom DEF CoverageInv, HorizonIsCovered
<1>9. Contract(document.id, document.product, p) # {}
  BY <1>2, <1>3, <1>4, <1>5, <1>8, ContractIsThere
<1> QED BY <1>2, <1>9

\* Each step preserves that.
LEMMA CoverageStep ==
  ASSUME RegularCalendars, CoverageInv, ContractInv, IInv, Placed,
         [DesiredNext]_desiredVars
  PROVE  CoverageInv'
<1>1. ASSUME UNCHANGED <<call, command, periods, records>>,
             \/ stage' = stage /\ error' = error
             \/ /\ stage # "raised"
                /\ error' # "contracts"
                /\ stage' \notin {"coverage", "contracts"}
      PROVE  CoverageInv'
  <2>1. Emitted' = Emitted /\ Read' = Read
    BY <1>1 DEF Emitted, Read
  <2>2. HorizonIsCovered' = HorizonIsCovered /\ (\A p : IsOfHorizon(p)' = IsOfHorizon(p))
    BY <1>1, <2>1 DEF HorizonIsCovered, IsOfHorizon, SameDateExists, CalendarCovers,
                      SameDate, Covered, FirstSession, LastSession
  <2> QED BY <1>1, <2>1, <2>2 DEF CoverageInv, CoverageSuffices
<1>2. ASSUME stage # "raised" PROVE error # "contracts"
  BY <1>2 DEF CoverageInv
<1>3. CASE RepositoryMoves \/ UNCHANGED desiredVars
  <2>1. UNCHANGED <<call, command, periods, records, stage, error>>
    BY <1>3 DEF RepositoryMoves, StartCheckout, CheckoutFile, FinishCheckout, EditFile,
                RepositoryStep, sourceVars, vars, desiredVars
  <2> QED BY <1>1, <2>1
<1>4. CASE ReadConfiguration \/ EndLoading \/ ResolveRevision \/ RevisionUnresolved \/ ListFiles
  <2>1. /\ UNCHANGED <<call, command, periods, records>>
        /\ stage # "raised"
        /\ stage' \in {"raised", "listing", "reading", "revision", "periods"}
        /\ error' = error \/ error' \in {"configuration", "no source",
                                           "duplicate product", "no revision"}
    BY <1>4 DEF ReadConfiguration, EndLoading, ResolveRevision, RevisionUnresolved,
                ListFiles, Enter, Raise, sourceVars, vars
  <2> QED BY <1>1, <1>2, <2>1
<1>5. CASE LoadFuturesProduct
  <2>1. /\ UNCHANGED <<call, command, periods>>
        /\ stage = "reading" /\ stage' \in {"reading", "raised"}
        /\ error' = error \/ error' = "no source"
    BY <1>5 DEF LoadFuturesProduct, Enter, Raise, vars
  <2>2. error' # "contracts"
    BY <1>2, <2>1
  <2> QED BY <2>1, <2>2 DEF CoverageInv, CoverageSuffices
<1>6. CASE GeneratePeriods
  <2>1. /\ UNCHANGED <<command, stage, error>> /\ stage = "periods" /\ call' = call
    BY <1>6 DEF GeneratePeriods, Next, CheckCall, BeginType, Emit, EndType, ReturnPeriods
  <2>2. error' # "contracts"
    BY <1>2, <2>1
  <2> QED BY <2>1, <2>2 DEF CoverageInv, CoverageSuffices
<1>7. CASE EndPeriods
  <2>1. /\ UNCHANGED <<call, command, periods, records>> /\ stage = "periods"
        /\ phase \in {"returned", "raised"}
    BY <1>7 DEF EndPeriods, Take, sourceVars
  <2>2. CASE stage' # "coverage"
    <3>1. /\ stage' \in {"raised", "done"}
          /\ error' = error \/ error' = "periods"
      BY <1>7, <2>2 DEF EndPeriods, Enter, Raise
    <3> QED BY <1>1, <1>2, <2>1, <3>1
  <2>3. CASE stage' = "coverage"
    <3>1. command # "generate_periods" /\ phase = "returned" /\ error' = error
      BY <1>7, <2>1, <2>3 DEF EndPeriods, Enter, Raise
    <3>2. call \in Horizons
      BY <3>1 DEF CoverageInv
    <3>3. \A p \in Emitted : IsOfHorizon(p)
      BY <3>1, <3>2, EmittedAreOfHorizon
    <3>4. Emitted' = Emitted /\ \A p : IsOfHorizon(p)' = IsOfHorizon(p)
      BY <2>1 DEF Emitted, IsOfHorizon
    <3> QED BY <1>2, <2>1, <2>3, <3>1, <3>2, <3>3, <3>4 DEF CoverageInv, CoverageSuffices
  <2> QED BY <2>2, <2>3
<1>8. CASE ValidateCoverage
  <2>1. UNCHANGED <<call, command, periods, records>> /\ stage = "coverage"
    BY <1>8 DEF ValidateCoverage, sourceVars, vars
  <2>2. CASE stage' # "contracts"
    <3>1. stage' = "raised" /\ error' \in {"no such date", "calendar"}
      BY <1>8, <2>2 DEF ValidateCoverage, Enter, Raise
    <3> QED BY <1>1, <2>1, <3>1
  <2>3. CASE stage' = "contracts"
    <3>1. HorizonIsCovered /\ error' = error
      BY <1>8, <2>3 DEF ValidateCoverage, HorizonIsCovered, Enter, Raise
    <3>2. Emitted' = Emitted /\ Read' = Read /\ \A p : IsOfHorizon(p)' = IsOfHorizon(p)
      BY <2>1 DEF Emitted, Read, IsOfHorizon
    <3>3. HorizonIsCovered'
      BY <2>1, <3>1, <3>2 DEF HorizonIsCovered, SameDateExists, CalendarCovers,
                              SameDate, Covered, FirstSession, LastSession
    <3> QED BY <1>2, <2>1, <2>3, <3>1, <3>2, <3>3 DEF CoverageInv, CoverageSuffices
  <2> QED BY <2>2, <2>3
<1>9. CASE GenerateFuturesContracts
  <2>1. /\ UNCHANGED <<call, command, periods, records>>
        /\ stage = "contracts" /\ unmade # <<>> /\ unmade \in Seq(Recorded)
    BY <1>9 DEF GenerateFuturesContracts, sourceVars, vars, ContractInv
  <2>2. PICK r \in Recorded : r = Head(unmade)
    BY <2>1
  <2>3. CASE {} \notin ContractsOf(r.document, Emitted)
    <3>1. stage' = stage /\ error' = error
      BY <1>9, <2>1, <2>2, <2>3 DEF GenerateFuturesContracts, Enter
    <3> QED BY <1>1, <2>1, <3>1
  <2>4. CASE {} \in ContractsOf(r.document, Emitted)
    <3>1. stage' = "raised"
      BY <1>9, <2>2, <2>4 DEF GenerateFuturesContracts, Raise
    <3>2. ~Modest(r.document.product)
      BY <2>1, <2>4, OnlyImmodestRulesFail
    <3>3. r.document \in Read /\ Read' = Read
      BY <2>1 DEF Recorded, Read
    <3> QED BY <2>1, <3>1, <3>2, <3>3 DEF CoverageInv, CoverageSuffices
  <2> QED BY <2>3, <2>4
<1>10. CASE EndContracts \/ DropOwnedSchema \/ PersistDesiredState
  <2>1. /\ UNCHANGED <<call, command, periods, records>>
        /\ stage # "raised" /\ stage' \in {"drop", "persist", "done", "raised"}
        /\ error' = error \/ error' = "lifecycle"
    BY <1>10 DEF EndContracts, DropOwnedSchema, PersistDesiredState, Enter, Raise,
                 sourceVars, vars
  <2> QED BY <1>1, <1>2, <2>1
<1> QED BY <1>3, <1>4, <1>5, <1>6, <1>7, <1>8, <1>9, <1>10 DEF DesiredNext, CommandStep

----------------------------------------------------------------------------
(* Theorems *)

\* Inside a build or a rebuild of any horizon, the periods are complete and
\* typed (materialisation.py:222-227, generation/periods.py:22-91).
THEOREM CommandsLoseNoDay == DesiredSpec => [](TypeOK /\ NoDayIsLost)
BY CommandsCall, GenerationTypeCorrect, NoDayIsEverLost, PTL

\* For every horizon, the periods that are materialised together take different
\* positions of their cycles, within the size of the cycle
\* (materialisation.py:259-311).
THEOREM MembershipsAlwaysFit == DesiredSpec => []MembershipsFitCycles
<1>1. IInv => MembershipsFitCycles
  <2>1. CASE phase = "returned"
    BY <2>1, PositionsFit
  <2>2. CASE phase # "returned"
    BY <2>2 DEF MembershipsFitCycles
  <2> QED BY <2>1, <2>2
<1> QED BY <1>1, CommandsCall, GenerationInvariant, PTL

\* Whatever the source tree holds and whoever checks out or edits when, the
\* recorded revision holds exactly the documents that were read if the tree was
\* clean and stood still (sources/futures_product.py:843-949).
THEOREM ProvenanceIsAlwaysExact == DesiredSpec => []ProvenanceIsExact
<1>1. DesiredInit => SourceInv
  BY SourceStart
<1>2. SourceInv /\ [DesiredNext]_desiredVars => SourceInv'
  BY SourceStep
<1>3. SourceInv => ProvenanceIsExact
  BY RecordsAreProvenance
<1> QED BY <1>1, <1>2, <1>3, PTL DEF DesiredSpec

\* On every calendar and for every rule, the dates of every contract of a build
\* are the counted business days from their reference dates
\* (generation/futures_contracts.py:100-140).
THEOREM DatesAreAlwaysCounted == DesiredSpec => []DatesAreCounted
<1>1. DesiredInit => ContractInv
  BY ContractStart
<1>2. ContractInv /\ [DesiredNext]_desiredVars => ContractInv'
  BY ContractStep
<1>3. ContractInv => DatesAreCounted
  BY ContractsAreCounted
<1> QED BY <1>1, <1>2, <1>3, PTL DEF DesiredSpec

\* On every calendar and for every rule, the contracts of a product expire in
\* the order of their periods (trading_calendars/last_trading_day.py).
THEOREM ExpiriesAlwaysFollow == DesiredSpec => []ExpiriesFollowPeriods
<1>1. DesiredInit => ContractInv /\ MadeInv
  BY ContractStart, MadeStart
<1>2. /\ ContractInv /\ [DesiredNext]_desiredVars => ContractInv'
      /\ ContractInv /\ MadeInv /\ Placed /\ [DesiredNext]_desiredVars => MadeInv'
  BY ContractStep, MadeStep
<1>3. ContractInv /\ MadeInv => ExpiriesFollowPeriods
  BY ExpiriesAreOrdered
<1> QED BY <1>1, <1>2, <1>3, CommandsCall, PlacedInvariant, PTL DEF DesiredSpec

\* Inside a command the ids and the shifts of its periods are right as well
\* (generation/periods.py:94-175 and 313-330).
THEOREM CommandsNamePeriods ==
  DesiredSpec => [](IdsNameTheirPeriods /\ ShiftsFollowGeneration)
BY CommandsCall, IdsNamePeriods, ShiftsAgreeWithGeneration, PTL

\* For every horizon, every source tree and every exchange that is open often
\* enough: once the coverage is validated, the contracts of modest rules can be
\* made (materialisation.py:393-425).
THEOREM CoverageAlwaysSuffices ==
  RegularCalendars => (DesiredSpec => []CoverageSuffices)
<1> SUFFICES ASSUME RegularCalendars PROVE DesiredSpec => []CoverageSuffices
  OBVIOUS
<1>1. DesiredInit => ContractInv /\ CoverageInv
  BY ContractStart, CoverageStart
<1>2. /\ ContractInv /\ [DesiredNext]_desiredVars => ContractInv'
      /\ CoverageInv /\ ContractInv /\ IInv /\ Placed /\ [DesiredNext]_desiredVars
            => CoverageInv'
  BY ContractStep, CoverageStep
<1>3. CoverageInv => CoverageSuffices
  BY DEF CoverageInv
<1> QED BY <1>1, <1>2, <1>3, CommandsCall, GenerationInvariant, PlacedInvariant, PTL
        DEF DesiredSpec

================================================================================
