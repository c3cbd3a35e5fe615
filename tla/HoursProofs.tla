----------------------------- MODULE HoursProofs -----------------------------
(***************************************************************************)
(* Wall time and slots, for every zone that changes its clock once and for  *)
(* every pickup policy: the control center's search for a wall time, in two *)
(* rounds, finds it exactly when there is one; the server moves exactly the *)
(* others; and the slots of an interval are the times a step apart in it.    *)
(***************************************************************************)
EXTENDS HoursDesk, DataFacts, TLAPS

\* The instants with a wall time.
Instants(z, wall) == {t \in Int : t + Offset(z, t) = wall}

LEMMA OffsetIs ==
    ASSUME NEW z, IsZone(z), NEW t \in Int
    PROVE  /\ Offset(z, t) \in Int
           /\ t < z.change => Offset(z, t) = z.before
           /\ t >= z.change => Offset(z, t) = z.after
BY DEF IsZone, Offset

\* A wall time before the change has the offset before it, one after it the
\* offset after it: there may be both, or none.
LEMMA InstantsAre ==
    ASSUME NEW z, IsZone(z), NEW wall \in Int
    PROVE  Instants(z, wall) =
              {t \in {wall - z.before} : wall - z.before < z.change}
              \cup {t \in {wall - z.after} : wall - z.after >= z.change}
<1>1. ASSUME NEW t \in Int
      PROVE  t + Offset(z, t) = wall <=>
                \/ t = wall - z.before /\ t < z.change
                \/ t = wall - z.after /\ t >= z.change
  BY OffsetIs DEF IsZone
<1> QED BY <1>1 DEF Instants, IsZone

LEMMA LargerAndSmaller ==
    ASSUME NEW a \in Int, NEW b \in Int
    PROVE  /\ a >= b => Max({a, b}) = a /\ Min({a, b}) = b
           /\ a <= b => Max({a, b}) = b /\ Min({a, b}) = a
<1>1. \A x \in {a, b} : (\A y \in {a, b} : x >= y) <=> x = IF a >= b THEN a ELSE b
  OBVIOUS
<1>2. \A x \in {a, b} : (\A y \in {a, b} : x <= y) <=> x = IF a >= b THEN b ELSE a
  OBVIOUS
<1>3. Max({a, b}) = IF a >= b THEN a ELSE b
  BY <1>1 DEF Max
<1>4. Min({a, b}) = IF a >= b THEN b ELSE a
  BY <1>2 DEF Min
<1> QED BY <1>3, <1>4

\* What the two conversions give.
LEMMA ConversionsAre ==
    ASSUME NEW z, IsZone(z), NEW wall \in Int
    PROVE  /\ Conversion(z, wall, 0) =
                 IF wall < z.change + z.before \/ wall < z.change + z.after
                 THEN wall - z.before ELSE wall - z.after
           /\ Conversion(z, wall, 1) =
                 IF wall < z.change + z.before /\ wall < z.change + z.after
                 THEN wall - z.before ELSE wall - z.after
<1>1. CASE z.before >= z.after
  <2>1. Max({z.before, z.after}) = z.before /\ Min({z.before, z.after}) = z.after
    BY <1>1, LargerAndSmaller DEF IsZone
  <2> QED BY <1>1, <2>1 DEF Conversion, IsZone
<1>2. CASE z.before <= z.after
  <2>1. Max({z.before, z.after}) = z.after /\ Min({z.before, z.after}) = z.before
    BY <1>2, LargerAndSmaller DEF IsZone
  <2> QED BY <1>2, <2>1 DEF Conversion, IsZone
<1> QED BY <1>1, <1>2 DEF IsZone

\* Two rounds of the control center's search end at the wall time, if there is one.
THEOREM TwoRoundsSuffice ==
    ASSUME NEW z, IsZone(z), NEW day \in Int, NEW minute \in Int, MinutesPerDay \in Int
    PROVE  WallTimeExists(day, minute, z) <=> Instants(z, day * MinutesPerDay + minute) # {}
<1> DEFINE wall == day * MinutesPerDay + minute
<1>1. wall \in Int
  OBVIOUS
<1> HIDE DEF wall
<1> DEFINE first == wall - Offset(z, wall)
           second == wall - Offset(z, first)
<1>2. first \in {wall - z.before, wall - z.after}
      /\ (wall < z.change => first = wall - z.before)
      /\ (wall >= z.change => first = wall - z.after)
  <2>1. wall < z.change \/ wall >= z.change
    BY <1>1 DEF IsZone
  <2> QED BY <1>1, <2>1, OffsetIs
<1>3. /\ first < z.change => second = wall - z.before
      /\ first >= z.change => second = wall - z.after
  BY <1>1, <1>2, OffsetIs DEF IsZone
<1>4. WallTimeExists(day, minute, z) <=> second + Offset(z, second) = wall
  BY DEF WallTimeExists, Round, wall
<1>5. second \in Int /\ first \in Int
  BY <1>1, <1>2, <1>3 DEF IsZone
<1> HIDE DEF first, second
<1>6. second + Offset(z, second) = wall <=>
         \/ second = wall - z.before /\ second < z.change
         \/ second = wall - z.after /\ second >= z.change
  BY <1>1, <1>5, OffsetIs DEF IsZone
<1>7. Instants(z, wall) # {} <=> wall - z.before < z.change \/ wall - z.after >= z.change
  <2>1. Instants(z, wall) = {t \in {wall - z.before} : wall - z.before < z.change}
                            \cup {t \in {wall - z.after} : wall - z.after >= z.change}
    BY <1>1, InstantsAre
  <2> QED BY <2>1
<1>8. (\/ second = wall - z.before /\ second < z.change
       \/ second = wall - z.after /\ second >= z.change)
      <=> wall - z.before < z.change \/ wall - z.after >= z.change
  BY <1>1, <1>2, <1>3, <1>5 DEF IsZone
<1> QED BY <1>4, <1>6, <1>7, <1>8 DEF wall

\* The end of a gap is the first instant after the change.
LEMMA EndOfGap ==
    ASSUME NEW z, IsZone(z), NEW low \in Int, NEW high \in Int, low < z.change, z.change <= high,
           z.before # z.after
    PROVE  TransitionInstant(low, high, z) = z.change
<1> DEFINE S == {t \in low .. high : Offset(z, t) = Offset(z, high)}
<1>1. S = {t \in low .. high : t >= z.change}
  <2>1. ASSUME NEW t \in low .. high
        PROVE  Offset(z, t) = Offset(z, high) <=> t >= z.change
    BY <2>1, OffsetIs DEF IsZone
  <2> QED BY <2>1
<1>2. z.change \in S /\ \A t \in S : z.change <= t
  BY <1>1 DEF IsZone
<1>3. \A x \in S : (\A y \in S : x <= y) <=> x = z.change
  BY <1>1, <1>2 DEF IsZone
<1> HIDE DEF S
<1>4. Min(S) = z.change
  BY <1>2, <1>3 DEF Min
<1> QED BY <1>4 DEF TransitionInstant, S

\* Where the wall time exists the server takes one of its instants, the first to
\* open and the last to close; where there is none, the end of the gap.
THEOREM WallTimesAreKept ==
    ASSUME NEW z, IsZone(z), NEW day \in Int, NEW minute \in Int, MinutesPerDay \in Int,
           NEW boundary \in {"open", "close"}
    PROVE  LET instants == Instants(z, day * MinutesPerDay + minute)
               instant == WallToInstant(day, minute, z, boundary)
           IN  IF instants = {} THEN instant = z.change
               ELSE /\ instant \in instants
                    /\ \A t \in instants : IF boundary = "open" THEN instant <= t ELSE t <= instant
<1> DEFINE wall == day * MinutesPerDay + minute
           first == Conversion(z, wall, 0)
           second == Conversion(z, wall, 1)
           instant == WallToInstant(day, minute, z, boundary)
<1>1. wall \in Int
  OBVIOUS
<1>2. instant = IF first > second THEN TransitionInstant(second, first, z)
                ELSE IF boundary = "open" THEN first ELSE second
  BY DEF WallToInstant
<1> HIDE DEF wall, instant
<1>3. /\ first = IF wall < z.change + z.before \/ wall < z.change + z.after
                 THEN wall - z.before ELSE wall - z.after
      /\ second = IF wall < z.change + z.before /\ wall < z.change + z.after
                  THEN wall - z.before ELSE wall - z.after
  BY <1>1, ConversionsAre
<1> HIDE DEF first, second
<1>4. Instants(z, wall) = {t \in {wall - z.before} : wall - z.before < z.change}
                          \cup {t \in {wall - z.after} : wall - z.after >= z.change}
  BY <1>1, InstantsAre
<1>5. CASE Instants(z, wall) = {}
  <2>1. wall - z.before >= z.change /\ wall - z.after < z.change
    BY <1>1, <1>4, <1>5 DEF IsZone
  <2>2. first = wall - z.before /\ second = wall - z.after /\ z.before # z.after /\ first > second
    BY <1>1, <1>3, <2>1 DEF IsZone
  <2>3. first \in Int /\ second \in Int /\ second < z.change /\ z.change <= first
    BY <1>1, <2>1, <2>2 DEF IsZone
  <2>4. instant = z.change
    BY <1>2, <2>2, <2>3, EndOfGap
  <2> QED BY <1>5, <2>4 DEF wall, instant
<1>6. CASE Instants(z, wall) # {}
  <2>1. wall - z.before < z.change \/ wall - z.after >= z.change
    BY <1>4, <1>6
  <2>2. ~(first > second)
    BY <1>1, <1>3, <2>1 DEF IsZone
  <2>3. first \in Instants(z, wall) /\ second \in Instants(z, wall)
    BY <1>1, <1>3, <1>4, <2>1 DEF IsZone
  <2>4. \A t \in Instants(z, wall) : first <= t /\ t <= second
    BY <1>1, <1>3, <1>4, <2>1 DEF IsZone
  <2>5. instant = IF boundary = "open" THEN first ELSE second
    BY <1>2, <2>2
  <2>6. instant \in Instants(z, wall)
        /\ \A t \in Instants(z, wall) : IF boundary = "open" THEN instant <= t ELSE t <= instant
    BY <2>3, <2>4, <2>5
  <2> QED BY <1>6, <2>6 DEF wall, instant
<1> QED BY <1>5, <1>6

\* The control center marks a boundary exactly when the server moves it.
THEOREM MarkedIsMoved ==
    ASSUME IsZone(zone), NEW day \in Int, NEW minute \in Int, MinutesPerDay \in Int
    PROVE  Moves(day, minute) <=> ~WallTimeExists(day, minute, zone)
<1> DEFINE wall == day * MinutesPerDay + minute
           instant == WallToInstant(day, minute, zone, "open")
<1>1. WallTimeExists(day, minute, zone) <=> Instants(zone, wall) # {}
  BY TwoRoundsSuffice
<1>2. IF Instants(zone, wall) = {} THEN instant = zone.change ELSE instant \in Instants(zone, wall)
  BY WallTimesAreKept
<1>3. Moves(day, minute) <=> instant + Offset(zone, instant) # wall
  BY DEF Moves
<1>4. instant \in Int
  BY <1>2 DEF IsZone, Instants
<1> HIDE DEF instant, wall
<1>5. instant + Offset(zone, instant) # wall <=> instant \notin Instants(zone, wall)
  BY <1>4 DEF Instants
<1> QED BY <1>1, <1>2, <1>3, <1>5

-----------------------------------------------------------------------------
(* Days and slots.                                                           *)

LEMMA DivisionIs ==
    ASSUME NEW k \in Nat \ {0}, NEW a \in Int
    PROVE  /\ a \div k \in Int /\ a % k \in 0 .. k - 1
           /\ a = (a \div k) * k + (a % k)
OBVIOUS

\* Division with a remainder has one result.
LEMMA DivisionIsUnique ==
    ASSUME NEW k \in Nat \ {0}, NEW u \in Int, NEW r \in 0 .. k - 1
    PROVE  (u * k + r) % k = r /\ (u * k + r) \div k = u
<1> DEFINE a == u * k + r
           v == a \div k
           s == a % k
<1>1. a \in Int
  OBVIOUS
<1>2. v \in Int /\ s \in 0 .. k - 1 /\ a = v * k + s
  BY <1>1, DivisionIs
<1>3. a = u * k + r
  OBVIOUS
<1> HIDE DEF a, v, s
<1>4. u = v
  <2>1. CASE u < v
    <3>1. PICK w \in Nat \ {0} : v = u + w
      <4>1. v - u \in Nat \ {0} /\ v = u + (v - u)
        BY <1>2, <2>1
      <4> QED BY <4>1
    <3>2. (u + w) * k = u * k + w * k /\ w * k >= k
      OBVIOUS
    <3> QED BY <1>2, <1>3, <3>1, <3>2
  <2>2. CASE v < u
    <3>1. PICK w \in Nat \ {0} : u = v + w
      <4>1. u - v \in Nat \ {0} /\ u = v + (u - v)
        BY <1>2, <2>2
      <4> QED BY <4>1
    <3>2. (v + w) * k = v * k + w * k /\ w * k >= k
      BY <1>2
    <3> QED BY <1>2, <1>3, <3>1, <3>2
  <2> QED BY <1>2, <2>1, <2>2
<1>5. r = s
  BY <1>2, <1>3, <1>4
<1> QED BY <1>4, <1>5 DEF a, v, s

\* As many days on, the same weekday.
LEMMA WeekdaysGoOn ==
    ASSUME NEW k \in Nat \ {0}, NEW a \in Int, NEW q \in Int
    PROVE  (a + q) % k = ((a % k) + q) % k
<1> DEFINE u == a \div k
           b == (a % k) + q
           v == b \div k
           s == b % k
<1>1. u \in Int /\ a % k \in Int /\ a = u * k + (a % k)
  BY DivisionIs
<1>2. b \in Int
  BY <1>1
<1>3. v \in Int /\ s \in 0 .. k - 1 /\ b = v * k + s
  BY <1>2, DivisionIs
<1>4. a + q = u * k + b
  BY <1>1
<1> HIDE DEF u, v, s, b
<1>5. u * k + (v * k + s) = (u + v) * k + s
  BY <1>1, <1>3
<1>6. u + v \in Int /\ a + q = (u + v) * k + s
  BY <1>1, <1>3, <1>4, <1>5
<1>7. ((u + v) * k + s) % k = s
  BY <1>3, <1>6, DivisionIsUnique
<1> QED BY <1>6, <1>7 DEF s, b

GapIsEarlyIn(z) ==
    z.before < z.after =>
    z.change + z.after <= ((z.change + z.before) \div MinutesPerDay) * MinutesPerDay + SmallHours

\* A wall time that an early gap leaves out is one of the small hours of its day.
LEMMA GapsAreEarly ==
    ASSUME AvailabilityConstants, NEW z, IsZone(z), GapIsEarlyIn(z),
           NEW day \in Int, NEW minute \in Nat, ~WallTimeExists(day, minute, z)
    PROVE  minute % MinutesPerDay < SmallHours
<1> DEFINE K == MinutesPerDay
           wall == day * K + minute
           start == z.change + z.before
           D == start \div K
           q == minute \div K
           s == minute % K
<1>1. K \in Nat \ {0} /\ SmallHours \in 0 .. K - 1
  BY DEF AvailabilityConstants, Minutes
<1>2. wall \in Int /\ start \in Int
  BY <1>1 DEF IsZone
<1>3. Instants(z, wall) = {}
  BY <1>1, TwoRoundsSuffice
<1>4. D \in Int /\ (start % K) \in Nat /\ start = D * K + (start % K)
  <2> HIDE DEF start, K
  <2>1. (start % K) \in 0 .. K - 1 /\ D \in Int /\ start = D * K + (start % K)
    BY <1>1, <1>2, DivisionIs
  <2> QED BY <1>1, <2>1
<1>5. q \in Int /\ s \in 0 .. K - 1 /\ minute = q * K + s
  BY <1>1, DivisionIs
<1>6. z.before < z.after => z.change + z.after <= D * K + SmallHours
  BY DEF GapIsEarlyIn
<1>7. wall = (day + q) * K + s
  <2> HIDE DEF q, s
  <2>1. (day + q) * K = day * K + q * K
    BY <1>1, <1>5
  <2> PICK x, y : x = day * K /\ y = q * K
    OBVIOUS
  <2>2. x \in Int /\ y \in Int
    BY <1>1, <1>5
  <2> QED BY <1>5, <2>1, <2>2
<1> HIDE DEF K, wall, D, q, s
<1>8. start <= wall /\ wall < z.change + z.after /\ z.before < z.after
  <2>1. ~(wall - z.before < z.change) /\ ~(wall - z.after >= z.change)
    <3>1. Instants(z, wall) = {t \in {wall - z.before} : wall - z.before < z.change}
                              \cup {t \in {wall - z.after} : wall - z.after >= z.change}
      BY <1>2, InstantsAre
    <3> QED BY <1>3, <3>1
  <2> QED BY <1>2, <2>1 DEF IsZone
<1> HIDE DEF start
<1>9. PICK r \in 0 .. K - 1 : wall = D * K + r /\ r < SmallHours
  <2> PICK x : x = D * K
    OBVIOUS
  <2>1. x \in Int
    BY <1>1, <1>4
  <2>2. z.change + z.after \in Int
    BY DEF IsZone
  <2>3. wall - x \in 0 .. K - 1 /\ wall - x < SmallHours /\ wall = x + (wall - x)
    BY <1>1, <1>2, <1>4, <1>6, <1>8, <2>1, <2>2
  <2> QED BY <2>3
<1>10. wall % K = r
  BY <1>1, <1>4, <1>9, DivisionIsUnique
<1>11. wall % K = s
  <2>1. day + q \in Int
    BY <1>5
  <2> QED BY <1>1, <1>5, <1>7, <2>1, DivisionIsUnique
<1> QED BY <1>9, <1>10, <1>11 DEF s, K

LEMMA OneRowIsMarked ==
    ASSUME AvailabilityConstants, IsZone(zone), LocalDate(zone, now) \in Nat,
           NEW weekday \in WeekDays, NEW row \in TypedRows
    PROVE  RowIsMarked(weekday, row)
<1> DEFINE today == LocalDate(zone, now)
           days == Coming(weekday)
           bounds == Boundaries(RowToInterval(row))
           marked(day) == RowDateGapWarnings(day, row, zone)
           K == MinutesPerDay
           W == DaysPerWeek
<1>1. K \in Nat \ {0} /\ W \in Nat \ {0} /\ ScanDays \in Nat \ {0} /\ SmallHours \in Nat
  BY DEF AvailabilityConstants, Minutes
<1>2. \A m \in bounds : m \in 0 .. 2 * K - 1
  BY <1>1 DEF Boundaries, RowToInterval, Minutes, TypedRows
<1>3. \A day \in days : day \in Nat /\ day % W = weekday /\ today <= day /\ day + 2 <= today + ScanDays
  BY <1>1 DEF Coming
<1>4. \A day \in Int, m \in Nat : Moves(day, m) <=> ~WallTimeExists(day, m, zone)
  BY <1>1, MarkedIsMoved
<1> HIDE DEF bounds, days
<1>5. ASSUME NEW day \in days
      PROVE  marked(day) = {m \in Moved(day, row) : m % K < SmallHours}
  <2>1. \A m \in bounds : Moves(day, m) <=> ~WallTimeExists(day, m, zone)
    BY <1>2, <1>3, <1>4
  <2> QED BY <2>1 DEF RowDateGapWarnings, Moved, bounds
<1>7. ASSUME NEW day \in days, GapIsEarly PROVE marked(day) = Moved(day, row)
  <2>1. GapIsEarlyIn(zone)
    BY <1>7 DEF GapIsEarly, GapIsEarlyIn
  <2>2. \A m \in bounds : Moves(day, m) => m % K < SmallHours
    BY <1>2, <1>3, <1>4, <2>1, GapsAreEarly
  <2> QED BY <1>5, <2>2 DEF Moved, bounds
<1>6. ASSUME NEW day \in days, marked(day) # {}
      PROVE  RowGapWarnings(weekday, row, zone, today) # {}
  <2>1. PICK m \in bounds : m % K < SmallHours /\ ~WallTimeExists(day, m, zone)
    BY <1>6 DEF RowDateGapWarnings, bounds
  <2> DEFINE q == m \div K
             r == m % K
             lacking == {d \in UpcomingDates((weekday + q) % W, today) : ~WallTimeExists(d, r, zone)}
             mark == FirstWeeklyGapDate((weekday + q) % W, r, zone, today)
  <2>2. m \in Nat /\ m < 2 * K /\ day \in Nat /\ today \in Nat
    BY <1>1, <1>2, <1>3
  <2>3. q \in Int /\ r \in 0 .. K - 1 /\ m = q * K + r
    BY <1>1, <2>2, DivisionIs
  <2> HIDE DEF q, r
  <2>4. q \in {0, 1}
    <3>1. CASE q >= 2
      <4>1. PICK w \in Nat : q = w + 2
        <5>1. q - 2 \in Nat /\ q = (q - 2) + 2
          BY <2>3, <3>1
        <5> QED BY <5>1
      <4>2. (w + 2) * K = w * K + 2 * K /\ w * K >= 0
        BY <1>1
      <4> QED BY <1>1, <2>2, <2>3, <4>1, <4>2
    <3>2. CASE q <= -1
      <4>1. PICK w \in Nat : q = -1 - w
        <5>1. -1 - q \in Nat /\ q = -1 - (-1 - q)
          BY <2>3, <3>2
        <5> QED BY <5>1
      <4>2. (-1 - w) * K = -K - w * K /\ w * K >= 0
        BY <1>1
      <4> QED BY <1>1, <2>2, <2>3, <4>1, <4>2
    <3> QED BY <2>3, <3>1, <3>2
  <2>5. (day + q) * K + r = day * K + m
    BY <1>1, <2>2, <2>3, <2>4
  <2>6. ~WallTimeExists(day, m, zone)
    BY <2>1
  <2>7. ~WallTimeExists(day + q, r, zone)
    BY <2>5, <2>6 DEF WallTimeExists
  <2>8. r < SmallHours
    BY <2>1 DEF r
  <2>9. day + q \in lacking
    <3>1. (day + q) % W = (weekday + q) % W
      <4>1. day \in Int /\ q \in Int /\ W \in Nat \ {0}
        BY <1>1, <2>2, <2>3
      <4> HIDE DEF W
      <4>2. (day + q) % W = ((day % W) + q) % W
        BY <4>1, WeekdaysGoOn
      <4> QED BY <1>3, <4>2
    <3>2. day + q \in today .. today + ScanDays
      BY <1>1, <1>3, <2>2, <2>4
    <3> QED BY <2>7, <3>1, <3>2 DEF UpcomingDates
  <2>10. mark = Min(lacking)
    <3>1. mark = IF r >= SmallHours \/ lacking = {} THEN NoDate ELSE Min(lacking)
      BY DEF FirstWeeklyGapDate
    <3>2. ~(r >= SmallHours)
      BY <1>1, <2>3, <2>8
    <3> HIDE DEF lacking, mark
    <3> QED BY <2>9, <3>1, <3>2
  <2>11. lacking \subseteq Nat
    BY <1>1, <2>2 DEF UpcomingDates
  <2> HIDE DEF lacking, mark
  <2>12. \E d \in lacking : \A e \in lacking : d <= e
    BY <2>9, <2>11, LeastNumber
  <2>13. Min(lacking) \in lacking
    BY <2>12 DEF Min
  <2>14. mark # NoDate
    BY <2>10, <2>11, <2>13 DEF NoDate
  <2>15. mark \in RowGapWarnings(weekday, row, zone, today)
    BY <2>14 DEF RowGapWarnings, mark, q, r, bounds
  <2> QED BY <2>15
<1> QED BY <1>1, <1>5, <1>6, <1>7 DEF RowIsMarked, days

\* The zone is one of the business's, and the time has not gone back.
TimeIsKnown ==
    /\ zone \in Zones /\ now \in Nat /\ FirstInstant <= now

LEMMA TimeStaysKnown ==
    ASSUME HoursConstants
    PROVE  HoursSpec => []TimeIsKnown
<1>1. HoursInit => TimeIsKnown
  BY DEF HoursConstants, HoursInit, TimeIsKnown
<1>2. TimeIsKnown /\ [HoursNext \/ ClockNext]_hoursVars => TimeIsKnown'
  <2> SUFFICES ASSUME TimeIsKnown, [HoursNext \/ ClockNext]_hoursVars PROVE TimeIsKnown'
    OBVIOUS
  <2>1. CASE PassMinute
    BY <2>1 DEF PassMinute, TimeIsKnown, HoursConstants
  <2>2. CASE \/ ChangeElsewhere \/ RunCall \/ LoseAnswer \/ LandHours \/ FailHours \/ TryHoursAgain
    BY <2>2 DEF ChangeElsewhere, RunCall, LoseAnswer, LandHours, FailHours, TryHoursAgain, TimeIsKnown
  <2>3. CASE \/ TypeWeek \/ TypeRules \/ SaveWeek \/ SaveRules \/ OpenDateDialog
             \/ CancelDateDialog \/ SaveDate \/ ConfirmRemoval
    BY <2>3 DEF TypeWeek, TypeRules, SaveWeek, SaveRules, OpenDateDialog, CancelDateDialog, SaveDate,
       ConfirmRemoval, Send, TimeIsKnown
  <2>4. CASE TakeWeek \/ TakeRules \/ TakeDate \/ TakeRefusal
    BY <2>4 DEF TakeWeek, TakeRules, TakeDate, TakeRefusal, TimeIsKnown
  <2>5. CASE UNCHANGED hoursVars
    BY <2>5 DEF hoursVars, TimeIsKnown
  <2> QED BY <2>1, <2>2, <2>3, <2>4, <2>5 DEF HoursNext, ClockNext
<1> QED BY <1>1, <1>2, PTL DEF HoursSpec

\* The first day is not before the first of all.
LEMMA TodayIsADate ==
    ASSUME HoursConstants, TimeIsKnown
    PROVE  LocalDate(zone, now) \in Nat
<1>1. MinutesPerDay \in Nat \ {0} /\ FirstInstant \in Nat /\ IsZone(zone)
      /\ FirstInstant + zone.before \in Nat /\ FirstInstant + zone.after \in Nat
  BY DEF HoursConstants, AvailabilityConstants, TimeIsKnown
<1>2. now + Offset(zone, now) \in Nat
  BY <1>1, OffsetIs DEF TimeIsKnown, IsZone
<1>3. \A a \in Nat : a \div MinutesPerDay \in Nat
  BY <1>1
<1> QED BY <1>2, <1>3 DEF LocalDate

(* Whatever the zone and the times of a row: on each of the coming dates it is *)
(* marked with the small hours that the server will move there, and with all   *)
(* that it will move if the gap is early; and the form of the week marks it if *)
(* there is such a date.                                                     *)
THEOREM MarksAreTrue ==
    ASSUME HoursConstants
    PROVE  HoursSpec => []GapsAreMarked
<1>1. TimeIsKnown => GapsAreMarked
  <2> SUFFICES ASSUME TimeIsKnown PROVE GapsAreMarked
    OBVIOUS
  <2>1. AvailabilityConstants /\ IsZone(zone) /\ LocalDate(zone, now) \in Nat
    BY TodayIsADate DEF HoursConstants, TimeIsKnown
  <2> QED BY <2>1, OneRowIsMarked DEF GapsAreMarked
<1> QED BY <1>1, TimeStaysKnown, PTL

LEMMA MultiplesLeaveNothing ==
    ASSUME NEW k \in Nat \ {0}, NEW a \in Int
    PROVE  a % k = 0 <=> \E u \in Int : a = u * k
<1>1. ASSUME NEW u \in Int, a = u * k PROVE a % k = 0
  <2>1. 0 \in 0 .. k - 1 /\ u * k + 0 = a
    BY <1>1
  <2>2. (u * k + 0) % k = 0
    BY <2>1, DivisionIsUnique
  <2> QED BY <2>1, <2>2
<1>2. ASSUME a % k = 0 PROVE \E u \in Int : a = u * k
  <2>1. a \div k \in Int /\ a = (a \div k) * k + (a % k)
    BY DivisionIs
  <2>2. a = (a \div k) * k
    BY <1>2, <2>1
  <2> QED BY <2>1, <2>2
<1> QED BY <1>1, <1>2

\* The slots of an interval are its times a step apart from the opening, from the
\* earliest that is allowed to the last order, in their order.
THEOREM SlotsAreTheTimes ==
    ASSUME NEW i, i.opens \in Int, i.closes \in Int, NEW earliest \in Int,
           NEW policy, policy.step \in Nat \ {0}, policy.lastOrder \in Nat
    PROVE  LET slots == SlotsOf(i, policy, earliest)
           IN  /\ \A t \in Int :
                     (\E n \in DOMAIN slots : slots[n] = t)
                     <=> /\ i.opens <= t /\ earliest <= t /\ t <= i.closes - policy.lastOrder
                         /\ (t - i.opens) % policy.step = 0
               /\ \A n, l \in DOMAIN slots : n < l => slots[n] < slots[l]
<1> DEFINE o == i.opens
           k == policy.step
           last == i.closes - policy.lastOrder
           behind == IF o < earliest THEN (earliest - o + k - 1) \div k ELSE 0
           first == o + behind * k
           N == (last - first) \div k + 1
           slots == SlotsOf(i, policy, earliest)
<1>1. o \in Int /\ k \in Nat \ {0} /\ last \in Int
  OBVIOUS
<1>2. slots = IF first > last THEN << >> ELSE [n \in 1 .. N |-> first + (n - 1) * k]
  BY DEF SlotsOf
<1> HIDE DEF o, k, last, slots
<1>3. behind \in Nat
  <2>1. CASE o < earliest
    <3> DEFINE a == earliest - o + k - 1
    <3>1. a \in Nat
      BY <1>1, <2>1
    <3> HIDE DEF a
    <3>2. a \div k \in Nat
      BY <1>1, <3>1
    <3> QED BY <2>1, <3>2 DEF a
  <2>2. CASE ~(o < earliest)
    BY <2>2
  <2> QED BY <2>1, <2>2
\* Where the steps reach the earliest time.
<1>4. \A c \in Int : c >= behind <=> c >= 0 /\ o + c * k >= earliest
  <2> TAKE c \in Int
  <2>1. CASE o < earliest
    <3> DEFINE a == earliest - o + k - 1
               v == a \div k
               s == a % k
    <3>1. a \in Int
      BY <1>1
    <3>2. v \in Int /\ s \in 0 .. k - 1 /\ a = v * k + s
      BY <1>1, <3>1, DivisionIs
    <3>3. behind = v
      BY <2>1
    <3>4. a = earliest - o + k - 1
      OBVIOUS
    <3> HIDE DEF a, v, s, behind
    <3>5. CASE c >= v
      <4>1. PICK w \in Nat : c = v + w
        <5>1. c - v \in Nat /\ c = v + (c - v)
          BY <3>2, <3>5
        <5> QED BY <5>1
      <4>2. (v + w) * k = v * k + w * k /\ w * k >= 0
        BY <1>1, <3>2
      <4>3. o + c * k >= earliest
        BY <1>1, <3>2, <3>4, <4>1, <4>2
      <4> QED BY <1>3, <3>3, <3>5, <4>3
    <3>6. CASE c < v
      <4>1. PICK w \in Nat : v = c + w + 1
        <5>1. v - c - 1 \in Nat /\ v = c + (v - c - 1) + 1
          BY <3>2, <3>6
        <5> QED BY <5>1
      <4>2. (c + w + 1) * k = c * k + w * k + k /\ w * k >= 0
        BY <1>1
      <4>3. o + c * k < earliest
        BY <1>1, <3>2, <3>4, <4>1, <4>2
      <4> QED BY <1>1, <3>2, <3>3, <3>6, <4>3
    <3> QED BY <3>2, <3>5, <3>6
  <2>2. CASE ~(o < earliest)
    <3>1. behind = 0
      BY <2>2
    <3>2. c >= 0 => c * k >= 0
      BY <1>1
    <3> QED BY <1>1, <2>2, <3>1, <3>2
  <2> QED BY <2>1, <2>2
<1> HIDE DEF behind
<1>5. first \in Int /\ first = o + behind * k
  BY <1>1, <1>3
<1> HIDE DEF first
<1>6. ASSUME NEW t \in Int
      PROVE  (\E n \in DOMAIN slots : slots[n] = t)
             <=> o <= t /\ earliest <= t /\ t <= last /\ (t - o) % k = 0
  <2>1. (t - o) % k = 0 <=> \E u \in Int : t - o = u * k
    <3> DEFINE a == t - o
    <3>1. a \in Int
      BY <1>1
    <3> HIDE DEF a
    <3>2. a % k = 0 <=> \E u \in Int : a = u * k
      BY <1>1, <3>1, MultiplesLeaveNothing
    <3> QED BY <3>2 DEF a
  <2>2. ASSUME NEW n \in DOMAIN slots, slots[n] = t
        PROVE  o <= t /\ earliest <= t /\ t <= last /\ (t - o) % k = 0
    <3>1. ~(first > last) /\ n \in 1 .. N /\ t = first + (n - 1) * k
      BY <1>2, <2>2
    <3> PICK c : c = behind + (n - 1)
      OBVIOUS
    <3>2. c \in Int /\ c >= behind /\ c * k = behind * k + (n - 1) * k
      BY <1>1, <1>3, <3>1
    <3>3. t = o + c * k
      BY <1>1, <1>3, <1>5, <3>1, <3>2
    <3>4. c * k >= 0 /\ earliest <= t
      BY <1>1, <1>3, <1>4, <3>2, <3>3
    <3>5. t <= last
      <4> DEFINE d == last - first
      <4>1. d \in Int
        BY <1>1, <1>5
      <4> HIDE DEF d
      <4>2. d \div k \in Int /\ (d % k) \in Nat /\ d = (d \div k) * k + (d % k)
        BY <1>1, <4>1, DivisionIs
      <4>3. PICK w \in Nat : d \div k = (n - 1) + w
        <5>1. n - 1 <= d \div k
          BY <3>1, <4>2 DEF d
        <5>2. d \div k - (n - 1) \in Nat /\ d \div k = (n - 1) + (d \div k - (n - 1))
          BY <3>1, <4>2, <5>1
        <5> QED BY <5>2
      <4>4. ((n - 1) + w) * k = (n - 1) * k + w * k /\ w * k >= 0
        BY <1>1, <3>1
      <4>5. (n - 1) * k <= d
        <5> PICK x, y : x = (n - 1) * k /\ y = w * k
          OBVIOUS
        <5>1. x \in Int /\ y \in Nat
          BY <1>1, <3>1, <4>4
        <5>2. d = (x + y) + (d % k)
          BY <4>2, <4>3, <4>4
        <5> QED BY <4>1, <4>2, <5>1, <5>2
      <4> QED BY <1>1, <1>5, <3>1, <4>5 DEF d
    <3>6. t - o = c * k
      BY <1>1, <3>2, <3>3
    <3>7. (t - o) % k = 0
      BY <2>1, <3>2, <3>6, Zenon
    <3>8. o <= t
      <4> PICK x : x = c * k
        OBVIOUS
      <4> QED BY <1>1, <3>3, <3>4, <3>6
    <3> QED BY <3>4, <3>5, <3>7, <3>8
  <2>3. ASSUME o <= t, earliest <= t, t <= last, NEW c \in Int, t - o = c * k
        PROVE  \E n \in DOMAIN slots : slots[n] = t
    <3>1. t = o + c * k
      BY <1>1, <2>3
    <3>2. c >= 0
      <4>1. c < 0 => c * k < 0
        BY <1>1
      <4> QED BY <1>1, <2>3, <3>1, <4>1
    <3>3. c >= behind
      BY <1>4, <2>3, <3>1, <3>2
    <3> PICK w : w = c - behind
      OBVIOUS
    <3>4. w \in Nat /\ c = behind + w /\ (behind + w) * k = behind * k + w * k /\ w * k >= 0
      BY <1>1, <1>3, <3>3
    <3>5. t = first + w * k
      BY <1>1, <1>3, <1>5, <3>1, <3>4
    <3> DEFINE d == last - first
    <3>0. w * k \in Nat /\ first + w * k <= last
      <4>1. \A a, b \in Nat : a * b \in Nat
        OBVIOUS
      <4>2. w * k \in Nat
        BY <1>1, <3>4, <4>1
      <4>3. first + w * k <= last
        BY <2>3, <3>5, Zenon
      <4> QED BY <4>2, <4>3
    <3>6. d \in Int /\ w * k <= d
      <4> PICK x : x = w * k
        OBVIOUS
      <4> QED BY <1>1, <1>5, <3>0
    <3> HIDE DEF d
    <3>7. d \div k \in Int /\ (d % k) \in 0 .. k - 1 /\ d = (d \div k) * k + (d % k)
      BY <1>1, <3>6, DivisionIs
    <3>8. w <= d \div k
      <4> PICK e : e = d \div k
        OBVIOUS
      <4>1. CASE e < w
        <5>1. PICK x \in Nat : w = e + x + 1
          <6>1. w - e - 1 \in Nat /\ w = e + (w - e - 1) + 1
            BY <3>4, <3>7, <4>1
          <6> QED BY <6>1
        <5>2. (e + x + 1) * k = e * k + x * k + k /\ x * k >= 0
          BY <1>1, <3>7
        <5> QED BY <1>1, <3>4, <3>6, <3>7, <5>1, <5>2
      <4> QED BY <3>4, <3>7, <4>1
    <3>9. ~(first > last)
      <4> PICK x : x = w * k
        OBVIOUS
      <4> QED BY <1>1, <1>5, <3>0
    <3> PICK n : n = w + 1
      OBVIOUS
    <3>10. n \in 1 .. N /\ n - 1 = w
      BY <3>4, <3>7, <3>8 DEF d
    <3> QED BY <1>2, <3>5, <3>9, <3>10
  <2> QED BY <2>1, <2>2, <2>3
<1>7. ASSUME NEW n \in DOMAIN slots, NEW l \in DOMAIN slots, n < l
      PROVE  slots[n] < slots[l]
  <2>1. n \in Int /\ l \in Int /\ slots[n] = first + (n - 1) * k /\ slots[l] = first + (l - 1) * k
    BY <1>2, <1>7
  <2>2. PICK w \in Nat : l - 1 = (n - 1) + (w + 1)
    <3>1. l - n - 1 \in Nat /\ l - 1 = (n - 1) + ((l - n - 1) + 1)
      BY <1>7, <2>1
    <3> QED BY <3>1
  <2>3. ((n - 1) + (w + 1)) * k = (n - 1) * k + w * k + k /\ w * k >= 0
    BY <1>1, <2>1
  <2> QED BY <1>1, <1>5, <2>1, <2>2, <2>3
<1> QED BY <1>6, <1>7 DEF o, k, last, slots
=============================================================================
