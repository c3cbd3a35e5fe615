----------------------------- MODULE Availability -----------------------------
(***************************************************************************)
(* The opening hours of a restaurant: the schedule that managers keep, and   *)
(* what follows from it at an instant: whether the restaurant is open, until *)
(* when, and when an order can be picked up. Minutes of a day are wall time; *)
(* a zone says which instants they are.                                     *)
(***************************************************************************)
EXTENDS Integers, SequencesExt

CONSTANTS
    MinutesPerDay, DaysPerWeek,
    MaxIntervalsPerDay,     \* how many intervals a day may have
    SmallHours,             \* from this minute on the forms look for no gap
    ScanDays,               \* how far ahead the next opening is looked for
    DefaultPolicy,          \* the pickup policy of a business that has set none
    Policies,               \* bound: the pickup policies
    EditableDates,          \* the dates that may be given hours of their own
    Blank                   \* an input without a time

Minutes == 0 .. MinutesPerDay - 1
WeekDays == 0 .. DaysPerWeek - 1

AvailabilityConstants ==
    /\ {MinutesPerDay, DaysPerWeek, MaxIntervalsPerDay, ScanDays} \subseteq Nat \ {0}
    /\ SmallHours \in Minutes /\ Blank \notin Minutes
    /\ DefaultPolicy \in Policies
    /\ \A p \in Policies :
          /\ p.enabled \in BOOLEAN /\ {p.lead, p.lastOrder, p.daysAhead} \subseteq Nat
          /\ p.step \in Nat \ {0}
    /\ EditableDates \subseteq Nat

-----------------------------------------------------------------------------
(* Time. A zone changes its offset once.                                    *)

Offset(zone, instant) == IF instant < zone.change THEN zone.before ELSE zone.after
IsZone(zone) == {zone.change, zone.before, zone.after} \subseteq Int
LocalDate(zone, instant) == (instant + Offset(zone, instant)) \div MinutesPerDay

\* The first (0) or second (1) instant with a wall time; in a gap the first
\* lies behind the second.
Conversion(zone, wall, fold) ==
    LET offsets == {zone.before, zone.after}
        until == zone.change + (IF fold = 0 THEN Max(offsets) ELSE Min(offsets))
    IN  wall - (IF wall < until THEN zone.before ELSE zone.after)

TransitionInstant(low, high, zone) ==
    Min({t \in low .. high : Offset(zone, t) = Offset(zone, high)})

\* A wall time in a gap becomes the end of the gap; of a repeated one the first
\* occurrence opens and the second closes.
WallToInstant(day, minute, zone, boundary) ==
    LET wall == day * MinutesPerDay + minute
        first == Conversion(zone, wall, 0)
        second == Conversion(zone, wall, 1)
    IN  IF first > second THEN TransitionInstant(second, first, zone)
        ELSE IF boundary = "open" THEN first ELSE second

\* The control center approaches the instant of a wall time in rounds.
Round(zone, wall, instant) == wall - Offset(zone, instant)

\* Mutant: one round is taken for two.
ExistsInOneRound(day, minute, zone) ==
    LET wall == day * MinutesPerDay + minute
        instant == Round(zone, wall, wall)
    IN  instant + Offset(zone, instant) = wall

WallTimeExists(day, minute, zone) ==
    LET wall == day * MinutesPerDay + minute
        instant == Round(zone, wall, Round(zone, wall, wall))
    IN  instant + Offset(zone, instant) = wall

\* The first of the coming dates on a weekday that lacks a wall time.
NoDate == -1
UpcomingDates(weekday, today) == {d \in today .. today + ScanDays : d % DaysPerWeek = weekday}
FirstWeeklyGapDate(weekday, minute, zone, today) ==
    LET lacking == {d \in UpcomingDates(weekday, today) : ~WallTimeExists(d, minute, zone)}
    IN  IF minute >= SmallHours \/ lacking = {} THEN NoDate ELSE Min(lacking)

-----------------------------------------------------------------------------
(* Intervals.                                                              *)

Length(i) == i.closes - i.opens
WellFormed(i) == i.opens \in Minutes /\ Length(i) \in 1 .. MinutesPerDay
Collide(ordered) == \E n \in 2 .. Len(ordered) : ordered[n].opens < ordered[n - 1].closes
ByOpening(i, j) == i.opens < j.opens \/ (i.opens = j.opens /\ i.closes < j.closes)
ByDay(i, j) == i.day < j.day \/ (i.day = j.day /\ ByOpening(i, j))
OfDay(week, day) == SelectSeq(week, LAMBDA i : i.day = day)

\* The circle of the week: an interval that runs past its end comes round.
Segments(i) ==
    LET circle == DaysPerWeek * MinutesPerDay
        start == i.day * MinutesPerDay + i.opens
        end == i.day * MinutesPerDay + i.closes
    IN  IF end <= circle THEN <<[opens |-> start, closes |-> end]>>
        ELSE <<[opens |-> start, closes |-> circle], [opens |-> 0, closes |-> end - circle]>>

\* Mutant: the week is a line.
OverlapOnTheLine(week) ==
    LET segments == FlattenSeq([n \in DOMAIN week |-> <<Head(Segments(week[n]))>>])
    IN  Collide(SortSeq(segments, ByOpening))

FindWeeklyOverlap(week) ==
    LET segments == FlattenSeq([n \in DOMAIN week |-> Segments(week[n])])
    IN  Collide(SortSeq(segments, ByOpening))

Consistent(week) ==
    /\ \A n \in DOMAIN week : WellFormed(week[n])
    /\ \A day \in WeekDays : Len(OfDay(week, day)) <= MaxIntervalsPerDay
    /\ ~FindWeeklyOverlap(week)

-----------------------------------------------------------------------------
(* The settings, and the commands that change them. An operation is given   *)
(* as the settings it may lead to.                                          *)

Refused == {}
NoRow == <<>>

SetWeekly(h, week) ==
    IF ~Consistent(week) THEN Refused ELSE {[h EXCEPT !.weekly = SortSeq(week, ByDay)]}

\* No intervals: closed on that date.
SetException(h, date, intervals) ==
    LET ordered == SortSeq(intervals, ByOpening)
    IN  IF date \notin EditableDates \/ Collide(ordered) THEN Refused
        ELSE {[h EXCEPT !.exceptions =
                 [d \in DOMAIN @ \cup {date} |-> IF d = date THEN ordered ELSE @[d]]]}

RemoveException(h, date) ==
    IF date \notin DOMAIN h.exceptions THEN Refused
    ELSE {[h EXCEPT !.exceptions = [d \in DOMAIN @ \ {date} |-> @[d]]]}

EffectivePolicy(h) == IF h.row = NoRow THEN DefaultPolicy ELSE h.row.policy
OrderingPaused(h) == h.row # NoRow /\ h.row.paused

SetFulfillment(h, policy) == {[h EXCEPT !.row = [policy |-> policy, paused |-> OrderingPaused(h)]]}
SetOrderingPause(h, paused) == {[h EXCEPT !.row = [policy |-> EffectivePolicy(h), paused |-> paused]]}

-----------------------------------------------------------------------------
(* What follows from them.                                                  *)

IntervalsForLocalDate(h, day) ==
    IF day \in DOMAIN h.exceptions THEN h.exceptions[day] ELSE OfDay(h.weekly, day % DaysPerWeek)

\* In the order of days, and of openings within a day; what a gap leaves nothing
\* of does not exist.
OpenIntervals(h, zone, start, count) ==
    LET realized(day) ==
            [n \in DOMAIN IntervalsForLocalDate(h, day) |->
                LET i == IntervalsForLocalDate(h, day)[n]
                IN  [opens |-> WallToInstant(day, i.opens, zone, "open"),
                     closes |-> WallToInstant(day, i.closes, zone, "close")]]
    IN  SelectSeq(FlattenSeq([n \in 1 .. count |-> realized(start + n - 1)]),
                  LAMBDA i : i.opens < i.closes)

Closed == [open |-> FALSE]

Facts(intervals, now) ==
    LET containing == {i \in ToSet(intervals) : i.opens <= now /\ now < i.closes}
        following == SelectSeq(intervals, LAMBDA i : i.opens > now)
    IN  IF containing # {} THEN [open |-> TRUE, closes |-> Max({i.closes : i \in containing})]
        ELSE IF following # <<>> THEN [open |-> FALSE, opens |-> Head(following).opens]
        ELSE Closed

\* Mutant: what opened yesterday is not seen.
AvailabilityFromToday(h, zone, now) ==
    Facts(OpenIntervals(h, zone, LocalDate(zone, now), ScanDays), now)

\* What opened yesterday may be open now.
AvailabilityAt(h, zone, now) ==
    Facts(OpenIntervals(h, zone, LocalDate(zone, now) - 1, ScanDays + 1), now)

\* The slots step in real time from the opening.
SlotsOf(i, policy, earliest) ==
    LET behind == IF i.opens < earliest THEN (earliest - i.opens + policy.step - 1) \div policy.step ELSE 0
        first == i.opens + behind * policy.step
        last == i.closes - policy.lastOrder
    IN  IF first > last THEN <<>>
        ELSE [n \in 1 .. (last - first) \div policy.step + 1 |-> first + (n - 1) * policy.step]

ServiceIntervals(h, zone, now) ==
    OpenIntervals(h, zone, LocalDate(zone, now) - 1, EffectivePolicy(h).daysAhead + 2)

PickupSlots(h, zone, now) ==
    LET policy == EffectivePolicy(h)
        intervals == ServiceIntervals(h, zone, now)
    IN  IF ~policy.enabled THEN <<>>
        ELSE FlattenSeq([n \in DOMAIN intervals |-> SlotsOf(intervals[n], policy, now + policy.lead)])

NoPickup == -1
NextPickupAt(h, zone, now) ==
    LET slots == PickupSlots(h, zone, now) IN IF slots = <<>> THEN NoPickup ELSE Head(slots)

-----------------------------------------------------------------------------
(* The form of the schedule: rows of inputs per day.                        *)

Times == Minutes \cup {Blank}
Rows == [opens : Times, closes : Times, nextDay : BOOLEAN]

RowFromInterval(i) ==
    [opens |-> i.opens, closes |-> i.closes % MinutesPerDay, nextDay |-> i.closes >= MinutesPerDay]
Complete(row) == Blank \notin {row.opens, row.closes}
RowToInterval(row) ==
    [opens |-> row.opens, closes |-> IF row.nextDay THEN row.closes + MinutesPerDay ELSE row.closes]
RowError(row) == ~Complete(row) \/ Length(RowToInterval(row)) \notin 1 .. MinutesPerDay
Encoded(rows) ==
    LET complete == SelectSeq(rows, Complete)
    IN  SortSeq([n \in DOMAIN complete |-> RowToInterval(complete[n])], LAMBDA i, j : i.opens < j.opens)
RowsOverlap(rows) == Collide(Encoded(rows))
MayBeSaved(rows) == (\A n \in DOMAIN rows : ~RowError(rows[n])) /\ ~RowsOverlap(rows)

DaysFromWeekly(week) ==
    LET sorted == SortSeq(week, ByDay)
    IN  [day \in WeekDays |-> [n \in DOMAIN OfDay(sorted, day) |-> RowFromInterval(OfDay(sorted, day)[n])]]
ToWeeklySet(days) ==
    FlattenSeq([n \in 1 .. DaysPerWeek |->
        LET intervals == Encoded(days[n - 1])
        IN  [k \in DOMAIN intervals |->
                [day |-> n - 1, opens |-> intervals[k].opens, closes |-> intervals[k].closes]]])

\* The dates that the row of a weekday, and the row of a date, is marked with.
Boundaries(i) == {i.opens, i.closes}
RowGapWarnings(weekday, row, zone, today) ==
    {FirstWeeklyGapDate((weekday + m \div MinutesPerDay) % DaysPerWeek, m % MinutesPerDay, zone, today) :
        m \in Boundaries(RowToInterval(row))} \ {NoDate}
RowDateGapWarnings(date, row, zone) ==
    {m \in Boundaries(RowToInterval(row)) :
        m % MinutesPerDay < SmallHours /\ ~WallTimeExists(date, m, zone)}

=============================================================================
