------------------------------ MODULE HoursDesk ------------------------------
(***************************************************************************)
(* The hours page of the control center: the settings on the server, the     *)
(* query for them, and three panels that each save a part of them as a whole *)
(* and write the answer, the settings then, into the query. Beside it, what  *)
(* the settings mean while time passes.                                     *)
(***************************************************************************)
EXTENDS Query, Availability

CONSTANTS
    WeekForms,          \* bound: what may be typed into the schedule
    DateForms,          \* bound: the rows that may be typed for a date
    Dates,              \* bound: the dates that are asked for
    HoursStarts,        \* bound: the settings at first
    Zones,              \* bound: the zones of the business
    FirstInstant, LastInstant,  \* bound: the time that passes
    MaxHoursEvents      \* bound: commands that change them, requests that fail

HoursConstants ==
    /\ AvailabilityConstants
    /\ \A form \in WeekForms : DOMAIN form = WeekDays
    /\ Dates \subseteq Nat
    /\ {FirstInstant, LastInstant, MaxHoursEvents} \subseteq Nat
    /\ \A z \in Zones :
          /\ IsZone(z)
          /\ {FirstInstant + z.before, FirstInstant + z.after} \subseteq Nat

VARIABLES
    hours,          \* the settings on the server
    zone, now,      \* the zone of the business, and the time
    mayEdit,        \* whether the member may change them
    hoursQuery,     \* the query for them
    week, rules,    \* the schedule and the pickup policy as the panels show them,
    weekBase, rulesBase,    \* and as they were last saved or first shown
    dateDialog,     \* the dialog for a date's hours
    calls,          \* the commands under way, one of a panel
    hoursEvents     \* how many commands changed something or requests failed

hoursVars == <<hours, zone, now, mayEdit, hoursQuery, week, rules, weekBase, rulesBase,
               dateDialog, calls, hoursEvents>>
panels == <<week, rules, weekBase, rulesBase, dateDialog>>

NoForm == <<>>         \* not on screen
BadRules == [bad |-> TRUE]        \* a number out of bounds
NoDialog == [mode |-> "none"]
Panels == {"week", "rules", "date"}

\* An order of intervals that is not empty is listed; a date has one entry.
AreHours(h) ==
    /\ h.weekly \in Seq([day : WeekDays, opens : Minutes, closes : 1 .. 2 * MinutesPerDay])
    /\ DOMAIN h.exceptions \subseteq EditableDates
    /\ h.row # NoRow => h.row \in [policy : Policies, paused : BOOLEAN]

Execute(h, q) ==
    CASE q.do = "weekly"  -> SetWeekly(h, q.week)
      [] q.do = "date"    -> SetException(h, q.date, q.intervals)
      [] q.do = "remove"  -> RemoveException(h, q.date)
      [] q.do = "rules"   -> SetFulfillment(h, q.rules)
      [] q.do = "pause"   -> SetOrderingPause(h, q.paused)

\* What other managers do, here and from the board of orders.
SetElsewhere(h) ==
    {[do |-> "weekly", week |-> ToWeeklySet(f)] :
        f \in {form \in WeekForms : \A d \in WeekDays : MayBeSaved(form[d])}}
    \cup {[do |-> "date", date |-> d, intervals |-> Encoded(f)] :
        d \in Dates, f \in {rows \in DateForms : MayBeSaved(rows)}}
    \cup {[do |-> "remove", date |-> d] : d \in Dates}
    \cup {[do |-> "rules", rules |-> p] : p \in Policies}
    \cup {[do |-> "pause", paused |-> p] : p \in BOOLEAN}

OnScreen == Usable(hoursQuery)
Of(panel) == {c \in calls : c.panel = panel}
Pending(panel) == \E c \in Of(panel) : c.ours

\* While the page shows the error no panel is on screen: what was typed is gone,
\* and an answer to a command finds no panel.
Shown(q) ==
    /\ hoursQuery' = q
    /\ IF Usable(q) /\ ~OnScreen
       THEN /\ week' = DaysFromWeekly(q.data.weekly) /\ weekBase' = week'
            /\ rules' = EffectivePolicy(q.data) /\ rulesBase' = rules'
            /\ UNCHANGED dateDialog
       ELSE IF ~Usable(q)
       THEN /\ week' = NoForm /\ weekBase' = NoForm /\ rules' = NoForm /\ rulesBase' = NoForm
            /\ dateDialog' = NoDialog
       ELSE UNCHANGED panels
Left(set, q) == IF Usable(q) THEN set ELSE {[c EXCEPT !.ours = FALSE] : c \in set}

HoursTypeOK ==
    /\ AreHours(hours)
    /\ \A h \in {hoursQuery.data, hoursQuery.flight} \ {NoData} : AreHours(h)
    /\ OnScreen <=> week # NoForm
    /\ dateDialog # NoDialog => OnScreen
    /\ Pending("date") => dateDialog # NoDialog
    /\ \A p \in Panels : Cardinality(Of(p)) <= 1
    /\ now \in FirstInstant .. LastInstant /\ hoursEvents \in 0 .. MaxHoursEvents

HoursInit ==
    /\ hours \in HoursStarts /\ zone \in Zones /\ now = FirstInstant
    /\ mayEdit \in BOOLEAN
    /\ hoursQuery = Fetch(NotAsked, hours)
    /\ week = NoForm /\ weekBase = NoForm /\ rules = NoForm /\ rulesBase = NoForm
    /\ dateDialog = NoDialog /\ calls = {} /\ hoursEvents = 0

Happened(counts) ==
    /\ hoursEvents' = IF counts THEN hoursEvents + 1 ELSE hoursEvents
    /\ hoursEvents' <= MaxHoursEvents

-----------------------------------------------------------------------------
(* Time, and the server.                                                   *)

PassMinute ==
    /\ now < LastInstant /\ now' = now + 1
    /\ UNCHANGED <<hours, zone, mayEdit, hoursQuery, panels, calls, hoursEvents>>

ChangeElsewhere ==
    /\ \E q \in SetElsewhere(hours) : hours' \in Execute(hours, q) \ {hours}
    /\ Happened(TRUE)
    /\ UNCHANGED <<zone, now, mayEdit, hoursQuery, panels, calls>>

\* Every answer but a removal's is the settings as they are then.
RunCall ==
    /\ \E c \in calls :
          /\ c.phase = "sent"
          /\ \/ /\ hours' \in Execute(hours, c.q)
                /\ calls' = (calls \ {c}) \cup {[c EXCEPT !.phase = "done", !.view = hours']}
                /\ Happened(hours' # hours)
             \/ /\ Execute(hours, c.q) = Refused
                /\ calls' = (calls \ {c}) \cup {[c EXCEPT !.phase = "failed"]}
                /\ UNCHANGED <<hours, hoursEvents>>
    /\ UNCHANGED <<zone, now, mayEdit, hoursQuery, panels>>

LoseAnswer ==
    /\ Happened(TRUE)
    /\ \E c \in calls :
          /\ c.phase \in {"sent", "done"}
          /\ calls' = (calls \ {c}) \cup {[c EXCEPT !.phase = "failed", !.view = NoData]}
    /\ UNCHANGED <<hours, zone, now, mayEdit, hoursQuery, panels>>

-----------------------------------------------------------------------------
(* The query.                                                              *)

LandHours ==
    /\ UnderWay(hoursQuery)
    /\ \E h \in Answers(hoursQuery, hours) : Shown(Land(hoursQuery, h))
    /\ UNCHANGED <<hours, zone, now, mayEdit, calls, hoursEvents>>

FailHours ==
    /\ Happened(TRUE)
    /\ UnderWay(hoursQuery) /\ Shown(Fail(hoursQuery))
    /\ calls' = Left(calls, Fail(hoursQuery))
    /\ UNCHANGED <<hours, zone, now, mayEdit>>

TryHoursAgain ==
    /\ hoursQuery.failed /\ ~UnderWay(hoursQuery)
    /\ hoursQuery' = Refetch(hoursQuery, hours)
    /\ UNCHANGED <<hours, zone, now, mayEdit, panels, calls, hoursEvents>>

-----------------------------------------------------------------------------
(* The panels.                                                             *)

AtHand(panel) == OnScreen /\ mayEdit /\ Of(panel) = {}
InReach(panel) == AtHand(panel) /\ dateDialog = NoDialog

Send(panel, q) ==
    /\ calls' = calls \cup {[panel |-> panel, q |-> q, phase |-> "sent", view |-> NoData, ours |-> TRUE]}
    /\ UNCHANGED <<hours, zone, now, mayEdit, hoursQuery, panels, hoursEvents>>

TypeWeek ==
    /\ InReach("week")
    /\ week' \in WeekForms
    /\ UNCHANGED <<hours, zone, now, mayEdit, hoursQuery, rules, weekBase, rulesBase, dateDialog, calls, hoursEvents>>

TypeRules ==
    /\ InReach("rules")
    /\ rules' \in Policies \cup {BadRules}
    /\ UNCHANGED <<hours, zone, now, mayEdit, hoursQuery, week, weekBase, rulesBase, dateDialog, calls, hoursEvents>>

SaveWeek ==
    /\ InReach("week") /\ week # weekBase
    /\ \A d \in WeekDays : MayBeSaved(week[d])
    /\ Send("week", [do |-> "weekly", week |-> ToWeeklySet(week)])

SaveRules ==
    /\ InReach("rules") /\ rules \notin {rulesBase, BadRules}
    /\ Send("rules", [do |-> "rules", rules |-> rules])

OpenDateDialog ==
    /\ InReach("date")
    /\ dateDialog' \in {[mode |-> "add"]} \cup
          {[mode |-> m, date |-> d] : m \in {"edit", "remove"}, d \in DOMAIN hoursQuery.data.exceptions}
    /\ UNCHANGED <<hours, zone, now, mayEdit, hoursQuery, week, rules, weekBase, rulesBase, calls, hoursEvents>>

CancelDateDialog ==
    /\ AtHand("date") /\ dateDialog # NoDialog
    /\ dateDialog' = NoDialog
    /\ UNCHANGED <<hours, zone, now, mayEdit, hoursQuery, week, rules, weekBase, rulesBase, calls, hoursEvents>>

\* Rows, or none and the mark that the date is closed.
SaveDate ==
    /\ AtHand("date") /\ dateDialog.mode \in {"add", "edit"}
    /\ \E rows \in DateForms, d \in Dates :
          /\ dateDialog.mode = "edit" => d = dateDialog.date
          /\ MayBeSaved(rows)
          /\ Send("date", [do |-> "date", date |-> d, intervals |-> Encoded(rows)])

ConfirmRemoval ==
    /\ AtHand("date") /\ dateDialog.mode = "remove"
    /\ Send("date", [do |-> "remove", date |-> dateDialog.date])

\* The panel that saved shows what was saved.
TakeWeek ==
    /\ \E c \in Of("week") :
          /\ c.phase = "done" /\ calls' = calls \ {c}
          /\ IF c.ours
             THEN /\ hoursQuery' = Write(hoursQuery, c.view)
                  /\ week' = DaysFromWeekly(c.view.weekly) /\ weekBase' = week'
                  /\ UNCHANGED <<rules, rulesBase, dateDialog>>
             ELSE Shown(Write(hoursQuery, c.view))
    /\ UNCHANGED <<hours, zone, now, mayEdit, hoursEvents>>

TakeRules ==
    /\ \E c \in Of("rules") :
          /\ c.phase = "done" /\ calls' = calls \ {c}
          /\ IF c.ours
             THEN /\ hoursQuery' = Write(hoursQuery, c.view)
                  /\ rules' = EffectivePolicy(c.view) /\ rulesBase' = rules'
                  /\ UNCHANGED <<week, weekBase, dateDialog>>
             ELSE Shown(Write(hoursQuery, c.view))
    /\ UNCHANGED <<hours, zone, now, mayEdit, hoursEvents>>

\* A removal is answered without the settings, which are read again.
TakeDate ==
    /\ \E c \in Of("date") :
          /\ c.phase = "done" /\ calls' = calls \ {c}
          /\ LET q == IF c.q.do = "remove" THEN Refetch(hoursQuery, hours)
                      ELSE Write(hoursQuery, c.view)
             IN  IF c.ours
                 THEN /\ hoursQuery' = q /\ dateDialog' = NoDialog
                      /\ UNCHANGED <<week, rules, weekBase, rulesBase>>
                 ELSE Shown(q)
    /\ UNCHANGED <<hours, zone, now, mayEdit, hoursEvents>>

\* Forms stay as they are, the question whether to remove does not.
TakeRefusal ==
    /\ \E c \in calls :
          /\ c.phase = "failed" /\ calls' = calls \ {c}
          /\ dateDialog' = IF c.ours /\ c.q.do = "remove" THEN NoDialog ELSE dateDialog
    /\ UNCHANGED <<hours, zone, now, mayEdit, hoursQuery, week, rules, weekBase, rulesBase, hoursEvents>>

HoursNext ==
    \/ ChangeElsewhere
    \/ RunCall
    \/ LoseAnswer
    \/ LandHours
    \/ FailHours
    \/ TryHoursAgain
    \/ TypeWeek
    \/ TypeRules
    \/ SaveWeek
    \/ SaveRules
    \/ OpenDateDialog
    \/ CancelDateDialog
    \/ SaveDate
    \/ ConfirmRemoval
    \/ TakeWeek
    \/ TakeRules
    \/ TakeDate
    \/ TakeRefusal

\* Time and schedules alone.
ClockNext ==
    \/ PassMinute
    \/ ChangeElsewhere

HoursSpec == HoursInit /\ [][HoursNext \/ ClockNext]_hoursVars

-----------------------------------------------------------------------------

Realized(day) == ToSet(OpenIntervals(hours, zone, day, 1))
OpenAt(t) ==
    \E day \in LocalDate(zone, FirstInstant) - 2 .. LocalDate(zone, LastInstant) + ScanDays :
       \E i \in Realized(day) : i.opens <= t /\ t < i.closes

\* What customers are told is what the intervals of all dates amount to: open
\* exactly while one of them runs, until an instant before which none ends the
\* opening, and else from the first instant at which one runs.
OpenIsTheUnion ==
    LET facts == AvailabilityAt(hours, zone, now)
    IN  /\ facts.open = OpenAt(now)
        /\ facts.open => \A t \in now .. facts.closes - 1 : OpenAt(t)
        /\ "opens" \in DOMAIN facts =>
              OpenAt(facts.opens) /\ \A t \in now .. facts.opens - 1 : ~OpenAt(t)

\* The pickup that is offered first is the earliest slot there is, where no date
\* has hours of its own and no wall time is repeated.
NextPickupIsEarliest ==
    hours.exceptions = <<>> /\ zone.before <= zone.after =>
    LET policy == EffectivePolicy(hours)
        slots == {t \in now + policy.lead .. now + MinutesPerDay * (policy.daysAhead + 3) :
                    \E i \in ToSet(ServiceIntervals(hours, zone, now)) :
                       /\ i.opens <= t /\ t <= i.closes - policy.lastOrder
                       /\ (t - i.opens) % policy.step = 0}
    IN  NextPickupAt(hours, zone, now) =
           IF slots = {} \/ ~policy.enabled THEN NoPickup ELSE Min(slots)

\* What is typed, the dates it may stand for, and what the server moves there.
TypedRows == [opens : Minutes, closes : Minutes, nextDay : BOOLEAN]
Coming(weekday) ==
    LET today == LocalDate(zone, now)
    IN  {d \in today .. today + ScanDays - 2 : d % DaysPerWeek = weekday}
Moves(day, minute) ==
    LET instant == WallToInstant(day, minute, zone, "open")
    IN  instant + Offset(zone, instant) # day * MinutesPerDay + minute
Moved(day, row) == {m \in Boundaries(RowToInterval(row)) : Moves(day, m)}

\* The clock is put forward in the small hours of one day. The forms take it that
\* every zone does so, the server does not.
GapIsEarly ==
    zone.before < zone.after =>
    zone.change + zone.after <= ((zone.change + zone.before) \div MinutesPerDay) * MinutesPerDay + SmallHours

\* What the form of a date marks are the boundaries of small hours that the
\* server moves out of a gap there, whatever the zone, and all that it moves if
\* the zone's gap is early; and what would be marked on a date that a row of the
\* schedule stands for, the form of the schedule marks.
RowIsMarked(weekday, row) ==
    \A day \in Coming(weekday) :
        LET marked == RowDateGapWarnings(day, row, zone)
            moved == Moved(day, row)
        IN  /\ marked = {m \in moved : m % MinutesPerDay < SmallHours}
            /\ GapIsEarly => marked = moved
            /\ marked # {} => RowGapWarnings(weekday, row, zone, LocalDate(zone, now)) # {}
GapsAreMarked ==
    \A weekday \in WeekDays : \A row \in TypedRows : RowIsMarked(weekday, row)

=============================================================================
