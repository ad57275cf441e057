-------------------------------- MODULE Diary --------------------------------
(***************************************************************************)
(* A repeating event with nothing edited, looked at one day after another: *)
(* Recurrence says which dates it falls on, WallClock when those are, and  *)
(* internal/events/events.go puts the two together (shift, spanDays,       *)
(* lastDay, overlaps, expandSeries without overrides), as does the planner *)
(* when it dates a reminder. The edits and their overrides are Series's.   *)
(***************************************************************************)
EXTENDS Recurrence, WallClock

CONSTANTS
    Diaries,       \* bound: a rule, without its start, and the zone it is kept in
    Beginnings,    \* bound: days an event is first entered on
    Hours,         \* bound: wall clocks an event starts at, a reminder fires at
    Lengths,       \* bound: how long a timed event lasts, in clock steps
    Spans,         \* bound: days an all-day event covers beyond its first
    MaxLooks,      \* bound: days looked at in a behaviour
    Drags          \* bound: how far an occurrence is dragged, in days

(* A rule's fields as the store reads them, whatever their values; no end  *)
(* farther off than Last's probes reach, 32 days times 4 ^ MaxProbes.      *)
IsPattern(p) ==
    /\ p \in [freq : STRING, interval : Int, weekdays : SUBSET Int, ordinal : Int,
              monthday : Int, lastDay : BOOLEAN, until : Int \X Int \X Int]
    /\ p.until = NoDate \/ IsDate(p.until)
Reached(d, until) == until = NoDate \/ DaysUntil(d, until) <= LastProbeDays * 4 ^ MaxProbes

ASSUME DiaryConstants ==
    /\ \A k \in Diaries : IsPattern(k[1]) /\ IsZone(k[2]) /\ ZoneOK(k[2])
    /\ \A d \in Beginnings : IsDate(d) /\ \A k \in Diaries : Reached(d, k[1].until)
    /\ Hours \subseteq 0 .. PerDay - 1 /\ Lengths \subseteq Nat /\ Spans \subseteq Nat
    /\ Drags \subseteq Int /\ MaxLooks \in Nat \ {0}

VARIABLES
    event,    \* the series' template: [allDay, starts, length, span]
    rule,     \* its recurrence
    zone,     \* the family's
    day,      \* the day looked at
    looks     \* history: how many have been

vars == <<event, rule, zone, day, looks>>

Timed(s, n) == [allDay |-> FALSE, starts |-> s, length |-> n, span |-> 0]
AllDay(n) == [allDay |-> TRUE, starts |-> 0, length |-> 0, span |-> n]

-----------------------------------------------------------------------------
(* events.go *)

LastInstant(s, n) == IF n > 0 THEN s + n - 1 ELSE s
LastDay(o) == DateIn(LastInstant(o.starts, o.length), zone)

SpanDays ==
    IF event.allDay THEN event.span
    ELSE Max0(DaysUntil(DateIn(event.starts, zone), LastDay(event)))

Shift(d) ==
    [starts |-> IF event.allDay THEN 0 ELSE AtTimeOf(d, event.starts, zone),
     length |-> event.length,
     first |-> d, last |-> AddDays(d, event.span)]    \* of an all-day event

FirstDay(o) == IF event.allDay THEN o.first ELSE DateIn(o.starts, zone)
FinalDay(o) == IF event.allDay THEN o.last ELSE LastDay(o)

Overlaps(o, from, to) == ~After(FirstDay(o), to) /\ ~Before(FinalDay(o), from)

Dated(from, to) ==
    LET ds == Expand(rule, from, to) IN {ds[i] : i \in DOMAIN ds}

ExpandTight(from, to) ==    \* mutant: an occurrence the clocks lengthen is missed
    {d \in Dated(AddDays(from, -SpanDays), to) : Overlaps(Shift(d), from, to)}
ExpandSeries(from, to) ==
    {d \in Dated(AddDays(from, -SpanDays - 1), to) : Overlaps(Shift(d), from, to)}

(* planner.go: a reminder some days before, at a clock of its own. *)
ReminderDue(d, n, c) == At(AddDays(FirstDay(Shift(d)), -n), c, zone)

-----------------------------------------------------------------------------
(* An event is entered with an instant the browser's clock shows; its date *)
(* in the family's zone is where the rule starts (validate).               *)
Enter(e, p, z) ==
    /\ event = e /\ zone = z
    /\ rule = [freq |-> p.freq, interval |-> p.interval, weekdays |-> p.weekdays,
               ordinal |-> p.ordinal, monthday |-> p.monthday, lastDay |-> p.lastDay,
               until |-> p.until, dtstart |-> IF e.allDay THEN day ELSE DateIn(e.starts, z)]
    /\ Valid(rule)

Init ==
    /\ day \in Beginnings /\ looks = 1
    /\ \E k \in Diaries :
          \/ \E n \in Spans : Enter(AllDay(n), k[1], k[2])
          \/ \E c \in Hours, n \in Lengths :
                \E t \in {i \in Reads(day, k[2]) : ClockIn(i, k[2]) = c} :
                    Enter(Timed(t, n), k[1], k[2])

Look(d) ==
    /\ looks < MaxLooks
    /\ day' = d /\ looks' = looks + 1
    /\ UNCHANGED <<event, rule, zone>>

Turn == Look(AddDays(day, 1))

(* A search result opens on the next occurrence (resultDates). *)
Jump ==
    /\ NextDate(rule, day) # NoDate
    /\ Look(NextDate(rule, day))

Next == Turn \/ Jump

Spec == Init /\ [][Next]_vars

-----------------------------------------------------------------------------
(* The policy table at the head of recur.go, day by day and from the       *)
(* calendar alone: what the expansion is measured against.                 *)

Week(d) == (DayNumber(d) + 3) \div 7    \* weeks start on Mondays
Months(d) == Year(d) * 12 + Month(d)
EndsMonth(d) == Month(AddDays(d, 1)) # Month(d)
Every(apart) == apart % rule.interval = 0

MonthlyDue(d) ==
    CASE rule.lastDay -> EndsMonth(d)
      [] rule.monthday # Unset -> Day(d) = rule.monthday
      [] rule.ordinal = -1 -> Weekday(d) \in rule.weekdays /\ Month(AddDays(d, 7)) # Month(d)
      [] OTHER -> Weekday(d) \in rule.weekdays /\ (Day(d) + 6) \div 7 = rule.ordinal

YearlyDue(d) ==
    LET birthday == <<Month(rule.dtstart), Day(rule.dtstart)>>
    IN  \/ <<Month(d), Day(d)>> = birthday
        \/ birthday = <<2, 29>> /\ <<Month(d), Day(d)>> = <<2, 28>> /\ EndsMonth(d)

Due(d) ==
    /\ ~Before(d, rule.dtstart)
    /\ rule.until = NoDate \/ ~After(d, rule.until)
    /\ CASE rule.freq = "daily" -> Every(DaysUntil(rule.dtstart, d))
         [] rule.freq = "weekly" ->
                /\ Every(Week(d) - Week(rule.dtstart))
                /\ Weekday(d) \in (IF rule.weekdays = {} THEN {Weekday(rule.dtstart)}
                                   ELSE rule.weekdays)
         [] rule.freq = "monthly" -> Every(Months(d) - Months(rule.dtstart)) /\ MonthlyDue(d)
         [] rule.freq = "yearly" -> Every(Year(d) - Year(rule.dtstart)) /\ YearlyDue(d)

Around(n) == {AddDays(day, k) : k \in 0 .. n}

-----------------------------------------------------------------------------
(* The day looked at is a date of the calendar, those a search jumps to    *)
(* included, and the rule is one the editor accepts.                       *)
TypeOK ==
    /\ IsDate(day) /\ IsDate(rule.dtstart)
    /\ Valid(rule)
    /\ event.allDay \/ DateIn(event.starts, zone) = rule.dtstart
    /\ looks \in 1 .. MaxLooks

(* Expand, jumping straight to the window, yields in ascending order and   *)
(* without repeats the days the policy table names: short months skipped,  *)
(* leap days clamped, weeks counted from the Monday before the start,      *)
(* neither end crossed.                                                    *)
ExpandIsRight ==
    LET ds == Expand(rule, day, AddDays(day, 40))
    IN  /\ \A i \in 1 .. Len(ds) - 1 : Before(ds[i], ds[i + 1])
        /\ Dated(day, AddDays(day, 40)) = {d \in Around(40) : Due(d)}

(* The two searches agree with the table. Next, which stops at the first   *)
(* date yielded, skips no due day, and where it finds none the year ahead  *)
(* has none. Last, probing back from the end, names a due day with none    *)
(* after it, however long the rule skips before its end. (The day looked   *)
(* at does not matter to Last.)                                            *)
NextIsRight ==
    LET next == NextDate(rule, day)
        ahead == IF next = NoDate THEN 366 ELSE DaysUntil(day, next) - 1
    IN  /\ next # NoDate => Due(next) /\ Before(day, next)
        /\ \A k \in 1 .. ahead : ~Due(AddDays(day, k))

LastIsRight ==
    LET last == LastDate(rule)
        from == IF last = NoDate THEN rule.dtstart ELSE AddDays(last, 1)
    IN  /\ last # NoDate => Due(last)
        /\ \A k \in 0 .. DaysUntil(from, rule.until) : ~Due(AddDays(from, k))

SearchIsRight == NextIsRight /\ (looks = 1 /\ rule.until # NoDate => LastIsRight)

(* In is the first instant of its day, whether midnight is skipped or      *)
(* comes twice: the day boundary of the range read and of a summary's      *)
(* count neither drops an hour nor takes one of the day before.            *)
DayStarts ==
    LET reads == Reads(day, zone)
    IN  reads # {} => In(day, zone) \in reads /\ \A t \in reads : In(day, zone) <= t

(* An occurrence of a timed series starts on the day the rule named, at    *)
(* the clock the series keeps wherever that day shows it, on both sides of *)
(* a change; and so does a reminder some days before.                      *)
Keeps(t, reads, c) ==
    t \in reads /\ ((\E i \in reads : ClockIn(i, zone) = c) => ClockIn(t, zone) = c)
ClockIsKept ==
    Happens(day, zone) /\ Due(day) =>
        /\ event.allDay \/ Keeps(Shift(day).starts, Reads(day, zone), ClockIn(event.starts, zone))
        /\ \A n \in {0, 1} :
              LET reads == Reads(AddDays(day, -n), zone)
              IN  reads # {} => \A c \in Hours : Keeps(ReminderDue(day, n, c), reads, c)

(* A day's view shows exactly the due occurrences some part of which the   *)
(* family reads on that day, also where a change of the clocks carries one *)
(* over a midnight its template does not cross. Two exceptions, for timed  *)
(* events. A date the zone deleted has no right answer: date.go says why   *)
(* none is given. And where the clocks go back past a midnight, an         *)
(* occurrence that ends in the stretch read twice ends, for lastDay, on an *)
(* earlier day than it has touched: what is shown of it is still right,    *)
(* but it may be missing.                                                  *)
Readings(d) ==
    LET s == Shift(d).starts
    IN  {DateIn(t, zone) : t \in s .. LastInstant(s, event.length)}
Covers(d) ==
    IF event.allDay THEN {AddDays(d, k) : k \in 0 .. event.span} ELSE Readings(d)
EndsBack(d) == ~event.allDay /\ \E o \in Readings(d) : After(o, LastDay(Shift(d)))
DayViewIsRight ==
    event.allDay \/ Happens(day, zone) =>
        LET shown == {d \in ExpandSeries(day, day) : Happens(d, zone)}
            right == {d \in {AddDays(day, -k) : k \in 0 .. SpanDays + 2} :
                         Happens(d, zone) /\ Due(d) /\ day \in Covers(d)}
        IN  shown \subseteq right /\ {d \in right : ~EndsBack(d)} \subseteq shown

(* An occurrence dragged to another day leaves a rule that is valid and    *)
(* contains that day: a split never loses the occurrence it moved.         *)
DragLands ==
    Due(day) =>
        \A k \in Drags :
            LET to == AddDays(day, k)
            IN  Valid(Moved(rule, day, to)) /\ Occurs(Moved(rule, day, to), to)
=============================================================================
