------------------------------- MODULE MCDiary -------------------------------
(* Diary on rules of every kind, half-hour clock steps, and the changes of *)
(* the clocks date.go is about.                                            *)
EXTENDS Diary

Rule == [freq |-> "daily", interval |-> 1, weekdays |-> {}, ordinal |-> Unset,
         monthday |-> Unset, lastDay |-> FALSE, until |-> NoDate]
Spring == <<2024, 4, 20>>

MCPatterns == {
    Rule,
    [Rule EXCEPT !.interval = 3, !.until = Spring],
    [Rule EXCEPT !.freq = "weekly"],
    [Rule EXCEPT !.freq = "weekly", !.interval = 2, !.weekdays = {0, 1, 4}],
    [Rule EXCEPT !.freq = "monthly", !.monthday = 31],
    [Rule EXCEPT !.freq = "monthly", !.monthday = 29, !.interval = 12, !.until = <<2031, 3, 1>>],
    [Rule EXCEPT !.freq = "monthly", !.ordinal = 5, !.weekdays = {4, 5}],
    [Rule EXCEPT !.freq = "monthly", !.ordinal = -1, !.weekdays = {0}, !.until = <<2024, 12, 1>>],
    [Rule EXCEPT !.freq = "monthly", !.lastDay = TRUE, !.interval = 2],
    [Rule EXCEPT !.freq = "yearly", !.until = <<2031, 2, 28>>]}

Shown(d, clock, offset) == DayNumber(d) * PerDay + clock - offset    \* the instant

Zone(d, clock, before, after) ==
    [at |-> Shown(d, clock, before), before |-> before, after |-> after]

Leap == <<2024, 2, 29>>
MCZones == {
    Zone(Leap, 4, 2, 4),       \* Paris in spring: 02:00 -> 03:00
    Zone(Leap, 6, 4, 2),       \* Paris in autumn: 03:00 -> 02:00
    Zone(Leap, 4, -10, -8),    \* New York: 02:00 -> 03:00
    Zone(Leap, 0, -8, -6),     \* Santiago: 00:00 -> 01:00
    Zone(Leap, 0, 4, 6),       \* the same, east of Greenwich
    Zone(Leap, 2, -8, -10),    \* Havana: 01:00 -> 00:00
    Zone(Leap, 1, 3, 1),       \* half past midnight -> half past eleven
    Zone(Leap, 46, 2, 4),      \* 23:00 -> 00:00, the day's last hour abolished
    Zone(Leap, 0, -20, 28)}    \* Apia: a date deleted

Everywhere == {Rule, [Rule EXCEPT !.freq = "weekly", !.weekdays = {2, 4, 5}]}
Paris == Zone(Leap, 4, 2, 4)
MCDiaries == (MCPatterns \X {Paris}) \cup (Everywhere \X MCZones)

MCBeginnings == {<<2024, 2, 27>>, Leap}
MCHours == {0, 1, 44}
MCLengths == {0, 3}
MCSpans == {1}
MCDrags == {-30, -7, -1, 1, 2, 5, 31}
=============================================================================
