------------------------------ MODULE Recurrence ------------------------------
(***************************************************************************)
(* internal/recur: the dates a repeat rule falls on, and reanchor          *)
(* (internal/events/edit.go), which moves a rule's selectors with an       *)
(* occurrence the user drags.                                              *)
(*                                                                         *)
(* A rule is [freq, interval, dtstart, until, weekdays, ordinal, monthday, *)
(* lastDay]; until NoDate runs for ever, an empty set of weekdays and      *)
(* Unset stand for fields that are not there.                              *)
(***************************************************************************)
EXTENDS CivilDates, FiniteSets, SequencesExt

CONSTANTS
    SearchHorizonYears,    \* how far Next looks for a rule without an end
    LastProbeDays          \* how far back Last looks first

ASSUME RecurrenceConstants == SearchHorizonYears \in Nat \ {0} /\ LastProbeDays \in Nat \ {0}

Unset == 99    \* a nil *int: no ordinal and no day of a month is that large

Max0(n) == IF n > 0 THEN n ELSE 0
CeilDiv(a, b) == (a + b - 1) \div b

-----------------------------------------------------------------------------
(* validate.go *)

ValidMonthly(r) ==
    /\ (r.ordinal # Unset) <=> (r.weekdays # {})
    /\ Cardinality({mode \in {"monthday", "ordinal", "lastDay"} :
                       \/ mode = "monthday" /\ r.monthday # Unset
                       \/ mode = "ordinal" /\ r.ordinal # Unset
                       \/ mode = "lastDay" /\ r.lastDay}) = 1
    /\ r.monthday \in (1 .. 31) \cup {Unset}
    /\ r.ordinal \in (1 .. 5) \cup {-1, Unset}

Valid(r) ==
    /\ r.freq \in {"daily", "weekly", "monthly", "yearly"}
    /\ r.interval >= 1
    /\ r.dtstart # NoDate
    /\ r.weekdays \subseteq 0 .. 6
    /\ r.until = NoDate \/ ~Before(r.until, r.dtstart)
    /\ r.freq = "monthly" => ValidMonthly(r)

-----------------------------------------------------------------------------
(* Periods: the days, weeks, months or years, an interval apart, that a    *)
(* rule is expanded over. Period 0 holds dtstart.                          *)

MondayOffset(wd) == (wd + 6) % 7
MondayOf(d) == AddDays(d, -MondayOffset(Weekday(d)))

WeeklyOffsets(r) == {MondayOffset(wd) :
    wd \in IF r.weekdays = {} THEN {Weekday(r.dtstart)} ELSE r.weekdays}

ShiftMonth(d, n) == AddMonths(<<Year(d), Month(d), 1>>, n)

YearlyUnclamped(y, m, day) == <<y, m, day>>    \* mutant: 29 February of a common year
YearlyDate(y, m, day) ==
    IF day > DaysInMonth(y, m) THEN LastDayOfMonth(y, m) ELSE <<y, m, day>>

MonthDates(r, y, m) ==
    IF r.lastDay THEN {LastDayOfMonth(y, m)}
    ELSE IF r.monthday # Unset
    THEN {<<y, m, d>> : d \in {r.monthday} \cap 1 .. DaysInMonth(y, m)}
    ELSE {NthWeekdayOfMonth(y, m, wd, r.ordinal) : wd \in r.weekdays} \ {NoDate}

InPeriod(r, n) ==
    LET k == n * r.interval
        first == ShiftMonth(r.dtstart, k)
    IN  CASE r.freq = "daily"   -> {AddDays(r.dtstart, k)}
          [] r.freq = "weekly"  -> {AddDays(MondayOf(r.dtstart), 7 * k + o) : o \in WeeklyOffsets(r)}
          [] r.freq = "monthly" -> MonthDates(r, Year(first), Month(first))
          [] r.freq = "yearly"  -> {YearlyDate(Year(r.dtstart) + k, Month(r.dtstart), Day(r.dtstart))}

(* The first period that can reach lo. *)
SkipFromStart(r, lo) ==    \* mutant: weeks counted from dtstart, not from its Monday
    LET gap == CASE r.freq = "daily"   -> DaysUntil(r.dtstart, lo)
                 [] r.freq = "weekly"  -> DaysUntil(r.dtstart, lo) \div 7 + 1
                 [] r.freq = "monthly" -> (Year(lo) - Year(r.dtstart)) * 12 + Month(lo) - Month(r.dtstart)
                 [] r.freq = "yearly"  -> Year(lo) - Year(r.dtstart)
    IN  CeilDiv(Max0(gap), r.interval)
Skip(r, lo) ==
    LET gap == CASE r.freq = "daily"   -> DaysUntil(r.dtstart, lo)
                 [] r.freq = "weekly"  -> DaysUntil(MondayOf(r.dtstart), MondayOf(lo)) \div 7
                 [] r.freq = "monthly" -> (Year(lo) - Year(r.dtstart)) * 12 + Month(lo) - Month(r.dtstart)
                 [] r.freq = "yearly"  -> Year(lo) - Year(r.dtstart)
    IN  CeilDiv(Max0(gap), r.interval)

(* The periods each walks from lo to hi: those after them start past hi. *)
PeriodDays(r) ==
    r.interval * CASE r.freq = "daily" -> 1 [] r.freq = "weekly" -> 7
                   [] r.freq = "monthly" -> 28 [] r.freq = "yearly" -> 365
Periods(r, lo, hi) == Skip(r, lo) .. Skip(r, lo) + Max0(DaysUntil(lo, hi)) \div PeriodDays(r) + 2

(* What a period yields, in the order it is yielded; eachDaily relies on   *)
(* its skip alone not to start too early.                                  *)
InOrder(ds) ==
    CHOOSE s \in [1 .. Cardinality(ds) -> ds] : \A i, j \in DOMAIN s : i < j => Before(s[i], s[j])
Within(r, n, lo, hi) ==
    {d \in InPeriod(r, n) : (r.freq = "daily" \/ ~Before(d, lo)) /\ ~After(d, hi)}
Yielded(r, n, lo, hi) == InOrder(Within(r, n, lo, hi))
Each(r, lo, hi) ==
    LET first == Skip(r, lo)
    IN  FlattenSeq([i \in 1 .. Cardinality(Periods(r, lo, hi)) |->
                       Yielded(r, first + i - 1, lo, hi)])

(* The first date yielded, where the callback stops there; NoDate for none. *)
FirstOf(r, lo, hi) ==
    LET ps == Periods(r, lo, hi)
        Hit(n) == Yielded(r, n, lo, hi) # <<>>
    IN  IF \E n \in ps : Hit(n)
        THEN Yielded(r, CHOOSE n \in ps : Hit(n) /\ \A m \in Skip(r, lo) .. n - 1 : ~Hit(m), lo, hi)[1]
        ELSE NoDate

-----------------------------------------------------------------------------
(* recur.go: what other packages ask. *)

Lo(r, from) == Latest(from, r.dtstart)
Hi(r, to) == IF r.until = NoDate THEN to ELSE Earliest(r.until, to)
Window(r, from, to) == Valid(r) /\ ~After(Lo(r, from), Hi(r, to))

Expand(r, from, to) ==
    IF Window(r, from, to) THEN Each(r, Lo(r, from), Hi(r, to)) ELSE <<>>

Occurs(r, d) == Window(r, d, d) /\ FirstOf(r, d, d) # NoDate

NextDateFrom(r, after) ==    \* mutant: not strictly after
    LET from == Latest(after, r.dtstart)
        to   == <<Year(from) + SearchHorizonYears, 12, 31>>
    IN  IF Window(r, from, to) THEN FirstOf(r, Lo(r, from), Hi(r, to)) ELSE NoDate
NextDate(r, after) ==
    LET from == Latest(AddDays(after, 1), r.dtstart)
        to   == <<Year(from) + SearchHorizonYears, 12, 31>>
    IN  IF Window(r, from, to) THEN FirstOf(r, Lo(r, from), Hi(r, to)) ELSE NoDate

(* Last probes back from the end, each time four times further, and takes  *)
(* the last date of the first probe that yields one.                       *)
MaxProbes == 10    \* bound: 4^10 probes of a month, every span of the runs

ProbeStartOnce(r) == {Latest(AddDays(r.until, -LastProbeDays), r.dtstart)}    \* mutant
ProbeStarts(r) ==
    {Latest(AddDays(r.until, -LastProbeDays * 4 ^ k), r.dtstart) : k \in 0 .. MaxProbes}
Shortest(seqs) == CHOOSE p \in seqs : \A q \in seqs : Len(p) <= Len(q)
EndOf(seqs) == IF seqs = {} THEN NoDate ELSE Shortest(seqs)[Len(Shortest(seqs))]

LastDate(r) ==
    IF r.until = NoDate \/ ~Valid(r) THEN NoDate
    ELSE EndOf({Each(r, lo, r.until) : lo \in ProbeStarts(r)} \ {<<>>})

-----------------------------------------------------------------------------
(* internal/events/edit.go *)

ReanchorSameOrdinal(r, from, to) ==    \* mutant: the weekday moves, the week does not
    CASE r.freq = "weekly" ->
            [r EXCEPT !.weekdays = {(wd + Weekday(to) - Weekday(from)) % 7 : wd \in @}]
      [] r.freq = "monthly" /\ r.monthday # Unset -> [r EXCEPT !.monthday = Day(to)]
      [] r.freq = "monthly" /\ r.ordinal # Unset -> [r EXCEPT !.weekdays = {Weekday(to)}]
      [] OTHER -> r
Reanchor(r, from, to) ==
    CASE r.freq = "weekly" ->
            [r EXCEPT !.weekdays = {(wd + Weekday(to) - Weekday(from)) % 7 : wd \in @}]
      [] r.freq = "monthly" /\ from # to /\ r.monthday # Unset ->
            [r EXCEPT !.monthday = Day(to)]
      [] r.freq = "monthly" /\ from # to /\ r.ordinal # Unset ->
            [r EXCEPT !.ordinal = (Day(to) - 1) \div 7 + 1, !.weekdays = {Weekday(to)}]
      [] r.freq = "monthly" /\ from # to /\ r.lastDay
           /\ to # LastDayOfMonth(Year(to), Month(to)) ->
            [r EXCEPT !.lastDay = FALSE, !.monthday = Day(to)]
      [] OTHER -> r

(* The rule of the second half of a series split at from, and moved to to. *)
Moved(r, from, to) ==
    Reanchor([r EXCEPT !.dtstart = to,
                       !.until = IF @ # NoDate /\ Before(@, to) THEN to ELSE @], from, to)
=============================================================================
