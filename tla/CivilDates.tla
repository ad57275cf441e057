------------------------------ MODULE CivilDates ------------------------------
(***************************************************************************)
(* internal/domain/date.go: calendar dates, with no time of day and no     *)
(* zone. A date is <<year, month, day>>.                                   *)
(***************************************************************************)
EXTENDS Integers

NoDate == <<0, 0, 0>>    \* the zero Date, a nil *Date, and "not ok"

Year(d) == d[1]
Month(d) == d[2]
Day(d) == d[3]

IsLeap(y) == y % 4 = 0 /\ (y % 100 # 0 \/ y % 400 = 0)

DaysInMonth(y, m) ==
    CASE m = 2                -> IF IsLeap(y) THEN 29 ELSE 28
      [] m \in {4, 6, 9, 11}  -> 30
      [] OTHER                -> 31

IsDate(d) ==
    /\ d \in Int \X (1 .. 12) \X (1 .. 31)
    /\ Day(d) <= DaysInMonth(Year(d), Month(d))

(* daysFromCivil, dayNumber: days since 1970-01-01, the year shifted to    *)
(* start in March so that the leap day is its last.                        *)
DayNumber(d) ==
    LET y   == IF Month(d) <= 2 THEN Year(d) - 1 ELSE Year(d)
        yoe == y % 400
        doy == (153 * ((Month(d) + 9) % 12) + 2) \div 5 + Day(d) - 1
    IN  (y \div 400) * 146097 + yoe * 365 + yoe \div 4 - yoe \div 100 + doy - 719468

(* The date of a day number: what time.Time's AddDate normalises to. *)
Civil(n) ==
    LET doe == (n + 719468) % 146097
        yoe == (doe - doe \div 1460 + doe \div 36524 - doe \div 146096) \div 365
        doy == doe - (365 * yoe + yoe \div 4 - yoe \div 100)
        mp  == (5 * doy + 2) \div 153
        m   == IF mp < 10 THEN mp + 3 ELSE mp - 9
        y   == yoe + ((n + 719468) \div 146097) * 400
    IN  <<IF m <= 2 THEN y + 1 ELSE y, m, doy - (153 * mp + 2) \div 5 + 1>>

AddDays(d, n) == Civil(DayNumber(d) + n)
DaysUntil(d, o) == DayNumber(o) - DayNumber(d)

Before(d, o) ==
    \/ Year(d) < Year(o)
    \/ Year(d) = Year(o) /\ Month(d) < Month(o)
    \/ Year(d) = Year(o) /\ Month(d) = Month(o) /\ Day(d) < Day(o)
After(d, o) == Before(o, d)
Latest(d, o) == IF Before(d, o) THEN o ELSE d
Earliest(d, o) == IF Before(o, d) THEN o ELSE d

Weekday(d) == (DayNumber(d) + 4) % 7    \* 0 is Sunday

(* No normalisation: a day the target month lacks is no date. *)
AddMonths(d, n) ==
    LET total == Month(d) - 1 + n
        y     == Year(d) + total \div 12
        m     == (total % 12) + 1
    IN  IF Day(d) > DaysInMonth(y, m) THEN NoDate ELSE <<y, m, Day(d)>>

LastDayOfMonth(y, m) == <<y, m, DaysInMonth(y, m)>>

(* The nth of a weekday from the front of a month, or from its end. *)
NthWeekdayOfMonth(y, m, wd, n) ==
    LET last == LastDayOfMonth(y, m)
        day  == IF n > 0
                THEN 1 + ((wd - Weekday(<<y, m, 1>>)) % 7) + (n - 1) * 7
                ELSE Day(last) - ((Weekday(last) - wd) % 7) + (n + 1) * 7
    IN  IF n = 0 \/ day \notin 1 .. Day(last) THEN NoDate ELSE <<y, m, day>>
=============================================================================
