------------------------------- MODULE WallClock -------------------------------
(***************************************************************************)
(* The second half of internal/domain/date.go: what a date and a wall      *)
(* clock mean in the family's zone. Instants count clock steps (half hours *)
(* in the runs) from 1970-01-01 in UTC.                                    *)
(*                                                                         *)
(* A zone is one change of the clocks, [at, before, after]: the instant it *)
(* happens and the offsets either side. Nothing the code does looks past   *)
(* the change nearest to the date it converts.                             *)
(***************************************************************************)
EXTENDS CivilDates

CONSTANT PerDay    \* clock steps in a day of no change

ASSUME WallClockConstants == PerDay \in Nat \ {0}

(* The zones date.go speaks of: offsets and changes of at most a day, and  *)
(* clocks put forward by at most half of one (seven hours in the database) *)
(* without passing a midnight, unless a whole date is deleted.             *)
IsZone(z) ==
    /\ z.at \in Int
    /\ z.before \in -PerDay .. PerDay /\ z.after \in -PerDay .. PerDay
    /\ z.after - z.before \in -PerDay .. PerDay
ZoneOK(z) ==
    LET skipped == z.after - z.before
    IN  \/ /\ 2 * skipped <= PerDay
           /\ z.at + z.after <= ((z.at + z.before) \div PerDay + 1) * PerDay
        \/ skipped = PerDay /\ (z.at + z.before) % PerDay = 0

Offset(z, t) == IF t < z.at THEN z.before ELSE z.after

DateIn(t, z) == Civil((t + Offset(z, t)) \div PerDay)
ClockIn(t, z) == (t + Offset(z, t)) % PerDay

(* time.Date: read the fields as UTC, take the offset in force there, and  *)
(* correct it once if it is not the one in force at the result.            *)
TimeDate(d, c, z) ==
    LET u     == DayNumber(d) * PerDay + c
        first == u - Offset(z, u)
    IN  IF Offset(z, first) = Offset(z, u) THEN first ELSE u - Offset(z, first)

(* Date.at: where that answer leaves the date behind, the reading under    *)
(* the offset of the other side of the change.                             *)
AtFirstReading(d, c, z) == TimeDate(d, c, z)    \* mutant
At(d, c, z) ==
    LET t   == TimeDate(d, c, z)
        alt == DayNumber(d) * PerDay + c - Offset(z, t)
    IN  IF DateIn(t, z) # d /\ DateIn(alt, z) = d THEN alt ELSE t

(* Date.In: of a midnight that comes twice, the first. Before the change   *)
(* ZoneBounds has no start to look behind.                                 *)
InSecondMidnight(d, z) == At(d, 0, z)    \* mutant
In(d, z) ==
    LET t   == At(d, 0, z)
        alt == DayNumber(d) * PerDay - z.before
    IN  IF t >= z.at /\ alt < t /\ DateIn(alt, z) = d THEN alt ELSE t

AtTimeOf(d, t, z) == At(d, ClockIn(t, z), z)

(* For the properties: the instants a family reads as one day. *)
Reads(d, z) ==
    {t \in (DayNumber(d) - 1) * PerDay .. (DayNumber(d) + 2) * PerDay : DateIn(t, z) = d}
Happens(d, z) == Reads(d, z) # {}
=============================================================================
