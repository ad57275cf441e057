----------------------------- MODULE DiaryProofs -----------------------------
(***************************************************************************)
(* The arithmetic of dates, clocks and repeat rules, for every date, every *)
(* zone with one change of the clocks of the kind ZoneOK names, every      *)
(* valid rule and every event: DayNumber and Civil are inverse, At and In  *)
(* keep to their day, Expand, Next and Last agree with the policy table at *)
(* the head of recur.go, a dragged occurrence stays in its series, and a   *)
(* day's view shows what touches the day.                                  *)
(***************************************************************************)
EXTENDS Diary, FiniteSetTheorems, TLAPS

-----------------------------------------------------------------------------
(* Civil dates: DayNumber and Civil are inverse, and Before is the order   *)
(* of the numbers. Years are counted from March, so that the leap day is   *)
(* the last; a cycle is the 400 years after which the calendar repeats.    *)

(* Day doy of year yoe of a cycle, both from 0; the last in leap years.    *)
YearDay(yoe, doy) ==
    /\ yoe \in 0 .. 399 /\ doy \in 0 .. 365
    /\ doy = 365 => (yoe + 1) % 4 = 0 /\ ((yoe + 1) % 100 # 0 \/ yoe = 399)
Cycle == 146097    \* the days of four centuries
(* The day of the cycle, and Civil's way back to the year.                 *)
Doe(yoe, doy) == yoe * 365 + yoe \div 4 - yoe \div 100 + doy
Yoe(doe) == (doe - doe \div 1460 + doe \div 36524 - doe \div 146096) \div 365

(* Every day of a cycle is a day of one of its years.                      *)
LEMMA DoeReaches ==
    ASSUME NEW doe \in Nat, doe < Cycle
    PROVE  \E yoe, doy : YearDay(yoe, doy) /\ doe = Doe(yoe, doy)
<1>1. PICK c \in Int : c = IF doe = 146096 THEN 3 ELSE doe \div 36524
  BY SMT DEF Cycle
<1>2. PICK e \in Int : e = doe - 36524 * c
  BY SMT
<1>3. c \in 0 .. 3 /\ 0 <= e /\ e <= 36524 /\ (e = 36524 => c = 3)
  BY <1>1, <1>2, SMT DEF Cycle
<1>4. PICK q \in Int : q = e \div 1461
  BY SMT
<1>5. PICK f \in Int : f = e - 1461 * q
  BY SMT
<1>6. q \in 0 .. 24 /\ f \in 0 .. 1460 /\ (q = 24 /\ f = 1460 => e = 36524)
  BY <1>3, <1>4, <1>5, SMT
<1>7. PICK r \in Int : r = IF f = 1460 THEN 3 ELSE f \div 365
  BY SMT
<1>8. PICK g \in Int : g = f - 365 * r
  BY SMT
<1>9. r \in 0 .. 3 /\ g \in 0 .. 365 /\ (g = 365 => r = 3 /\ f = 1460)
  BY <1>6, <1>7, <1>8, SMT
<1>10. PICK y \in Int : y = 100 * c + 4 * q + r
  BY SMT
<1>11. y \in 0 .. 399 /\ y \div 4 = 25 * c + q /\ y \div 100 = c
  BY <1>3, <1>6, <1>9, <1>10, SMT
<1>12. doe = Doe(y, g)
  BY <1>2, <1>5, <1>8, <1>10, <1>11, SMT DEF Doe
<1>13. g = 365 => (y + 1) % 4 = 0 /\ ((y + 1) % 100 # 0 \/ y = 399)
  BY <1>3, <1>6, <1>9, <1>10, SMT
<1>14. YearDay(y, g)
  BY <1>9, <1>11, <1>13, SMT DEF YearDay
<1> QED BY <1>12, <1>14, Zenon

(* The division by years of 365.2425 days finds that year again.           *)
LEMMA YoeOfDoe ==
    ASSUME NEW yoe, NEW doy, YearDay(yoe, doy)
    PROVE  /\ Doe(yoe, doy) \in Nat /\ Doe(yoe, doy) < Cycle
           /\ Yoe(Doe(yoe, doy)) = yoe
<1>1. yoe \in 0 .. 399 /\ doy \in 0 .. 365
  BY SMT DEF YearDay
<1>2. PICK doe \in Int : doe = yoe * 365 + yoe \div 4 - yoe \div 100 + doy
  BY <1>1, SMT
<1>3. doe = Doe(yoe, doy)
  BY <1>2, SMT DEF Doe
<1>4. 0 <= doe /\ doe < Cycle
  BY <1>2, SMT DEF YearDay, Cycle
<1>5. ASSUME doy \in 0 .. 364 PROVE (doe - doe \div 1460 + doe \div 36524 - doe \div 146096) \div 365 = yoe
  BY <1>1, <1>2, <1>5, SMTT(100)
<1>6. ASSUME doy = 365, (yoe + 1) % 4 = 0, (yoe + 1) % 100 # 0 \/ yoe = 399
      PROVE  (doe - doe \div 1460 + doe \div 36524 - doe \div 146096) \div 365 = yoe
  BY <1>1, <1>2, <1>6, SMTT(100)
<1>7. Yoe(doe) = yoe
  BY <1>5, <1>6, SMT DEF Yoe, YearDay
<1> QED BY <1>3, <1>4, <1>7, SMT

(* The date and the number of a day of a cycle.                            *)
CivilOf(era, yoe, doy) ==
    LET mp == (5 * doy + 2) \div 153
        m == IF mp < 10 THEN mp + 3 ELSE mp - 9
        y == yoe + era * 400
    IN  <<IF m <= 2 THEN y + 1 ELSE y, m, doy - (153 * mp + 2) \div 5 + 1>>

NumberOf(era, yoe, doy) ==
    era * 146097 + Doe(yoe, doy) - 719468

(* Civil undoes NumberOf ...                                               *)
LEMMA CivilIs ==
    ASSUME NEW era \in Int, NEW yoe, NEW doy, YearDay(yoe, doy)
    PROVE  Civil(NumberOf(era, yoe, doy)) = CivilOf(era, yoe, doy)
<1>1. PICK doe : doe = Doe(yoe, doy)
  OBVIOUS
<1>2. doe \in Nat /\ doe < Cycle /\ Yoe(doe) = yoe
  BY <1>1, YoeOfDoe, SMT
<1>3. PICK n \in Int : n = era * 146097 + doe - 719468
  BY <1>2, SMT
<1>4. (n + 719468) % 146097 = doe /\ (n + 719468) \div 146097 = era
  BY <1>2, <1>3, SMT DEF Cycle
<1>5. doe - (365 * yoe + yoe \div 4 - yoe \div 100) = doy
  BY <1>1, SMT DEF Doe, YearDay
<1>6. (doe - doe \div 1460 + doe \div 36524 - doe \div 146096) \div 365 = yoe
  BY <1>2, SMT DEF Yoe
<1>7. Civil(n) = CivilOf((n + 719468) \div 146097, Yoe((n + 719468) % 146097),
                         ((n + 719468) % 146097)
                             - (365 * Yoe((n + 719468) % 146097) + Yoe((n + 719468) % 146097) \div 4
                                    - Yoe((n + 719468) % 146097) \div 100))
  BY SMT DEF Civil, CivilOf, Yoe
<1>8. Civil(n) = CivilOf(era, yoe, doy)
  BY <1>2, <1>4, <1>5, <1>7, SMT
<1>9. n = NumberOf(era, yoe, doy)
  BY <1>1, <1>3, SMT DEF NumberOf
<1> QED BY <1>8, <1>9, SMT

(* ... and every date is what CivilOf makes of a year and a day.           *)
LEMMA NumberIs ==
    ASSUME NEW d, IsDate(d)
    PROVE  \E era \in Int : \E yoe, doy :
              /\ YearDay(yoe, doy)
              /\ d = CivilOf(era, yoe, doy)
              /\ DayNumber(d) = NumberOf(era, yoe, doy)
<1>1. /\ d = <<Year(d), Month(d), Day(d)>>
      /\ Year(d) \in Int /\ Month(d) \in 1 .. 12 /\ Day(d) \in 1 .. 31
      /\ Day(d) <= DaysInMonth(Year(d), Month(d))
  BY SMT DEF IsDate, Year, Month, Day
<1>2. PICK y \in Int : y = IF Month(d) <= 2 THEN Year(d) - 1 ELSE Year(d)
  BY <1>1, SMT
<1>3. PICK era \in Int, yoe \in Int : era = y \div 400 /\ yoe = y % 400
  BY SMT
<1>4. y = 400 * era + yoe /\ yoe \in 0 .. 399
  BY <1>3, SMT
<1>5. PICK mp \in 0 .. 11 : mp = (Month(d) + 9) % 12
  BY <1>1, SMT
<1>6. PICK doy \in Int : doy = (153 * mp + 2) \div 5 + Day(d) - 1
  BY <1>1, SMT
<1>7. doy \in 0 .. 365
  BY <1>1, <1>5, <1>6, SMT DEF DaysInMonth
<1>8. ASSUME doy = 365 PROVE Month(d) = 2 /\ Day(d) = 29
  BY <1>1, <1>5, <1>6, <1>8, SMT DEF DaysInMonth
<1>9. doy = 365 => IsLeap(Year(d)) /\ Year(d) = 400 * era + yoe + 1
  BY <1>1, <1>2, <1>3, <1>4, <1>8, SMT DEF DaysInMonth
<1>10. ASSUME NEW z \in Int, z = 400 * era + yoe + 1, IsLeap(z)
       PROVE  (yoe + 1) % 4 = 0 /\ ((yoe + 1) % 100 # 0 \/ yoe = 399)
  BY <1>4, <1>10, SMT DEF IsLeap
<1>11. doy = 365 => (yoe + 1) % 4 = 0 /\ ((yoe + 1) % 100 # 0 \/ yoe = 399)
  BY <1>1, <1>9, <1>10, SMT
<1>12. YearDay(yoe, doy)
  BY <1>4, <1>7, <1>11, SMT DEF YearDay
<1>13. (5 * doy + 2) \div 153 = mp
  BY <1>1, <1>5, <1>6, SMT DEF DaysInMonth
<1>14. Month(d) = IF mp < 10 THEN mp + 3 ELSE mp - 9
  BY <1>1, <1>5, SMT
<1>15. Year(d) = IF Month(d) <= 2 THEN yoe + era * 400 + 1 ELSE yoe + era * 400
  BY <1>1, <1>2, <1>4, SMT
<1>16. Day(d) = doy - (153 * mp + 2) \div 5 + 1
  BY <1>1, <1>5, <1>6, SMT
<1>17. CivilOf(era, yoe, doy) = <<Year(d), Month(d), Day(d)>>
  BY <1>13, <1>14, <1>15, <1>16, SMT DEF CivilOf
<1>18. DayNumber(d) = NumberOf(era, yoe, doy)
  BY <1>1, <1>2, <1>3, <1>4, <1>5, <1>6, SMT DEF DayNumber, NumberOf, Doe
<1> QED BY <1>1, <1>12, <1>17, <1>18, Zenon

(* CivilOf makes dates of the calendar, with the number they should have.  *)
LEMMA CivilOfIsDate ==
    ASSUME NEW era \in Int, NEW yoe, NEW doy, YearDay(yoe, doy)
    PROVE  IsDate(CivilOf(era, yoe, doy)) /\ DayNumber(CivilOf(era, yoe, doy)) = NumberOf(era, yoe, doy)
<1>1. PICK mp \in Int : mp = (5 * doy + 2) \div 153
  BY SMT DEF YearDay
<1>2. PICK m \in Int : m = IF mp < 10 THEN mp + 3 ELSE mp - 9
  BY SMT DEF YearDay
<1>3. PICK k \in Int : k = doy - (153 * mp + 2) \div 5 + 1
  BY SMT DEF YearDay
<1>4. PICK y \in Int : y = IF m <= 2 THEN yoe + era * 400 + 1 ELSE yoe + era * 400
  BY SMT DEF YearDay
<1>5. CivilOf(era, yoe, doy) = <<y, m, k>>
  BY <1>1, <1>2, <1>3, <1>4, SMT DEF CivilOf
<1>6. mp \in 0 .. 11 /\ m \in 1 .. 12 /\ k \in 1 .. 31 /\ (m + 9) % 12 = mp
  BY <1>1, <1>2, <1>3, SMT DEF YearDay
<1>7. mp \in {0, 2, 4, 5, 7, 9, 10, 11} \/ k <= 30
  BY <1>1, <1>3, SMT DEF YearDay
<1>8. m # 2 => k <= DaysInMonth(y, m)
  BY <1>2, <1>6, <1>7, SMT DEF DaysInMonth
<1>9. m = 2 /\ doy # 365 => k <= 28
  BY <1>1, <1>2, <1>3, <1>6, SMT DEF YearDay
<1>10. m = 2 => k <= 29
  BY <1>1, <1>2, <1>3, <1>6, SMT DEF YearDay
<1>11. m = 2 /\ doy = 365 => IsLeap(y)
  BY <1>4, SMT DEF YearDay, IsLeap
<1>12. k <= DaysInMonth(y, m)
  BY <1>4, <1>6, <1>8, <1>9, <1>10, <1>11, SMT DEF DaysInMonth
<1>13. IsDate(<<y, m, k>>)
  BY <1>4, <1>6, <1>12, SMT DEF IsDate, Year, Month, Day
<1>14. PICK x \in Int : x = yoe + era * 400
  BY SMT DEF YearDay
<1>15. x \div 400 = era /\ x % 400 = yoe
  BY <1>14, SMT DEF YearDay
<1>16. x = IF m <= 2 THEN y - 1 ELSE y
  BY <1>4, <1>14, SMT DEF YearDay
<1>17. (153 * ((m + 9) % 12) + 2) \div 5 + k - 1 = doy
  BY <1>3, <1>6, SMT DEF YearDay
<1>18. PICK d : d = <<y, m, k>>
  OBVIOUS
<1>19. Year(d) = y /\ Month(d) = m /\ Day(d) = k
  BY <1>18, SMT DEF Year, Month, Day
<1>20. DayNumber(d) = NumberOf(era, yoe, doy)
  BY <1>4, <1>6, <1>15, <1>16, <1>17, <1>19, SMT DEF DayNumber, NumberOf, Doe, YearDay
<1> QED BY <1>5, <1>13, <1>18, <1>20, Zenon

(* DayNumber and Civil are inverse to each other: of dates ...             *)
THEOREM DateOfNumber ==
    ASSUME NEW d, IsDate(d)
    PROVE  DayNumber(d) \in Int /\ Civil(DayNumber(d)) = d
<1>1. PICK era \in Int : \E yoe, doy :
         YearDay(yoe, doy) /\ d = CivilOf(era, yoe, doy) /\ DayNumber(d) = NumberOf(era, yoe, doy)
  BY NumberIs, Zenon
<1>2. PICK yoe, doy :
         YearDay(yoe, doy) /\ d = CivilOf(era, yoe, doy) /\ DayNumber(d) = NumberOf(era, yoe, doy)
  BY <1>1, Zenon
<1>3. Doe(yoe, doy) \in Nat
  BY <1>2, YoeOfDoe, SMT
<1>4. NumberOf(era, yoe, doy) \in Int
  BY <1>3, SMT DEF NumberOf
<1>5. Civil(NumberOf(era, yoe, doy)) = CivilOf(era, yoe, doy)
  BY <1>2, CivilIs, Zenon
<1> QED BY <1>2, <1>4, <1>5, Zenon

(* ... and of numbers.                                                     *)
LEMMA NumberOfDate ==
    ASSUME NEW n \in Int
    PROVE  IsDate(Civil(n)) /\ DayNumber(Civil(n)) = n
<1>1. PICK era \in Int : era = (n + 719468) \div 146097
  BY SMT
<1>2. PICK doe \in Int : doe = n + 719468 - 146097 * era
  BY SMT
<1>3. doe \in Nat /\ doe < Cycle
  BY <1>1, <1>2, SMT DEF Cycle
<1>4. PICK yoe, doy : YearDay(yoe, doy) /\ doe = Doe(yoe, doy)
  BY <1>3, DoeReaches, SMT
<1>5. doe = Doe(yoe, doy) => n = NumberOf(era, yoe, doy)
  BY <1>2, SMT DEF NumberOf
<1>6. n = NumberOf(era, yoe, doy)
  BY <1>4, <1>5, Zenon
<1>7. Civil(n) = CivilOf(era, yoe, doy)
  BY <1>4, <1>6, CivilIs, Zenon
<1> QED BY <1>4, <1>6, <1>7, CivilOfIsDate, Zenon

(* The fields of a date.                                                   *)
LEMMA Parts ==
    ASSUME NEW d, IsDate(d)
    PROVE  /\ d = <<Year(d), Month(d), Day(d)>>
           /\ Year(d) \in Int /\ Month(d) \in 1 .. 12 /\ Day(d) \in 1 .. 31
           /\ Day(d) <= DaysInMonth(Year(d), Month(d))
           /\ d # NoDate
BY SMT DEF IsDate, Year, Month, Day, NoDate

LEMMA Made ==
    ASSUME NEW y \in Int, NEW m \in 1 .. 12, NEW k \in 1 .. 31, k <= DaysInMonth(y, m)
    PROVE  /\ IsDate(<<y, m, k>>)
           /\ Year(<<y, m, k>>) = y /\ Month(<<y, m, k>>) = m /\ Day(<<y, m, k>>) = k
BY SMT DEF IsDate, Year, Month, Day

(* Every month has 28 to 31 days.                                          *)
LEMMA MonthLengths ==
    ASSUME NEW y \in Int, NEW m \in 1 .. 12
    PROVE  DaysInMonth(y, m) \in 28 .. 31
BY SMT DEF DaysInMonth

(* Days before a year counted from March, and before a month of it. *)
YearStart(y) == 365 * y + y \div 4 - y \div 100 + y \div 400
MarchYear(d) == IF Month(d) <= 2 THEN Year(d) - 1 ELSE Year(d)
MonthOfYear(d) == (Month(d) + 9) % 12
MonthStart(mp) == (153 * mp + 2) \div 5

(* The number of a date without the centuries: years, months, days.        *)
LEMMA NumberFlat ==
    ASSUME NEW d, IsDate(d)
    PROVE  /\ DayNumber(d) = YearStart(MarchYear(d)) + MonthStart(MonthOfYear(d)) + Day(d) - 719469
           /\ MarchYear(d) \in Int /\ MonthOfYear(d) \in 0 .. 11
<1>1. MarchYear(d) \in Int /\ MonthOfYear(d) \in 0 .. 11
  BY Parts, SMT DEF MarchYear, MonthOfYear
<1>2. PICK y \in Int : y = MarchYear(d)
  BY <1>1, SMT
<1>3. (y \div 400) * 146097 + (y % 400) * 365 + (y % 400) \div 4 - (y % 400) \div 100 = YearStart(y)
  BY SMT DEF YearStart
<1>4. DayNumber(d) = (y \div 400) * 146097 + (y % 400) * 365 + (y % 400) \div 4 - (y % 400) \div 100
                         + (MonthStart(MonthOfYear(d)) + Day(d) - 1) - 719468
  BY <1>2, SMT DEF DayNumber, MarchYear, MonthStart, MonthOfYear
<1>5. MonthStart(MonthOfYear(d)) \in Int
  BY <1>1, SMT DEF MonthStart
<1>6. YearStart(y) \in Int
  BY SMT DEF YearStart
<1> QED BY <1>1, <1>2, <1>3, <1>4, <1>5, <1>6, Parts, SMT

(* Years have at least 365 days, those across a leap day one more.         *)
LEMMA YearsApart ==
    ASSUME NEW x \in Int, NEW y \in Int, x < y
    PROVE  /\ YearStart(x) \in Int /\ YearStart(y) \in Int
           /\ YearStart(y) - YearStart(x) >= 365 * (y - x)
           /\ IsLeap(x + 1) => YearStart(y) - YearStart(x) >= 365 * (y - x) + 1
<1>1. YearStart(x) \in Int /\ YearStart(y) \in Int
  BY SMT DEF YearStart
<1>2. YearStart(y) - YearStart(x) >= 365 * (y - x)
  BY SMT DEF YearStart
<1>3. YearStart(x + 1) - YearStart(x) = 365 + (IF IsLeap(x + 1) THEN 1 ELSE 0)
  BY SMT DEF YearStart, IsLeap
<1>4. y = x + 1 \/ x + 1 < y
  BY SMT
<1>5. x + 1 < y => YearStart(y) - YearStart(x + 1) >= 365 * (y - x - 1)
  BY SMT DEF YearStart
<1>6. YearStart(x + 1) \in Int
  BY SMT DEF YearStart
<1> QED BY <1>1, <1>2, <1>3, <1>4, <1>5, <1>6, SMT

(* Comparing dates field by field compares their numbers.                  *)
LEMMA BeforeOnly ==
    ASSUME NEW d, IsDate(d), NEW o, IsDate(o), Before(d, o)
    PROVE  DayNumber(d) < DayNumber(o)
<1> DEFINE a == MonthStart(MonthOfYear(d)) + Day(d)
           b == MonthStart(MonthOfYear(o)) + Day(o)
<1>1. a \in 1 .. 366 /\ b \in 1 .. 366
  BY Parts, SMT DEF MonthStart, MonthOfYear, DaysInMonth
<1>2. a = 366 => IsLeap(MarchYear(d) + 1)
  BY Parts, SMT DEF MonthStart, MonthOfYear, DaysInMonth, MarchYear
<1>3. MarchYear(d) < MarchYear(o) \/ (MarchYear(d) = MarchYear(o) /\ a < b)
  <2>1. CASE Year(d) < Year(o)
    BY <2>1, Parts, SMTT(60) DEF MonthStart, MonthOfYear, MarchYear, DaysInMonth
  <2>2. CASE Year(d) = Year(o) /\ Month(d) < Month(o)
    BY <2>2, Parts, SMTT(60) DEF MonthStart, MonthOfYear, MarchYear, DaysInMonth
  <2>3. CASE Year(d) = Year(o) /\ Month(d) = Month(o) /\ Day(d) < Day(o)
    <3>1. MarchYear(d) = MarchYear(o) /\ MonthOfYear(d) = MonthOfYear(o)
      BY <2>3 DEF MonthOfYear, MarchYear
    <3>2. MonthStart(MonthOfYear(d)) \in Int
      BY Parts, SMT DEF MonthStart, MonthOfYear
    <3> QED BY <2>3, <3>1, <3>2, Parts, SMT
  <2> QED BY <2>1, <2>2, <2>3 DEF Before
<1>4. DayNumber(d) = YearStart(MarchYear(d)) + a - 719469
  <2>1. MonthStart(MonthOfYear(d)) \in Int
    BY Parts, SMT DEF MonthStart, MonthOfYear
  <2>2. YearStart(MarchYear(d)) \in Int
    BY NumberFlat, SMT DEF YearStart
  <2> QED BY <2>1, <2>2, NumberFlat, Parts, SMT
<1>5. DayNumber(o) = YearStart(MarchYear(o)) + b - 719469
  <2>1. MonthStart(MonthOfYear(o)) \in Int
    BY Parts, SMT DEF MonthStart, MonthOfYear
  <2>2. YearStart(MarchYear(o)) \in Int
    BY NumberFlat, SMT DEF YearStart
  <2> QED BY <2>1, <2>2, NumberFlat, Parts, SMT
<1> HIDE DEF a, b
<1>6. MarchYear(d) \in Int /\ MarchYear(o) \in Int
  BY NumberFlat, SMT
<1>7. YearStart(MarchYear(d)) \in Int /\ YearStart(MarchYear(o)) \in Int
  BY <1>6, SMT DEF YearStart
<1>8. CASE MarchYear(d) < MarchYear(o)
  <2>1. PICK x \in Int, y \in Int : x = MarchYear(d) /\ y = MarchYear(o)
    BY <1>6, SMT
  <2>2. YearStart(y) - YearStart(x) >= 365 * (y - x) /\ (IsLeap(x + 1) => YearStart(y) - YearStart(x) >= 365 * (y - x) + 1)
    <3>1. x < y
      BY <1>8, <2>1
    <3> HIDE <2>1, <1>8
    <3> QED BY <3>1, YearsApart
  <2>3. YearStart(y) - YearStart(x) >= 365 /\ (a = 366 => YearStart(y) - YearStart(x) >= 366)
    BY <1>2, <1>7, <1>8, <2>1, <2>2, SMT
  <2> QED BY <1>1, <1>4, <1>5, <1>7, <2>1, <2>3, SMT
<1>9. CASE MarchYear(d) = MarchYear(o) /\ a < b
  BY <1>1, <1>4, <1>5, <1>7, <1>9, SMT
<1> QED BY <1>3, <1>8, <1>9

LEMMA BeforeIs ==
    ASSUME NEW d, IsDate(d), NEW o, IsDate(o)
    PROVE  Before(d, o) <=> DayNumber(d) < DayNumber(o)
<1>1. Before(d, o) \/ Before(o, d) \/ d = o
  BY Parts, SMT DEF Before
<1>2. DayNumber(d) \in Int /\ DayNumber(o) \in Int
  BY DateOfNumber
<1> QED BY <1>1, <1>2, BeforeOnly, SMT

(* AddDays moves by so many days and lands on a date.                      *)
LEMMA AddDaysIs ==
    ASSUME NEW d, IsDate(d), NEW n \in Int
    PROVE  IsDate(AddDays(d, n)) /\ DayNumber(AddDays(d, n)) = DayNumber(d) + n
<1>1. DayNumber(d) + n \in Int
  BY DateOfNumber, SMT
<1> QED BY <1>1, NumberOfDate, Zenon DEF AddDays

LEMMA SameNumber ==
    ASSUME NEW d, IsDate(d), NEW o, IsDate(o), DayNumber(d) = DayNumber(o)
    PROVE  d = o
<1>1. Civil(DayNumber(d)) = d /\ Civil(DayNumber(o)) = o
  BY DateOfNumber
<1> QED BY <1>1

(* The days of a month follow each other, and the next month follows the   *)
(* last.                                                                   *)
LEMMA InMonth ==
    ASSUME NEW y \in Int, NEW m \in 1 .. 12, NEW k \in 1 .. 31, k <= DaysInMonth(y, m)
    PROVE  /\ IsDate(<<y, m, 1>>)
           /\ DayNumber(<<y, m, k>>) = DayNumber(<<y, m, 1>>) + k - 1
<1>1. 1 \in 1 .. 31 /\ 1 <= DaysInMonth(y, m)
  BY MonthLengths, SMT
<1>2. IsDate(<<y, m, 1>>) /\ IsDate(<<y, m, k>>)
  BY <1>1, Made
<1>3. /\ MarchYear(<<y, m, 1>>) = MarchYear(<<y, m, k>>)
      /\ MonthOfYear(<<y, m, 1>>) = MonthOfYear(<<y, m, k>>)
      /\ Day(<<y, m, 1>>) = 1 /\ Day(<<y, m, k>>) = k
  BY SMT DEF MarchYear, MonthOfYear, Day, Month, Year
<1>4. PICK s \in Int : s = YearStart(MarchYear(<<y, m, 1>>)) + MonthStart(MonthOfYear(<<y, m, 1>>))
  BY <1>2, NumberFlat, SMT DEF YearStart, MonthStart
<1> QED BY <1>2, <1>3, <1>4, NumberFlat, SMT

(* The first of the next month. *)
NextMonth(y, m) == IF m = 12 THEN <<y + 1, 1, 1>> ELSE <<y, m + 1, 1>>

LEMMA MonthAfter ==
    ASSUME NEW y \in Int, NEW m \in 1 .. 12
    PROVE  /\ IsDate(NextMonth(y, m))
           /\ DayNumber(NextMonth(y, m)) = DayNumber(<<y, m, 1>>) + DaysInMonth(y, m)
<1>1. 1 \in 1 .. 31 /\ 1 <= DaysInMonth(y, m)
  BY MonthLengths, SMT
<1>2. IsDate(<<y, m, 1>>)
  BY <1>1, Made
<1>3. ASSUME m = 12 PROVE IsDate(NextMonth(y, m))
  <2>1. 1 \in 1 .. 12 /\ y + 1 \in Int /\ 1 <= DaysInMonth(y + 1, 1)
    BY MonthLengths, SMT
  <2> QED BY <1>1, <1>3, <2>1, Made DEF NextMonth
<1>4. ASSUME m # 12 PROVE IsDate(NextMonth(y, m))
  <2>1. m + 1 \in 1 .. 12 /\ 1 <= DaysInMonth(y, m + 1)
    BY <1>4, MonthLengths, SMT
  <2> QED BY <1>1, <1>4, <2>1, Made DEF NextMonth
<1>5. IsDate(NextMonth(y, m)) /\ IsDate(<<y, m, 1>>)
  BY <1>2, <1>3, <1>4
<1>6. PICK x \in Int : x = IF m <= 2 THEN y - 1 ELSE y
  BY SMT
<1>7. DayNumber(<<y, m, 1>>) = YearStart(x) + MonthStart((m + 9) % 12) + 1 - 719469
  <2>1. MarchYear(<<y, m, 1>>) = x /\ MonthOfYear(<<y, m, 1>>) = (m + 9) % 12 /\ Day(<<y, m, 1>>) = 1
    BY <1>6, SMT DEF MarchYear, MonthOfYear, Day, Month, Year
  <2> QED BY <1>5, <2>1, NumberFlat, SMT
<1>8. CASE m = 2
  <2>1. NextMonth(y, m) = <<y, 3, 1>>
    BY <1>8, SMT DEF NextMonth
  <2>2. MarchYear(<<y, 3, 1>>) = x + 1 /\ MonthOfYear(<<y, 3, 1>>) = 0 /\ Day(<<y, 3, 1>>) = 1
    BY <1>6, <1>8, SMT DEF MarchYear, MonthOfYear, Day, Month, Year
  <2>3. DayNumber(<<y, 3, 1>>) = YearStart(x + 1) + MonthStart(0) + 1 - 719469
    BY <1>5, <2>1, <2>2, NumberFlat, SMT
  <2>4. MonthStart(0) = 0 /\ MonthStart((m + 9) % 12) = 337
    BY <1>8, SMT DEF MonthStart
  <2>5. YearStart(x + 1) - YearStart(x) = 365 + (IF IsLeap(x + 1) THEN 1 ELSE 0) /\ YearStart(x) \in Int /\ YearStart(x + 1) \in Int
    BY SMT DEF YearStart, IsLeap
  <2>6. DaysInMonth(y, m) = IF IsLeap(x + 1) THEN 29 ELSE 28
    BY <1>6, <1>8, SMT DEF DaysInMonth
  <2> QED BY <1>5, <1>7, <2>1, <2>3, <2>4, <2>5, <2>6, SMT
<1>9. CASE m # 2
  <2>1. PICK d : d = NextMonth(y, m)
    OBVIOUS
  <2>2. MarchYear(d) = x /\ MonthOfYear(d) = (m + 10) % 12 /\ Day(d) = 1
    BY <1>6, <1>9, <2>1, SMT DEF NextMonth, MarchYear, MonthOfYear, Day, Month, Year
  <2>3. DayNumber(d) = YearStart(x) + MonthStart((m + 10) % 12) + 1 - 719469
    BY <1>5, <2>1, <2>2, NumberFlat, SMT
  <2>4. MonthStart((m + 10) % 12) - MonthStart((m + 9) % 12) = DaysInMonth(y, m)
        /\ MonthStart((m + 10) % 12) \in Int /\ MonthStart((m + 9) % 12) \in Int
    BY <1>9, SMT DEF MonthStart, DaysInMonth
  <2>5. YearStart(x) \in Int
    BY SMT DEF YearStart
  <2>6. DaysInMonth(y, m) \in Int
    BY MonthLengths, SMT
  <2> QED BY <1>5, <1>7, <2>1, <2>3, <2>4, <2>5, <2>6, SMT
<1> QED BY <1>5, <1>8, <1>9

-----------------------------------------------------------------------------
(* Wall clocks. The local time of an instant is what the clocks show, in   *)
(* steps from the epoch's midnight.                                        *)

Midnight(n) == n * PerDay    \* of a day, on that day's own clock

(* Midnights lie a whole day apart.                                        *)
LEMMA Midnights ==
    /\ PerDay \in Nat \ {0}
    /\ \A n \in Int : Midnight(n) \in Int
    /\ \A n \in Int : Midnight(n + 1) = Midnight(n) + PerDay
    /\ \A n, m \in Int : n < m => Midnight(n) + PerDay <= Midnight(m)
<1>1. PerDay \in Nat \ {0}
  BY WallClockConstants
<1>2. ASSUME NEW n \in Int, NEW m \in Int, n < m
      PROVE  Midnight(n) + PerDay <= Midnight(m)
  <2>1. (n + 1) * PerDay <= m * PerDay
    <3>1. n + 1 <= m
      BY <1>2
    <3> QED BY <1>1, <3>1, SMT
  <2>2. (n + 1) * PerDay = n * PerDay + PerDay
    BY <1>1, SMT
  <2> QED BY <2>1, <2>2, SMT DEF Midnight
<1>3. ASSUME NEW n \in Int PROVE Midnight(n) \in Int /\ Midnight(n + 1) = Midnight(n) + PerDay
  BY <1>1, SMT DEF Midnight
<1> QED BY <1>1, <1>2, <1>3

(* A local time splits into a midnight and a clock, in one way.            *)
LEMMA DayOfClock ==
    ASSUME NEW t \in Int
    PROVE  /\ t \div PerDay \in Int /\ t % PerDay \in 0 .. PerDay - 1
           /\ t = Midnight(t \div PerDay) + (t % PerDay)
           /\ \A n \in Int : t \div PerDay = n <=> Midnight(n) <= t /\ t < Midnight(n) + PerDay
<1>1. PerDay \in Nat \ {0}
  BY WallClockConstants
<1>2. t \div PerDay \in Int /\ t % PerDay \in 0 .. PerDay - 1
      /\ t = ((t \div PerDay) * PerDay) + (t % PerDay)
  BY <1>1, SMT
<1>3. ASSUME NEW n \in Int
      PROVE  t \div PerDay = n <=> n * PerDay <= t /\ t < (n + 1) * PerDay
  BY <1>1, SMT
<1>4. ASSUME NEW n \in Int PROVE (n + 1) * PerDay = n * PerDay + PerDay /\ n * PerDay \in Int
  BY <1>1, SMT
<1> QED BY <1>1, <1>2, <1>3, <1>4, SMT DEF Midnight

Local(z, t) == t + Offset(z, t)

(* What the clocks show is a whole number of steps, by the side of the     *)
(* change.                                                                 *)
LEMMA LocalIs ==
    ASSUME NEW z, IsZone(z), NEW t \in Int
    PROVE  /\ Local(z, t) \in Int /\ Offset(z, t) \in Int
           /\ Local(z, t) = IF t < z.at THEN t + z.before ELSE t + z.after
           /\ z.at \in Int /\ z.before \in Int /\ z.after \in Int
<1>1. z.at \in Int /\ z.before \in Int /\ z.after \in Int
  BY WallClockConstants, SMT DEF IsZone
<1> QED BY <1>1, SMT DEF Local, Offset

(* The date and the clock read at an instant put its local time together.  *)
LEMMA ReadAs ==
    ASSUME NEW z, IsZone(z), NEW t \in Int
    PROVE  /\ IsDate(DateIn(t, z))
           /\ ClockIn(t, z) \in 0 .. PerDay - 1
           /\ Local(z, t) = Midnight(DayNumber(DateIn(t, z))) + ClockIn(t, z)
           /\ \A d : IsDate(d) =>
                (DateIn(t, z) = d <=> /\ Midnight(DayNumber(d)) <= Local(z, t)
                                      /\ Local(z, t) < Midnight(DayNumber(d)) + PerDay)
<1>1. Local(z, t) \in Int
  BY LocalIs
<1>2. PICK n \in Int : n = Local(z, t) \div PerDay
  BY <1>1, DayOfClock
<1>3. DateIn(t, z) = Civil(n) /\ ClockIn(t, z) = Local(z, t) % PerDay
  BY <1>2 DEF DateIn, ClockIn, Local
<1>4. IsDate(Civil(n)) /\ DayNumber(Civil(n)) = n
  BY NumberOfDate
<1>5. ASSUME NEW d, IsDate(d)
      PROVE  Civil(n) = d <=> n = DayNumber(d)
  BY <1>4, <1>5, SameNumber
<1>6. ASSUME NEW d, IsDate(d) PROVE DayNumber(d) \in Int
  BY <1>6, DateOfNumber
<1>7. /\ Local(z, t) % PerDay \in 0 .. PerDay - 1
      /\ Local(z, t) = Midnight(n) + (Local(z, t) % PerDay)
      /\ \A k \in Int : n = k <=> Midnight(k) <= Local(z, t) /\ Local(z, t) < Midnight(k) + PerDay
  BY <1>1, <1>2, DayOfClock
<1>8. ASSUME NEW d, IsDate(d)
      PROVE  DateIn(t, z) = d <=> /\ Midnight(DayNumber(d)) <= Local(z, t)
                                  /\ Local(z, t) < Midnight(DayNumber(d)) + PerDay
  BY <1>3, <1>5, <1>6, <1>7, <1>8
<1> QED BY <1>3, <1>4, <1>7, <1>8

(* The instants of a day lie within a day of it, so Reads misses none.     *)
LEMMA ReadsIs ==
    ASSUME NEW z, IsZone(z), NEW d, IsDate(d)
    PROVE  /\ Reads(d, z) \subseteq Int
           /\ \A t \in Int : t \in Reads(d, z) <=> DateIn(t, z) = d
<1>1. PICK n \in Int : n = DayNumber(d)
  BY DateOfNumber
<1>2. /\ (n - 1) * PerDay = Midnight(n) - PerDay
      /\ (n + 2) * PerDay = Midnight(n) + PerDay + PerDay
      /\ Midnight(n) \in Int /\ PerDay \in Nat \ {0}
  BY WallClockConstants, SMT DEF Midnight
<1>3. Reads(d, z) = {t \in Midnight(n) - PerDay .. Midnight(n) + PerDay + PerDay : DateIn(t, z) = d}
  BY <1>1, <1>2 DEF Reads
<1>4. ASSUME NEW t \in Int, DateIn(t, z) = d
      PROVE  t \in Midnight(n) - PerDay .. Midnight(n) + PerDay + PerDay
  <2>1. Midnight(n) <= Local(z, t) /\ Local(z, t) < Midnight(n) + PerDay
    BY <1>1, <1>4, ReadAs
  <2>2. Local(z, t) \in Int /\ t - PerDay <= Local(z, t) /\ Local(z, t) <= t + PerDay
    BY <1>2, SMT DEF Local, Offset, IsZone
  <2> QED BY <1>2, <2>1, <2>2, SMT
<1> QED BY <1>2, <1>3, <1>4, SMT

(* The day on which the change of the clocks falls, against another day:   *)
(* it is the same, before or after, and where the change ends (ZoneOK).    *)
LEMMA ChangeDay ==
    ASSUME NEW z, IsZone(z), ZoneOK(z), NEW n \in Int
    PROVE  \E h \in Int :
              /\ h <= z.at + z.before /\ z.at + z.before < h + PerDay
              /\ h = Midnight(n) \/ h + PerDay <= Midnight(n) \/ Midnight(n) + PerDay <= h
              /\ \/ 2 * (z.after - z.before) <= PerDay /\ z.at + z.after <= h + PerDay
                 \/ z.after - z.before = PerDay /\ z.at + z.before = h
<1>1. PICK t \in Int : t = z.at + z.before
  BY SMT DEF IsZone
<1>2. PICK k \in Int : k = t \div PerDay
  BY DayOfClock
<1>3. Midnight(k) <= t /\ t < Midnight(k) + PerDay /\ t = Midnight(k) + (t % PerDay)
  BY <1>2, DayOfClock
<1>4. Midnight(k) = Midnight(n) \/ Midnight(k) + PerDay <= Midnight(n) \/ Midnight(n) + PerDay <= Midnight(k)
  <2>1. k = n \/ k < n \/ n < k
    OBVIOUS
  <2> QED BY <2>1, Midnights
<1>5. (k + 1) * PerDay = Midnight(k) + PerDay /\ Midnight(k) \in Int
  BY Midnights DEF Midnight
<1>6. t % PerDay \in Int
  BY DayOfClock
<1>7. t % PerDay = 0 => t = Midnight(k)
  BY <1>3, <1>5, <1>6, SMT
<1>8. \/ 2 * (z.after - z.before) <= PerDay /\ z.at + z.after <= Midnight(k) + PerDay
      \/ z.after - z.before = PerDay /\ z.at + z.before = Midnight(k)
  BY <1>1, <1>2, <1>5, <1>7 DEF ZoneOK
<1> QED BY <1>1, <1>3, <1>4, <1>5, <1>8

(* At's candidates: the fields under one offset or the other.              *)
LEMMA AtIs ==
    ASSUME NEW z, IsZone(z), NEW d, IsDate(d), NEW c \in 0 .. PerDay - 1
    PROVE  \E u, first, t, alt \in Int :
              /\ u = Midnight(DayNumber(d)) + c
              /\ first = u - Offset(z, u)
              /\ t = IF Offset(z, first) = Offset(z, u) THEN first ELSE u - Offset(z, first)
              /\ alt = u - Offset(z, t)
              /\ At(d, c, z) = IF DateIn(t, z) # d /\ DateIn(alt, z) = d THEN alt ELSE t
<1>1. PICK u \in Int : u = Midnight(DayNumber(d)) + c
  BY DateOfNumber, Midnights, SMT
<1>2. ASSUME NEW i \in Int PROVE Offset(z, i) \in Int
  BY LocalIs
<1>3. PICK first \in Int : first = u - Offset(z, u)
  BY <1>2, SMT
<1>4. PICK t \in Int : t = IF Offset(z, first) = Offset(z, u) THEN first ELSE u - Offset(z, first)
  BY <1>2, SMT
<1>5. PICK alt \in Int : alt = u - Offset(z, t)
  BY <1>2, SMT
<1>6. t = TimeDate(d, c, z)
  BY <1>1, <1>3, <1>4 DEF TimeDate, Midnight
<1>7. At(d, c, z) = IF DateIn(t, z) # d /\ DateIn(alt, z) = d THEN alt ELSE t
  <2>1. DayNumber(d) * PerDay + c = u
    BY <1>1 DEF Midnight
  <2>2. alt = DayNumber(d) * PerDay + c - Offset(z, TimeDate(d, c, z))
    <3>1. PICK x, y \in Int : x = DayNumber(d) * PerDay /\ y = Offset(z, TimeDate(d, c, z))
      BY <1>2, <1>6, DateOfNumber, Midnights DEF Midnight
    <3> QED BY <1>5, <1>6, <2>1, <3>1
  <2> HIDE <1>1, <1>2, <1>3, <1>4, <1>5, <2>1
  <2>3. CASE DateIn(TimeDate(d, c, z), z) # d /\ DateIn(DayNumber(d) * PerDay + c - Offset(z, TimeDate(d, c, z)), z) = d
    <3>1. At(d, c, z) = DayNumber(d) * PerDay + c - Offset(z, TimeDate(d, c, z))
      BY <2>3 DEF At
    <3> QED BY <1>6, <2>2, <2>3, <3>1, Zenon
  <2>4. CASE ~(DateIn(TimeDate(d, c, z), z) # d /\ DateIn(DayNumber(d) * PerDay + c - Offset(z, TimeDate(d, c, z)), z) = d)
    <3>1. At(d, c, z) = TimeDate(d, c, z)
      BY <2>4 DEF At
    <3> QED BY <1>6, <2>2, <2>4, <3>1, Zenon
  <2> QED BY <2>3, <2>4
<1> QED BY <1>1, <1>3, <1>4, <1>5, <1>7

(* A date that happens at all has At on it, whatever the clock.            *)
LEMMA AtInDay ==
    ASSUME NEW z, IsZone(z), ZoneOK(z), NEW d, IsDate(d), NEW c \in 0 .. PerDay - 1,
           Happens(d, z)
    PROVE  At(d, c, z) \in Int /\ DateIn(At(d, c, z), z) = d
<1>1. PICK i \in Int : DateIn(i, z) = d
  BY ReadsIs DEF Happens
<1>2. PICK u, first, t, alt \in Int :
              /\ u = Midnight(DayNumber(d)) + c
              /\ first = u - Offset(z, u)
              /\ t = IF Offset(z, first) = Offset(z, u) THEN first ELSE u - Offset(z, first)
              /\ alt = u - Offset(z, t)
              /\ At(d, c, z) = IF DateIn(t, z) # d /\ DateIn(alt, z) = d THEN alt ELSE t
  BY AtIs
<1>3. PICK m \in Int : m = Midnight(DayNumber(d))
  BY DateOfNumber, Midnights
<1>4. m <= Local(z, i) /\ Local(z, i) < m + PerDay
  BY <1>1, <1>3, ReadAs
<1>5. DateIn(t, z) = d <=> m <= Local(z, t) /\ Local(z, t) < m + PerDay
  BY <1>3, ReadAs
<1>6. DateIn(alt, z) = d <=> m <= Local(z, alt) /\ Local(z, alt) < m + PerDay
  BY <1>3, ReadAs
<1>7. PICK h \in Int :
              /\ h <= z.at + z.before /\ z.at + z.before < h + PerDay
              /\ h = m \/ h + PerDay <= m \/ m + PerDay <= h
              /\ \/ 2 * (z.after - z.before) <= PerDay /\ z.at + z.after <= h + PerDay
                 \/ z.after - z.before = PerDay /\ z.at + z.before = h
  BY <1>3, ChangeDay, DateOfNumber
<1>8. ~(m <= Local(z, t) /\ Local(z, t) < m + PerDay) => m <= Local(z, alt) /\ Local(z, alt) < m + PerDay
  <2>1. PerDay \in Nat \ {0} /\ z.at \in Int /\ z.before \in Int /\ z.after \in Int
    BY WallClockConstants, LocalIs
  <2>2. PICK p, a, b, e \in Int : p = PerDay /\ a = z.at /\ b = z.before /\ e = z.after
    BY <2>1
  <2>3. u = m + c /\ 0 <= c /\ c < p /\ p >= 1 /\ c \in Int
    BY <1>2, <1>3, <2>1, <2>2
  <2>4. first = IF u < a THEN u - b ELSE u - e
    BY <1>2, <2>2 DEF Offset
  <2>5. t = first \/ t = u - (IF first < a THEN b ELSE e)
    BY <1>2, <2>2 DEF Offset
  <2>6. t = first => (first < a <=> u < a) \/ b = e \/ t = u - (IF first < a THEN b ELSE e)
    BY <1>2, <2>2 DEF Offset
  <2>7. alt = u - (IF t < a THEN b ELSE e)
    BY <1>2, <2>2 DEF Offset
  <2>8. /\ h <= a + b /\ a + b < h + p
        /\ h = m \/ h + p <= m \/ m + p <= h
        /\ \/ 2 * (e - b) <= p /\ a + e <= h + p
           \/ e - b = p /\ a + b = h
    BY <1>7, <2>2
  <2>9. /\ Local(z, t) = IF t < a THEN t + b ELSE t + e
        /\ Local(z, alt) = IF alt < a THEN alt + b ELSE alt + e
        /\ Local(z, i) = IF i < a THEN i + b ELSE i + e
    BY <2>2, LocalIs
  <2>10. PICK x, y, w \in Int : x = Local(z, t) /\ y = Local(z, alt) /\ w = Local(z, i)
    BY LocalIs
  <2>11. ~(m <= x /\ x < m + p) => m <= y /\ y < m + p
    <3> HIDE <1>1, <1>2, <1>3, <1>4, <1>5, <1>6, <1>7, <2>1, <2>2
    <3>1. m <= w /\ w < m + p
      BY <1>4, <2>2, <2>10
    <3> QED BY <2>3, <2>4, <2>5, <2>6, <2>7, <2>8, <2>9, <2>10, <3>1, SMTT(60)
  <2> QED BY <2>2, <2>10, <2>11
<1> QED BY <1>2, <1>5, <1>6, <1>8

(* Wherever the day shows the clock at all, At shows it. *)
LEMMA AtOnClock ==
    ASSUME NEW z, IsZone(z), NEW d, IsDate(d), NEW c \in 0 .. PerDay - 1,
           NEW i \in Int, DateIn(i, z) = d, ClockIn(i, z) = c
    PROVE  At(d, c, z) \in Int /\ DateIn(At(d, c, z), z) = d /\ ClockIn(At(d, c, z), z) = c
<1>1. PICK u, first, t, alt \in Int :
              /\ u = Midnight(DayNumber(d)) + c
              /\ first = u - Offset(z, u)
              /\ t = IF Offset(z, first) = Offset(z, u) THEN first ELSE u - Offset(z, first)
              /\ alt = u - Offset(z, t)
              /\ At(d, c, z) = IF DateIn(t, z) # d /\ DateIn(alt, z) = d THEN alt ELSE t
  BY AtIs
<1>2. PICK m \in Int : m = Midnight(DayNumber(d))
  BY DateOfNumber, Midnights
<1>3. Local(z, i) = u
  BY <1>1, ReadAs
<1>4. Local(z, t) = u
  BY <1>1, <1>3, LocalIs, SMT DEF Local, Offset
<1>5. m <= Local(z, t) /\ Local(z, t) < m + PerDay /\ PerDay \in Int
  BY <1>1, <1>2, <1>4, WallClockConstants
<1>6. DateIn(t, z) = d
  BY <1>2, <1>5, ReadAs
<1>7. ClockIn(t, z) = c
  <2>1. Local(z, t) = m + ClockIn(t, z) /\ ClockIn(t, z) \in 0 .. PerDay - 1
    BY <1>2, <1>6, ReadAs
  <2> QED BY <1>1, <1>2, <1>4, <1>5, <2>1
<1> QED BY <1>1, <1>6, <1>7

(* In is the first instant of every day that happens.                      *)
LEMMA InIsFirst ==
    ASSUME NEW z, IsZone(z), ZoneOK(z), NEW d, IsDate(d), Happens(d, z)
    PROVE  /\ In(d, z) \in Reads(d, z)
           /\ \A i \in Reads(d, z) : In(d, z) <= i
<1>1. 0 \in 0 .. PerDay - 1 /\ PerDay \in Nat \ {0}
  BY Midnights
<1>2. PICK u, first, t, alt \in Int :
              /\ u = Midnight(DayNumber(d)) + 0
              /\ first = u - Offset(z, u)
              /\ t = IF Offset(z, first) = Offset(z, u) THEN first ELSE u - Offset(z, first)
              /\ alt = u - Offset(z, t)
              /\ At(d, 0, z) = IF DateIn(t, z) # d /\ DateIn(alt, z) = d THEN alt ELSE t
  BY <1>1, AtIs
<1>3. PICK m \in Int : m = Midnight(DayNumber(d))
  BY DateOfNumber, Midnights
<1>4. PICK a \in Int : a = At(d, 0, z)
  BY <1>1, AtInDay
<1>5. PICK b \in Int : b = m - z.before
  BY LocalIs, SMT
<1>6. In(d, z) = IF a >= z.at /\ b < a /\ DateIn(b, z) = d THEN b ELSE a
  BY <1>3, <1>4, <1>5 DEF In, Midnight
<1>7. DateIn(a, z) = d
  BY <1>1, <1>4, AtInDay
<1>8. ASSUME NEW i \in Int
      PROVE  DateIn(i, z) = d <=> m <= Local(z, i) /\ Local(z, i) < m + PerDay
  BY <1>3, ReadAs
<1>9. PICK h \in Int :
              /\ h <= z.at + z.before /\ z.at + z.before < h + PerDay
              /\ h = m \/ h + PerDay <= m \/ m + PerDay <= h
              /\ \/ 2 * (z.after - z.before) <= PerDay /\ z.at + z.after <= h + PerDay
                 \/ z.after - z.before = PerDay /\ z.at + z.before = h
  BY <1>3, ChangeDay, DateOfNumber
<1>10. ASSUME NEW i \in Int, DateIn(i, z) = d PROVE In(d, z) <= i
  <2>1. PICK p, at, bf, af \in Int : p = PerDay /\ at = z.at /\ bf = z.before /\ af = z.after
    <3>1. PerDay \in Int /\ z.at \in Int /\ z.before \in Int /\ z.after \in Int
      BY <1>1, LocalIs
    <3> QED BY <3>1
  <2>2. ASSUME NEW k \in Int
        PROVE  /\ Local(z, k) = IF k < at THEN k + bf ELSE k + af
               /\ Offset(z, k) = IF k < at THEN bf ELSE af
    BY <2>1, LocalIs DEF Offset
  <2>3. ASSUME NEW k \in Int, Local(z, k) = m PROVE DateIn(k, z) = d
    BY <1>1, <1>8, <2>1, <2>3
  <2>4. (a = t /\ DateIn(t, z) = d) \/ (a = alt /\ DateIn(t, z) # d)
    BY <1>2, <1>4, <1>7
  <2>5. (t = m - bf /\ alt \in {m - bf, m - af}) \/ (t = m - af /\ alt \in {m - bf, m - af})
    BY <1>2, <1>3, <2>2
  <2>6. ASSUME at <= m - af, bf < af PROVE a = m - af
    <3>1. t = m - af
      BY <1>2, <1>3, <2>2, <2>6
    <3>2. Local(z, t) = m
      BY <2>2, <2>6, <3>1
    <3> QED BY <2>3, <2>4, <3>1, <3>2
  <2>7. ASSUME m - af < at, af < bf PROVE a = m - bf
    <3>1. t = m - bf
      BY <1>2, <1>3, <2>2, <2>7
    <3>2. Local(z, t) = m
      BY <2>2, <2>7, <3>1
    <3> QED BY <2>3, <2>4, <3>1, <3>2
  <2>8. /\ m <= Local(z, i) /\ Local(z, i) < m + p
        /\ m <= Local(z, a) /\ Local(z, a) < m + p
    BY <1>7, <1>8, <1>10, <2>1
  <2>9. In(d, z) = a \/ (In(d, z) = b /\ b < a)
    BY <1>6
  <2>10. CASE a < at
    <3>1. a <= i
      BY <1>5, <2>1, <2>2, <2>4, <2>5, <2>7, <2>8, <2>10
    <3> QED BY <2>9, <3>1
  <2>11. CASE at <= a /\ a = m - bf
    <3>1. at <= i /\ m <= i + af
      BY <2>2, <2>8, <2>11
    <3>2. CASE at <= m - af
      <4>1. a <= m - af
        BY <2>2, <2>6, <2>8, <2>11, <3>2
      <4> QED BY <2>9, <3>1, <4>1
    <3>3. CASE m - af < at
      <4>1. a = at
        BY <1>9, <2>1, <2>11, <3>3
      <4> QED BY <2>9, <3>1, <4>1
    <3> QED BY <3>2, <3>3
  <2>12. CASE at <= a /\ a = m - af
    <3>1. CASE at <= i
      <4>1. a <= i
        BY <2>2, <2>8, <2>12, <3>1
      <4> QED BY <2>9, <4>1
    <3>2. CASE i < at
      <4>1. b <= i
        BY <1>5, <2>1, <2>2, <2>8, <3>2
      <4>2. Local(z, b) = m /\ b < a
        BY <1>5, <2>1, <2>2, <2>12, <3>2, <4>1
      <4>3. DateIn(b, z) = d
        BY <2>3, <4>2
      <4>4. In(d, z) = b
        BY <1>6, <2>1, <2>12, <4>2, <4>3
      <4> QED BY <4>1, <4>4
    <3> QED BY <3>1, <3>2
  <2> QED BY <2>4, <2>5, <2>10, <2>11, <2>12
<1>11. In(d, z) \in Int /\ DateIn(In(d, z), z) = d
  BY <1>6, <1>7
<1> QED BY <1>10, <1>11, ReadsIs

-----------------------------------------------------------------------------
(* Days in weeks, months and years.                                        *)

(* Days in weeks, months and years. *)
LEMMA Weeks ==
    ASSUME NEW d, IsDate(d)
    PROVE  /\ Week(d) \in Int /\ Weekday(d) \in 0 .. 6
           /\ MondayOffset(Weekday(d)) \in 0 .. 6
           /\ DayNumber(d) = 7 * Week(d) + MondayOffset(Weekday(d)) - 3
           /\ IsDate(MondayOf(d)) /\ DayNumber(MondayOf(d)) = 7 * Week(d) - 3
<1>1. PICK n \in Int : n = DayNumber(d)
  BY DateOfNumber
<1>2. PICK w \in Int, wd \in Int, o \in Int :
        w = (n + 3) \div 7 /\ wd = (n + 4) % 7 /\ o = (wd + 6) % 7
  BY SMT
<1>3. wd \in 0 .. 6 /\ o \in 0 .. 6 /\ n = 7 * w + o - 3
  BY <1>2, SMT
<1>4. w = Week(d) /\ wd = Weekday(d) /\ o = MondayOffset(Weekday(d))
  BY <1>1, <1>2 DEF Week, Weekday, MondayOffset
<1>5. -o \in Int
  BY <1>3
<1>6. IsDate(AddDays(d, -o)) /\ DayNumber(AddDays(d, -o)) = n + (-o)
  BY <1>1, <1>5, AddDaysIs
<1>7. MondayOf(d) = AddDays(d, -o)
  BY <1>4 DEF MondayOf
<1> QED BY <1>1, <1>3, <1>4, <1>6, <1>7

(* Offsets from Monday tell the weekdays apart.                            *)
LEMMA MondayOffsets ==
    ASSUME NEW a \in 0 .. 6
    PROVE  MondayOffset(a) \in 0 .. 6 /\ \A b \in 0 .. 6 : MondayOffset(a) = MondayOffset(b) => a = b
BY SMT DEF MondayOffset

(* Months count on with the years that start in March.                     *)
LEMMA MonthsIs ==
    ASSUME NEW d, IsDate(d)
    PROVE  Months(d) \in Int /\ Months(d) = 12 * MarchYear(d) + MonthOfYear(d) + 3
<1>1. Year(d) \in Int /\ Month(d) \in 1 .. 12
  BY Parts
<1> QED BY <1>1, SMT DEF Months, MarchYear, MonthOfYear

(* A month's first day, and how far into the month a date is.              *)
LEMMA FirstOfMonth ==
    ASSUME NEW d, IsDate(d)
    PROVE  LET f == <<Year(d), Month(d), 1>>
           IN  /\ IsDate(f) /\ Months(f) = Months(d) /\ Year(f) = Year(d) /\ Month(f) = Month(d) /\ Day(f) = 1
               /\ DayNumber(d) = DayNumber(f) + Day(d) - 1
               /\ DayNumber(d) < DayNumber(f) + DaysInMonth(Year(d), Month(d))
<1> DEFINE f == <<Year(d), Month(d), 1>>
<1>1. /\ Year(d) \in Int /\ Month(d) \in 1 .. 12 /\ Day(d) \in 1 .. 31
      /\ Day(d) <= DaysInMonth(Year(d), Month(d)) /\ d = <<Year(d), Month(d), Day(d)>>
  BY Parts
<1>2. IsDate(f) /\ DayNumber(d) = DayNumber(f) + Day(d) - 1
  BY <1>1, InMonth
<1>3. Year(f) = Year(d) /\ Month(f) = Month(d) /\ Day(f) = 1
  BY DEF Year, Month, Day
<1>4. Months(f) = Months(d)
  BY <1>3 DEF Months
<1>5. DayNumber(f) \in Int /\ DaysInMonth(Year(d), Month(d)) \in Int
  BY <1>1, <1>2, DateOfNumber, MonthLengths
<1> QED BY <1>1, <1>2, <1>3, <1>4, <1>5

(* Months are at least 28 days apart.                                      *)
LEMMA MonthsApart ==
    ASSUME NEW d, IsDate(d), NEW o, IsDate(o), Day(d) = 1, Day(o) = 1, Months(d) <= Months(o)
    PROVE  28 * (Months(o) - Months(d)) <= DayNumber(o) - DayNumber(d)
<1>1. PICK x, y, p, q \in Int : x = MarchYear(d) /\ y = MarchYear(o) /\ p = MonthOfYear(d)
        /\ q = MonthOfYear(o)
  BY NumberFlat
<1>2. p \in 0 .. 11 /\ q \in 0 .. 11
  BY <1>1, NumberFlat
<1>3. Months(d) = 12 * x + p + 3 /\ Months(o) = 12 * y + q + 3
  BY <1>1, MonthsIs
<1>4. /\ DayNumber(d) = YearStart(x) + MonthStart(p) + 1 - 719469
      /\ DayNumber(o) = YearStart(y) + MonthStart(q) + 1 - 719469
  BY <1>1, NumberFlat
<1>5. PICK a, b, u, v \in Int : a = YearStart(x) /\ b = YearStart(y) /\ u = MonthStart(p)
        /\ v = MonthStart(q)
  BY SMT DEF YearStart, MonthStart
<1>6. u - 28 * p \in 0 .. 29 /\ v - 28 * q \in 0 .. 29 /\ (p <= q => u - 28 * p <= v - 28 * q)
  BY <1>2, <1>5, SMT DEF MonthStart
<1>7. x < y => b - a >= 365 * (y - x)
  BY <1>5, YearsApart
<1>8. x = y => a = b
  BY <1>5
<1>9. PICK i, j \in Int : i = DayNumber(d) /\ j = DayNumber(o)
  BY DateOfNumber
<1>10. j - i = b - a + (v - u)
  BY <1>4, <1>5, <1>9, SMT
<1>11. 28 * ((12 * y + q + 3) - (12 * x + p + 3)) <= j - i
  <2>1. 12 * x + p <= 12 * y + q
    BY <1>3
  <2>2. x = y \/ x < y
    BY <1>2, <2>1
  <2> QED BY <1>2, <1>6, <1>7, <1>8, <1>10, <2>1, <2>2, SMT
<1> QED BY <1>3, <1>9, <1>11

(* The first of the next month.                                            *)
LEMMA NextMonthIs ==
    ASSUME NEW d, IsDate(d)
    PROVE  LET f == NextMonth(Year(d), Month(d))
           IN  /\ IsDate(f) /\ Day(f) = 1 /\ Months(f) = Months(d) + 1 /\ Month(f) # Month(d)
               /\ Month(f) = (IF Month(d) = 12 THEN 1 ELSE Month(d) + 1)
               /\ DayNumber(f) = DayNumber(d) + DaysInMonth(Year(d), Month(d)) - Day(d) + 1
<1> DEFINE f == NextMonth(Year(d), Month(d))
<1>1. Year(d) \in Int /\ Month(d) \in 1 .. 12
  BY Parts
<1>2. IsDate(f) /\ DayNumber(f) = DayNumber(<<Year(d), Month(d), 1>>) + DaysInMonth(Year(d), Month(d))
  BY <1>1, MonthAfter
<1>3. /\ Day(f) = 1 /\ Month(f) = (IF Month(d) = 12 THEN 1 ELSE Month(d) + 1)
      /\ Year(f) = (IF Month(d) = 12 THEN Year(d) + 1 ELSE Year(d))
  BY SMT DEF NextMonth, Day, Month, Year
<1>4. Months(f) = Months(d) + 1 /\ Month(f) # Month(d)
  BY <1>1, <1>3, SMT DEF Months
<1>5. PICK n, e, k \in Int : n = DayNumber(<<Year(d), Month(d), 1>>)
        /\ e = DaysInMonth(Year(d), Month(d)) /\ k = Day(d)
  BY <1>1, Parts, FirstOfMonth, DateOfNumber, MonthLengths
<1>6. DayNumber(d) = n + k - 1 /\ DayNumber(f) = n + e
  BY <1>2, <1>5, FirstOfMonth
<1>7. DayNumber(f) = DayNumber(d) + e - k + 1
  BY <1>5, <1>6
<1> QED BY <1>2, <1>3, <1>4, <1>5, <1>7

(* Days after d within its month, and up to a week into the next. *)
LEMMA SameMonth ==
    ASSUME NEW d, IsDate(d), NEW n \in Nat, Day(d) + n <= DaysInMonth(Year(d), Month(d))
    PROVE  AddDays(d, n) = <<Year(d), Month(d), Day(d) + n>>
<1> DEFINE e == <<Year(d), Month(d), Day(d) + n>>
<1>1. /\ Year(d) \in Int /\ Month(d) \in 1 .. 12 /\ Day(d) \in 1 .. 31
      /\ DaysInMonth(Year(d), Month(d)) \in 28 .. 31
  BY Parts, MonthLengths
<1>2. Day(d) + n \in 1 .. 31
  BY <1>1
<1>3. IsDate(e) /\ Year(e) = Year(d) /\ Month(e) = Month(d) /\ Day(e) = Day(d) + n
  BY <1>1, <1>2, Made
<1>4. DayNumber(e) = DayNumber(d) + n
  <2>1. PICK m \in Int : m = DayNumber(<<Year(d), Month(d), 1>>)
    BY FirstOfMonth, DateOfNumber
  <2>2. DayNumber(d) = m + Day(d) - 1
    BY <2>1, FirstOfMonth
  <2>3. DayNumber(e) = m + (Day(d) + n) - 1
    BY <1>1, <1>2, <2>1, InMonth
  <2> QED BY <1>1, <2>1, <2>2, <2>3
<1>5. IsDate(AddDays(d, n)) /\ DayNumber(AddDays(d, n)) = DayNumber(d) + n
  BY AddDaysIs
<1> QED BY <1>3, <1>4, <1>5, SameNumber

(* Up to four weeks on, a day past the end of the month is in another one. *)
LEMMA IntoNextMonth ==
    ASSUME NEW d, IsDate(d), NEW n \in 1 .. 28, Day(d) + n > DaysInMonth(Year(d), Month(d))
    PROVE  Month(AddDays(d, n)) # Month(d)
<1> DEFINE f == NextMonth(Year(d), Month(d))
<1>1. IsDate(f) /\ Day(f) = 1 /\ Month(f) # Month(d)
      /\ DayNumber(f) = DayNumber(d) + DaysInMonth(Year(d), Month(d)) - Day(d) + 1
  BY NextMonthIs
<1>2. Day(d) \in 1 .. 31 /\ DaysInMonth(Year(d), Month(d)) \in 28 .. 31
      /\ Day(d) <= DaysInMonth(Year(d), Month(d))
  BY Parts, MonthLengths
<1>3. PICK k \in Nat : k = n + Day(d) - DaysInMonth(Year(d), Month(d)) - 1
  BY <1>2
<1>4. DaysInMonth(Year(f), Month(f)) \in 28 .. 31
  BY <1>1, Parts, MonthLengths
<1>5. Day(f) + k <= DaysInMonth(Year(f), Month(f))
  BY <1>1, <1>2, <1>3, <1>4
<1>6. AddDays(f, k) = <<Year(f), Month(f), Day(f) + k>>
  BY <1>1, <1>5, SameMonth
<1>7. DayNumber(d) \in Int
  BY DateOfNumber
<1>8. DayNumber(f) + k = DayNumber(d) + n
  BY <1>1, <1>2, <1>3, <1>7
<1>9. AddDays(d, n) = AddDays(f, k)
  BY <1>8 DEF AddDays
<1>10. Month(AddDays(d, n)) = Month(f)
  BY <1>6, <1>9 DEF Month
<1> QED BY <1>1, <1>10

(* The table's last day of a month, and last of a weekday, by the month's  *)
(* length.                                                                 *)
LEMMA EndsMonthIs ==
    ASSUME NEW d, IsDate(d)
    PROVE  /\ EndsMonth(d) <=> Day(d) = DaysInMonth(Year(d), Month(d))
           /\ Month(AddDays(d, 7)) # Month(d) <=> Day(d) + 7 > DaysInMonth(Year(d), Month(d))
<1>1. Day(d) \in Int /\ DaysInMonth(Year(d), Month(d)) \in Int
      /\ Day(d) <= DaysInMonth(Year(d), Month(d))
  BY Parts, MonthLengths
<1>2. ASSUME NEW n \in 1 .. 28
      PROVE  Month(AddDays(d, n)) # Month(d) <=> Day(d) + n > DaysInMonth(Year(d), Month(d))
  <2>1. CASE Day(d) + n > DaysInMonth(Year(d), Month(d))
    BY <2>1, IntoNextMonth
  <2>2. CASE ~(Day(d) + n > DaysInMonth(Year(d), Month(d)))
    <3>1. Day(d) + n <= DaysInMonth(Year(d), Month(d)) /\ n \in Nat
      BY <1>1, <2>2
    <3>2. AddDays(d, n) = <<Year(d), Month(d), Day(d) + n>>
      BY <3>1, SameMonth
    <3>3. Month(AddDays(d, n)) = Month(d)
      BY <3>2 DEF Month
    <3> QED BY <2>2, <3>3
  <2> QED BY <2>1, <2>2
<1>3. EndsMonth(d) <=> Day(d) + 1 > DaysInMonth(Year(d), Month(d))
  BY <1>2 DEF EndsMonth
<1> QED BY <1>1, <1>2, <1>3

-----------------------------------------------------------------------------
(* Rules and the policy table.                                             *)

(* A rule as the store keeps it: fields of their types, and valid.         *)
Rules == [freq : {"daily", "weekly", "monthly", "yearly"}, interval : Nat \ {0},
          weekdays : SUBSET (0 .. 6), ordinal : Int, monthday : Int, lastDay : BOOLEAN,
          until : {d \in Int \X Int \X Int : d = NoDate \/ IsDate(d)}, dtstart : Int \X Int \X Int]
IsRule(r) == r \in Rules /\ IsDate(r.dtstart) /\ Valid(r)

(* The policy table again, of any rule: the period a date is in, counted   *)
(* in days, weeks, months or years, and which days of a period it picks.   *)
Unit(r, d) ==
    CASE r.freq = "daily"   -> DayNumber(d)
      [] r.freq = "weekly"  -> Week(d)
      [] r.freq = "monthly" -> Months(d)
      [] r.freq = "yearly"  -> Year(d)

PicksMonthly(r, d) ==
    CASE r.lastDay -> EndsMonth(d)
      [] r.monthday # Unset -> Day(d) = r.monthday
      [] r.ordinal = -1 -> Weekday(d) \in r.weekdays /\ Month(AddDays(d, 7)) # Month(d)
      [] OTHER -> Weekday(d) \in r.weekdays /\ (Day(d) + 6) \div 7 = r.ordinal

PicksYearly(r, d) ==
    LET birthday == <<Month(r.dtstart), Day(r.dtstart)>>
    IN  \/ <<Month(d), Day(d)>> = birthday
        \/ birthday = <<2, 29>> /\ <<Month(d), Day(d)>> = <<2, 28>> /\ EndsMonth(d)

Picks(r, d) ==
    CASE r.freq = "daily"   -> TRUE
      [] r.freq = "weekly"  -> Weekday(d) \in (IF r.weekdays = {} THEN {Weekday(r.dtstart)}
                                               ELSE r.weekdays)
      [] r.freq = "monthly" -> PicksMonthly(r, d)
      [] r.freq = "yearly"  -> PicksYearly(r, d)

Falls(r, d) == (Unit(r, d) - Unit(r, r.dtstart)) % r.interval = 0 /\ Picks(r, d)
DueUnder(r, d) ==
    ~Before(d, r.dtstart) /\ (r.until = NoDate \/ ~After(d, r.until)) /\ Falls(r, d)

(* Due is DueUnder the rule of the state.                                  *)
LEMMA DueIs ==
    ASSUME NEW d, rule.freq \in {"daily", "weekly", "monthly", "yearly"}
    PROVE  Due(d) <=> DueUnder(rule, d)
<1>1. CASE rule.freq = "daily"
  BY <1>1 DEF Due, DueUnder, Falls, Unit, Picks, Every, DaysUntil
<1>2. CASE rule.freq = "weekly"
  BY <1>2 DEF Due, DueUnder, Falls, Unit, Picks, Every
<1>3. CASE rule.freq = "monthly"
  <2>1. MonthlyDue(d) <=> PicksMonthly(rule, d)
    BY DEF MonthlyDue, PicksMonthly
  <2> QED BY <1>3, <2>1 DEF Due, DueUnder, Falls, Unit, Picks, Every
<1>4. CASE rule.freq = "yearly"
  <2>1. YearlyDue(d) <=> PicksYearly(rule, d)
    BY DEF YearlyDue, PicksYearly
  <2> QED BY <1>4, <2>1 DEF Due, DueUnder, Falls, Unit, Picks, Every
<1> QED BY <1>1, <1>2, <1>3, <1>4

(* The fields of a rule.                                                   *)
LEMMA RuleFields ==
    ASSUME NEW r, IsRule(r)
    PROVE  /\ r.freq \in {"daily", "weekly", "monthly", "yearly"} /\ r.interval \in Nat /\ r.interval >= 1
           /\ r.weekdays \subseteq 0 .. 6 /\ r.ordinal \in Int /\ r.monthday \in Int /\ r.lastDay \in BOOLEAN
           /\ r.until = NoDate \/ IsDate(r.until)
           /\ IsDate(r.dtstart) /\ Valid(r)
BY DEF IsRule, Rules

(* Periods are numbered.                                                   *)
LEMMA UnitIs ==
    ASSUME NEW r, IsRule(r), NEW d, IsDate(d)
    PROVE  Unit(r, d) \in Int
<1>1. Year(d) \in Int /\ DayNumber(d) \in Int /\ Week(d) \in Int /\ Months(d) \in Int
  BY Parts, DateOfNumber, Weeks, MonthsIs
<1> QED BY <1>1, RuleFields DEF Unit

(* A later date is in no earlier period, and the days between two dates    *)
(* are at least those of the whole periods between them.                   *)
UnitDays(r) ==
    CASE r.freq = "daily" -> 1 [] r.freq = "weekly" -> 7
      [] r.freq = "monthly" -> 28 [] r.freq = "yearly" -> 365

LEMMA UnitsApart ==
    ASSUME NEW r, IsRule(r), NEW d, IsDate(d), NEW o, IsDate(o), ~Before(o, d)
    PROVE  /\ Unit(r, d) <= Unit(r, o)
           /\ UnitDays(r) * (Unit(r, o) - Unit(r, d) - 1) <= DayNumber(o) - DayNumber(d)
           /\ UnitDays(r) \in Nat \ {0}
<1>1. PICK i, j \in Int : i = DayNumber(d) /\ j = DayNumber(o)
  BY DateOfNumber
<1>2. i <= j
  BY <1>1, BeforeIs
<1>3. CASE r.freq = "daily"
  BY <1>1, <1>2, <1>3 DEF Unit, UnitDays
<1>4. CASE r.freq = "weekly"
  <2>1. PICK v, w, x, y \in Int : v = Week(d) /\ w = Week(o)
           /\ x = MondayOffset(Weekday(d)) /\ y = MondayOffset(Weekday(o))
    BY Weeks
  <2>2. x \in 0 .. 6 /\ y \in 0 .. 6 /\ i = 7 * v + x - 3 /\ j = 7 * w + y - 3
    BY <1>1, <2>1, Weeks
  <2>3. v <= w /\ 7 * (w - v - 1) <= j - i
    BY <1>2, <2>1, <2>2
  <2> QED BY <1>1, <1>4, <2>1, <2>3 DEF Unit, UnitDays
<1>5. CASE r.freq = "monthly"
  <2>1. PICK v, w \in Int : v = Months(d) /\ w = Months(o)
    BY MonthsIs
  <2>2. v <= w
    <3>1. Year(d) \in Int /\ Year(o) \in Int /\ Month(d) \in 1 .. 12 /\ Month(o) \in 1 .. 12
      BY Parts
    <3>2. Year(d) < Year(o) \/ (Year(d) = Year(o) /\ Month(d) <= Month(o))
      BY <3>1, Parts DEF Before
    <3> QED BY <2>1, <3>1, <3>2 DEF Months
  <2>3. CASE v = w
    BY <1>1, <1>2, <1>5, <2>1, <2>2, <2>3 DEF Unit, UnitDays
  <2>4. CASE v < w
    <3> DEFINE f == NextMonth(Year(d), Month(d))
               g == <<Year(o), Month(o), 1>>
    <3>1. IsDate(f) /\ Day(f) = 1 /\ Months(f) = v + 1
      BY <2>1, NextMonthIs
    <3>2. IsDate(g) /\ Day(g) = 1 /\ Months(g) = w
      BY <2>1, FirstOfMonth
    <3>3. PICK a, b \in Int : a = DayNumber(f) /\ b = DayNumber(g)
      BY <3>1, <3>2, DateOfNumber
    <3>4. i < a
      <4>1. a = i + DaysInMonth(Year(d), Month(d)) - Day(d) + 1
        BY <1>1, <3>3, NextMonthIs
      <4>2. Day(d) \in Int /\ DaysInMonth(Year(d), Month(d)) \in Int
            /\ Day(d) <= DaysInMonth(Year(d), Month(d))
        BY Parts, MonthLengths
      <4> QED BY <4>1, <4>2
    <3>5. b <= j
      <4>1. j = b + Day(o) - 1
        BY <1>1, <3>3, FirstOfMonth
      <4>2. Day(o) \in 1 .. 31
        BY Parts
      <4> QED BY <4>1, <4>2
    <3>6. 28 * (w - (v + 1)) <= b - a
      <4>1. Months(f) <= Months(g)
        BY <2>4, <3>1, <3>2
      <4> QED BY <3>1, <3>2, <3>3, <4>1, MonthsApart
    <3>7. 28 * (w - v - 1) <= j - i
      BY <2>4, <3>4, <3>5, <3>6
    <3> QED BY <1>1, <1>5, <2>1, <2>2, <3>7 DEF Unit, UnitDays
  <2> QED BY <2>2, <2>3, <2>4
<1>6. CASE r.freq = "yearly"
  <2>1. PICK v, w \in Int : v = Year(d) /\ w = Year(o)
    BY Parts
  <2>2. v <= w
    BY <2>1, Parts DEF Before
  <2>3. CASE v = w
    BY <1>1, <1>2, <1>6, <2>1, <2>2, <2>3 DEF Unit, UnitDays
  <2>4. CASE v < w
    <3> DEFINE f == <<v + 1, 1, 1>>
               g == <<w, 1, 1>>
    <3>1. /\ IsDate(f) /\ Year(f) = v + 1 /\ Month(f) = 1 /\ Day(f) = 1
          /\ IsDate(g) /\ Year(g) = w /\ Month(g) = 1 /\ Day(g) = 1
      <4>1. /\ v + 1 \in Int /\ 1 \in 1 .. 12 /\ 1 \in 1 .. 31
            /\ 1 <= DaysInMonth(v + 1, 1) /\ 1 <= DaysInMonth(w, 1)
        BY MonthLengths
      <4> QED BY <4>1, Made
    <3>2. PICK a, b \in Int : a = DayNumber(f) /\ b = DayNumber(g)
      BY <3>1, DateOfNumber
    <3>3. i < a
      <4>1. Before(d, f)
        BY <2>1, <3>1 DEF Before
      <4> QED BY <1>1, <3>1, <3>2, <4>1, BeforeIs
    <3>4. b <= j
      <4>1. ~Before(o, g)
        BY <2>1, <3>1, Parts DEF Before
      <4> QED BY <1>1, <3>1, <3>2, <4>1, BeforeIs
    <3>5. 365 * (w - (v + 1)) <= b - a
      <4>1. /\ MarchYear(f) = v /\ MarchYear(g) = w - 1 /\ MonthOfYear(f) = 10 /\ MonthOfYear(g) = 10
        BY <3>1, SMT DEF MarchYear, MonthOfYear
      <4>2. PICK x, y, m \in Int : x = YearStart(v) /\ y = YearStart(w - 1) /\ m = MonthStart(10)
        BY SMT DEF YearStart, MonthStart
      <4>3. a = x + m + 1 - 719469 /\ b = y + m + 1 - 719469
        BY <3>1, <3>2, <4>1, <4>2, NumberFlat
      <4>4. v < w - 1 => y - x >= 365 * (w - 1 - v)
        <5>1. w - 1 \in Int
          OBVIOUS
        <5> QED BY <4>2, <5>1, YearsApart
      <4>5. v = w - 1 => x = y
        BY <4>2
      <4> QED BY <2>4, <4>3, <4>4, <4>5
    <3>6. 365 * (w - v - 1) <= j - i
      BY <2>4, <3>3, <3>4, <3>5
    <3> QED BY <1>1, <1>6, <2>1, <2>2, <3>6 DEF Unit, UnitDays
  <2> QED BY <2>2, <2>3, <2>4
<1> QED BY <1>3, <1>4, <1>5, <1>6, RuleFields

-----------------------------------------------------------------------------
(* The days a month's selectors pick.                                      *)

(* A period holds the dates of its unit that the rule picks. *)
DateOf(d, y, m) == IsDate(d) /\ Year(d) = y /\ Month(d) = m

(* LastDayOfMonth is a day of its month.                                   *)
LEMMA LastOfMonth ==
    ASSUME NEW y \in Int, NEW m \in 1 .. 12
    PROVE  LET l == LastDayOfMonth(y, m)
           IN  DateOf(l, y, m) /\ Day(l) = DaysInMonth(y, m)
<1>1. PICK k \in 1 .. 31 : k = DaysInMonth(y, m)
  BY MonthLengths
<1>2. IsDate(<<y, m, k>>) /\ Year(<<y, m, k>>) = y /\ Month(<<y, m, k>>) = m /\ Day(<<y, m, k>>) = k
  <2>1. k <= DaysInMonth(y, m)
    BY <1>1
  <2> QED BY <2>1, Made
<1> QED BY <1>1, <1>2 DEF LastDayOfMonth, DateOf

(* A date is its fields.                                                   *)
LEMMA SameDate ==
    ASSUME NEW d, IsDate(d), NEW o, IsDate(o), Year(d) = Year(o), Month(d) = Month(o), Day(d) = Day(o)
    PROVE  d = o
BY Parts

(* The weekday of a day of a month, from that of another. *)
LEMMA WeekdayInMonth ==
    ASSUME NEW y, NEW m, NEW d, DateOf(d, y, m), NEW o, DateOf(o, y, m)
    PROVE  /\ Weekday(d) \in 0 .. 6 /\ Weekday(o) \in 0 .. 6
           /\ (Weekday(d) - Weekday(o) - (Day(d) - Day(o))) % 7 = 0
<1>1. PICK n, i, j \in Int : n = DayNumber(<<y, m, 1>>) /\ i = Day(d) /\ j = Day(o)
  BY Parts, FirstOfMonth, DateOfNumber DEF DateOf
<1>2. DayNumber(d) = n + i - 1 /\ DayNumber(o) = n + j - 1
  BY <1>1, FirstOfMonth DEF DateOf
<1>3. Weekday(d) = (n + i - 1 + 4) % 7 /\ Weekday(o) = (n + j - 1 + 4) % 7
  BY <1>2 DEF Weekday
<1>4. ASSUME NEW a \in Int, NEW b \in Int, a = (n + i - 1 + 4) % 7, b = (n + j - 1 + 4) % 7
      PROVE  a \in 0 .. 6 /\ b \in 0 .. 6 /\ (a - b - (i - j)) % 7 = 0
  BY <1>4, SMT
<1>5. (n + i - 1 + 4) % 7 \in Int /\ (n + j - 1 + 4) % 7 \in Int
  BY SMT
<1> QED BY <1>1, <1>3, <1>4, <1>5

InPlace(d, y, m, n) ==    \* the last, or the nth, of its weekday
    IF n = -1 THEN Day(d) + 7 > DaysInMonth(y, m) ELSE (Day(d) + 6) \div 7 = n

(* NthWeekdayOfMonth, from the front or the end, finds the day in that     *)
(* place.                                                                  *)
LEMMA NthIs ==
    ASSUME NEW y \in Int, NEW m \in 1 .. 12, NEW wd \in 0 .. 6, NEW n \in (1 .. 5) \cup {-1},
           NEW d
    PROVE  (d # NoDate /\ d = NthWeekdayOfMonth(y, m, wd, n)) <=>
               DateOf(d, y, m) /\ Weekday(d) = wd /\ InPlace(d, y, m, n)
<1> DEFINE first == <<y, m, 1>>
           last == LastDayOfMonth(y, m)
<1>1. PICK e \in 28 .. 31 : e = DaysInMonth(y, m)
  BY MonthLengths
<1>2. DateOf(first, y, m) /\ Day(first) = 1
  <2>1. 1 \in 1 .. 31 /\ 1 <= DaysInMonth(y, m)
    BY <1>1
  <2> QED BY <2>1, Made DEF DateOf
<1>3. DateOf(last, y, m) /\ Day(last) = e
  BY <1>1, LastOfMonth
<1>4. PICK p, q \in 0 .. 6 : p = Weekday(first) /\ q = Weekday(last)
  BY <1>2, <1>3, Weeks DEF DateOf
<1>5. PICK k \in Int : k = IF n > 0 THEN 1 + ((wd - p) % 7) + (n - 1) * 7
                                    ELSE e - ((q - wd) % 7) + (n + 1) * 7
  <2>1. PICK u, v \in Int : u = (wd - p) % 7 /\ v = (q - wd) % 7
    BY SMT
  <2>2. n \in Int
    OBVIOUS
  <2>3. 1 + u + (n - 1) * 7 \in Int /\ e - v + (n + 1) * 7 \in Int
    BY <2>1, <2>2
  <2> QED BY <2>1, <2>3
<1>6. NthWeekdayOfMonth(y, m, wd, n) = IF k \notin 1 .. e THEN NoDate ELSE <<y, m, k>>
  <2>1. n # 0
    OBVIOUS
  <2> QED BY <1>3, <1>4, <1>5, <2>1 DEF NthWeekdayOfMonth
<1>7. ASSUME NEW o, DateOf(o, y, m), Weekday(o) = wd
      PROVE  /\ Day(o) \in 1 .. e
             /\ (wd - p - (Day(o) - 1)) % 7 = 0 /\ (q - wd - (e - Day(o))) % 7 = 0
  <2>1. Day(o) \in 1 .. e
    BY <1>1, <1>7, Parts DEF DateOf
  <2> QED BY <1>2, <1>3, <1>4, <1>7, <2>1, WeekdayInMonth
<1>8. ASSUME NEW x \in 1 .. e, (wd - p - (x - 1)) % 7 = 0, (q - wd - (e - x)) % 7 = 0
      PROVE  (IF n = -1 THEN x + 7 > e ELSE (x + 6) \div 7 = n) <=> x = k
  <2>1. CASE n = -1
    <3>1. k = e - ((q - wd) % 7)
      BY <1>5, <2>1
    <3>2. x + 7 > e <=> x = k
      BY <1>8, <3>1, SMT
    <3> QED BY <2>1, <3>2
  <2>2. CASE n \in 1 .. 5
    <3>1. k = 1 + ((wd - p) % 7) + (n - 1) * 7
      BY <1>5, <2>2
    <3>2. ((x + 6) \div 7 = n) <=> x = k
      BY <1>8, <2>2, <3>1, SMT
    <3> QED BY <2>2, <3>2
  <2> QED BY <2>1, <2>2
<1>9. ASSUME DateOf(d, y, m), Weekday(d) = wd,
             IF n = -1 THEN Day(d) + 7 > DaysInMonth(y, m) ELSE (Day(d) + 6) \div 7 = n
      PROVE  d # NoDate /\ d = NthWeekdayOfMonth(y, m, wd, n)
  <2>1. Day(d) = k /\ k \in 1 .. e
    BY <1>1, <1>7, <1>8, <1>9
  <2>2. d = <<y, m, k>> /\ d # NoDate
    BY <1>9, <2>1, Parts DEF DateOf
  <2> QED BY <1>6, <2>1, <2>2
<1>10. ASSUME d # NoDate, d = NthWeekdayOfMonth(y, m, wd, n)
       PROVE  /\ DateOf(d, y, m) /\ Weekday(d) = wd
              /\ IF n = -1 THEN Day(d) + 7 > DaysInMonth(y, m) ELSE (Day(d) + 6) \div 7 = n
  <2>1. k \in 1 .. e /\ d = <<y, m, k>>
    BY <1>6, <1>10
  <2>2. DateOf(d, y, m) /\ Day(d) = k
    <3>1. k \in 1 .. 31 /\ k <= DaysInMonth(y, m)
      BY <1>1, <2>1
    <3> QED BY <2>1, <3>1, Made DEF DateOf
  <2>3. PICK w \in 0 .. 6 : w = Weekday(d)
    BY <2>2, Weeks DEF DateOf
  <2>4. (w - p - (k - 1)) % 7 = 0 /\ (q - w - (e - k)) % 7 = 0
    BY <1>2, <1>3, <1>4, <2>2, <2>3, WeekdayInMonth
  <2>5. w = wd
    <3>1. CASE n = -1
      <4>1. k = e - ((q - wd) % 7)
        BY <1>5, <3>1
      <4> QED BY <2>4, <4>1, SMT
    <3>2. CASE n \in 1 .. 5
      <4>1. k = 1 + ((wd - p) % 7) + (n - 1) * 7
        BY <1>5, <3>2
      <4> QED BY <2>4, <3>2, <4>1, SMT
    <3> QED BY <3>1, <3>2
  <2>6. IF n = -1 THEN k + 7 > e ELSE (k + 6) \div 7 = n
    BY <1>8, <2>1, <2>4, <2>5
  <2> QED BY <1>1, <2>2, <2>3, <2>5, <2>6
<1> QED BY <1>9, <1>10 DEF InPlace

(* Which of its three modes a valid monthly rule is in. *)
LEMMA OneMode ==
    ASSUME NEW p \in BOOLEAN, NEW q \in BOOLEAN, NEW u \in BOOLEAN
    PROVE  Cardinality({mode \in {"monthday", "ordinal", "lastDay"} :
                           \/ mode = "monthday" /\ p
                           \/ mode = "ordinal" /\ q
                           \/ mode = "lastDay" /\ u}) = 1
           <=> (p /\ ~q /\ ~u) \/ (~p /\ q /\ ~u) \/ (~p /\ ~q /\ u)
<1> DEFINE M == {mode \in {"monthday", "ordinal", "lastDay"} :
                           \/ mode = "monthday" /\ p
                           \/ mode = "ordinal" /\ q
                           \/ mode = "lastDay" /\ u}
<1>1. IsFiniteSet(M)
  <2>1. IsFiniteSet({"monthday"} \cup {"ordinal"})
    BY FS_Singleton, FS_Union, Zenon
  <2>2. IsFiniteSet(({"monthday"} \cup {"ordinal"}) \cup {"lastDay"})
    BY <2>1, FS_Singleton, FS_Union, Zenon
  <2>3. M \in SUBSET (({"monthday"} \cup {"ordinal"}) \cup {"lastDay"})
    OBVIOUS
  <2> HIDE DEF M
  <2> QED BY <2>2, <2>3, FS_Subset, Zenon
<1>2. Cardinality(M) = 1 <=> \E x : M = {x}
  <2> HIDE DEF M
  <2> QED BY <1>1, FS_Singleton, Zenon
<1>3. (\E x : M = {x}) <=> (p /\ ~q /\ ~u) \/ (~p /\ q /\ ~u) \/ (~p /\ ~q /\ u)
  <2>1. ASSUME NEW x, M = {x}
        PROVE  (p /\ ~q /\ ~u) \/ (~p /\ q /\ ~u) \/ (~p /\ ~q /\ u)
    <3>1. ("monthday" \in M <=> p) /\ ("ordinal" \in M <=> q) /\ ("lastDay" \in M <=> u)
      OBVIOUS
    <3>2. x \in {"monthday", "ordinal", "lastDay"}
      BY <2>1
    <3> HIDE DEF M
    <3> QED BY <2>1, <3>1, <3>2
  <2>2. ASSUME p, ~q, ~u PROVE M = {"monthday"}
    BY <2>2
  <2>3. ASSUME ~p, q, ~u PROVE M = {"ordinal"}
    BY <2>3
  <2>4. ASSUME ~p, ~q, u PROVE M = {"lastDay"}
    BY <2>4
  <2> HIDE DEF M
  <2> QED BY <2>1, <2>2, <2>3, <2>4
<1> QED BY <1>2, <1>3

LEMMA ValidMonthlyIs ==
    ASSUME NEW r, r.lastDay \in BOOLEAN
    PROVE  ValidMonthly(r) <=>
             /\ r.monthday \in (1 .. 31) \cup {Unset}
             /\ r.ordinal \in (1 .. 5) \cup {-1, Unset}
             /\ \/ r.monthday # Unset /\ r.ordinal = Unset /\ r.weekdays = {} /\ ~r.lastDay
                \/ r.monthday = Unset /\ r.ordinal # Unset /\ r.weekdays # {} /\ ~r.lastDay
                \/ r.monthday = Unset /\ r.ordinal = Unset /\ r.weekdays = {} /\ r.lastDay
<1>1. PICK p, q, u \in BOOLEAN : p = (r.monthday # Unset) /\ q = (r.ordinal # Unset) /\ u = r.lastDay
  OBVIOUS
<1>2. {mode \in {"monthday", "ordinal", "lastDay"} :
                       \/ mode = "monthday" /\ r.monthday # Unset
                       \/ mode = "ordinal" /\ r.ordinal # Unset
                       \/ mode = "lastDay" /\ r.lastDay}
      = {mode \in {"monthday", "ordinal", "lastDay"} :
                           \/ mode = "monthday" /\ p
                           \/ mode = "ordinal" /\ q
                           \/ mode = "lastDay" /\ u}
  BY <1>1
<1>3. ValidMonthly(r) <=>
        /\ (r.ordinal # Unset) <=> (r.weekdays # {})
        /\ (p /\ ~q /\ ~u) \/ (~p /\ q /\ ~u) \/ (~p /\ ~q /\ u)
        /\ r.monthday \in (1 .. 31) \cup {Unset}
        /\ r.ordinal \in (1 .. 5) \cup {-1, Unset}
  BY <1>2, OneMode, ZenonT(60) DEF ValidMonthly
<1> QED BY <1>1, <1>3, Zenon

(* MonthDates are the days of the month that the rule picks.               *)
LEMMA MonthDatesIs ==
    ASSUME NEW r, IsRule(r), r.freq = "monthly", NEW y \in Int, NEW m \in 1 .. 12, NEW d
    PROVE  d \in MonthDates(r, y, m) <=> DateOf(d, y, m) /\ PicksMonthly(r, d)
<1>1. /\ r.lastDay \in BOOLEAN /\ r.weekdays \subseteq 0 .. 6 /\ ValidMonthly(r)
  BY RuleFields DEF Valid
<1>2. /\ r.monthday \in (1 .. 31) \cup {Unset}
      /\ r.ordinal \in (1 .. 5) \cup {-1, Unset}
      /\ \/ r.monthday # Unset /\ r.ordinal = Unset /\ r.weekdays = {} /\ ~r.lastDay
         \/ r.monthday = Unset /\ r.ordinal # Unset /\ r.weekdays # {} /\ ~r.lastDay
         \/ r.monthday = Unset /\ r.ordinal = Unset /\ r.weekdays = {} /\ r.lastDay
  BY <1>1, ValidMonthlyIs
<1>3. PICK e \in 28 .. 31 : e = DaysInMonth(y, m)
  BY MonthLengths
<1>4. CASE r.lastDay
  <2>1. DateOf(d, y, m) => (EndsMonth(d) <=> Day(d) = e)
    BY <1>3, EndsMonthIs DEF DateOf
  <2>2. DateOf(d, y, m) /\ Day(d) = e => d = LastDayOfMonth(y, m)
    BY <1>3, LastOfMonth, SameDate DEF DateOf
  <2>3. d = LastDayOfMonth(y, m) => DateOf(d, y, m) /\ Day(d) = e
    BY <1>3, LastOfMonth
  <2>4. d \in MonthDates(r, y, m) <=> d = LastDayOfMonth(y, m)
    BY <1>4 DEF MonthDates
  <2>5. PicksMonthly(r, d) <=> EndsMonth(d)
    BY <1>2, <1>4 DEF PicksMonthly, Unset
  <2> QED BY <2>1, <2>2, <2>3, <2>4, <2>5
<1>5. CASE ~r.lastDay /\ r.monthday # Unset
  <2>1. r.monthday \in 1 .. 31
    BY <1>2, <1>5
  <2>2. ASSUME DateOf(d, y, m), Day(d) = r.monthday
        PROVE  d = <<y, m, r.monthday>> /\ r.monthday \in 1 .. DaysInMonth(y, m)
    BY <1>3, <2>2, Parts DEF DateOf
  <2>3. ASSUME d = <<y, m, r.monthday>>, r.monthday \in 1 .. DaysInMonth(y, m)
        PROVE  DateOf(d, y, m) /\ Day(d) = r.monthday
    <3>1. r.monthday <= DaysInMonth(y, m)
      BY <1>3, <2>3
    <3> QED BY <2>1, <2>3, <3>1, Made DEF DateOf
  <2>4. d \in MonthDates(r, y, m) <=> d = <<y, m, r.monthday>> /\ r.monthday \in 1 .. DaysInMonth(y, m)
    BY <1>5 DEF MonthDates
  <2>5. PicksMonthly(r, d) <=> Day(d) = r.monthday
    BY <1>2, <1>5 DEF PicksMonthly, Unset
  <2> QED BY <2>2, <2>3, <2>4, <2>5
<1>6. CASE ~r.lastDay /\ r.monthday = Unset
  <2>1. r.ordinal \in (1 .. 5) \cup {-1}
    BY <1>2, <1>6
  <2>2. d \in MonthDates(r, y, m) <=>
          \E wd \in r.weekdays : d # NoDate /\ d = NthWeekdayOfMonth(y, m, wd, r.ordinal)
    BY <1>6 DEF MonthDates
  <2>3. ASSUME NEW wd \in r.weekdays
        PROVE  (d # NoDate /\ d = NthWeekdayOfMonth(y, m, wd, r.ordinal)) <=>
                 DateOf(d, y, m) /\ Weekday(d) = wd /\ InPlace(d, y, m, r.ordinal)
    <3>1. wd \in 0 .. 6
      BY <1>1
    <3> QED BY <2>1, <3>1, NthIs
  <2>4. d \in MonthDates(r, y, m) <=>
               /\ DateOf(d, y, m) /\ Weekday(d) \in r.weekdays
               /\ IF r.ordinal = -1 THEN Day(d) + 7 > DaysInMonth(y, m) ELSE (Day(d) + 6) \div 7 = r.ordinal
    BY <2>2, <2>3 DEF InPlace
  <2>5. DateOf(d, y, m) => (Month(AddDays(d, 7)) # Month(d) <=> Day(d) + 7 > DaysInMonth(y, m))
    BY EndsMonthIs DEF DateOf
  <2>6. CASE r.ordinal = -1
    BY <1>6, <2>4, <2>5, <2>6 DEF PicksMonthly
  <2>7. CASE r.ordinal # -1
    BY <1>6, <2>4, <2>7 DEF PicksMonthly
  <2> QED BY <2>6, <2>7
<1> QED BY <1>4, <1>5, <1>6

-----------------------------------------------------------------------------
(* What InPeriod holds, for each frequency.                                *)

(* A period of days is one day.                                            *)
LEMMA DailyPeriod ==
    ASSUME NEW s, IsDate(s), NEW k \in Int, NEW d
    PROVE  d = AddDays(s, k) <=> IsDate(d) /\ DayNumber(d) = DayNumber(s) + k
<1>1. IsDate(AddDays(s, k)) /\ DayNumber(AddDays(s, k)) = DayNumber(s) + k
  BY AddDaysIs
<1>2. ASSUME IsDate(d), DayNumber(d) = DayNumber(s) + k PROVE d = AddDays(s, k)
  BY <1>1, <1>2, SameNumber
<1> QED BY <1>1, <1>2

(* A period of weeks: the picked weekdays of one week, counted from        *)
(* Mondays.                                                                *)
LEMMA WeeklyPeriod ==
    ASSUME NEW s, IsDate(s), NEW k \in Int, NEW W \in SUBSET (0 .. 6), NEW d
    PROVE  d \in {AddDays(MondayOf(s), 7 * k + o) : o \in {MondayOffset(wd) : wd \in W}} <=>
               IsDate(d) /\ Week(d) = Week(s) + k /\ Weekday(d) \in W
<1>1. Week(s) \in Int /\ IsDate(MondayOf(s)) /\ DayNumber(MondayOf(s)) = 7 * Week(s) - 3
  BY Weeks
<1>2. ASSUME NEW wd \in W
      PROVE  d = AddDays(MondayOf(s), 7 * k + MondayOffset(wd)) <=>
               IsDate(d) /\ Week(d) = Week(s) + k /\ Weekday(d) = wd
  <2>1. PICK o \in 0 .. 6 : o = MondayOffset(wd)
    BY MondayOffsets
  <2>2. PICK x \in Int : x = 7 * k + o
    OBVIOUS
  <2>3. d = AddDays(MondayOf(s), x) <=> IsDate(d) /\ DayNumber(d) = 7 * Week(s) - 3 + x
    BY <1>1, DailyPeriod
  <2>4. ASSUME IsDate(d)
        PROVE  DayNumber(d) = 7 * Week(s) - 3 + x <=> Week(d) = Week(s) + k /\ Weekday(d) = wd
    <3>1. PICK w, v \in Int, e \in 0 .. 6, b \in 0 .. 6 :
             w = Week(s) /\ v = Week(d) /\ e = MondayOffset(Weekday(d)) /\ b = Weekday(d)
      BY <1>1, <2>4, Weeks
    <3>2. DayNumber(d) = 7 * v + e - 3
      BY <2>4, <3>1, Weeks
    <3>3. (7 * v + e - 3 = 7 * w - 3 + (7 * k + o)) <=> (v = w + k /\ e = o)
      OBVIOUS
    <3>4. e = o <=> b = wd
      <4>1. wd \in 0 .. 6
        OBVIOUS
      <4> QED BY <2>1, <3>1, <4>1, MondayOffsets
    <3> QED BY <2>2, <3>1, <3>2, <3>3, <3>4
  <2> QED BY <2>1, <2>2, <2>3, <2>4
<1>3. d \in {AddDays(MondayOf(s), 7 * k + o) : o \in {MondayOffset(wd) : wd \in W}} <=>
        \E wd \in W : d = AddDays(MondayOf(s), 7 * k + MondayOffset(wd))
  OBVIOUS
<1> QED BY <1>2, <1>3

(* A period of months is one month, whatever the day the rule started on.  *)
LEMMA MonthlyPeriod ==
    ASSUME NEW s, IsDate(s), NEW k \in Int
    PROVE  LET f == ShiftMonth(s, k)
           IN  /\ Year(f) \in Int /\ Month(f) \in 1 .. 12
               /\ \A d : IsDate(d) =>
                    (Year(d) = Year(f) /\ Month(d) = Month(f) <=> Months(d) = Months(s) + k)
<1>1. PICK yy \in Int, mm \in 1 .. 12 : yy = Year(s) /\ mm = Month(s)
  BY Parts
<1>2. PICK t \in Int : t = mm - 1 + k
  OBVIOUS
<1>3. PICK q \in Int, w \in 0 .. 11 : q = t \div 12 /\ w = t % 12
  BY SMT
<1>4. PICK y \in Int, m \in 1 .. 12 : y = yy + q /\ m = w + 1
  OBVIOUS
<1>5. 12 * y + m = 12 * yy + mm + k
  BY <1>2, <1>3, <1>4, SMT
<1>6. ShiftMonth(s, k) = <<y, m, 1>>
  <2>1. Year(<<yy, mm, 1>>) = yy /\ Month(<<yy, mm, 1>>) = mm /\ Day(<<yy, mm, 1>>) = 1
    BY DEF Year, Month, Day
  <2>2. ~(1 > DaysInMonth(y, m))
    BY MonthLengths
  <2>3. yy + t \div 12 = y /\ (t % 12) + 1 = m
    BY <1>3, <1>4
  <2>4. AddMonths(<<yy, mm, 1>>, k) = <<y, m, 1>>
    BY <1>2, <2>1, <2>2, <2>3, SMT DEF AddMonths
  <2> QED BY <1>1, <2>4 DEF ShiftMonth
<1>7. Year(ShiftMonth(s, k)) = y /\ Month(ShiftMonth(s, k)) = m
  BY <1>6 DEF Year, Month
<1>8. ASSUME NEW d, IsDate(d)
      PROVE  Year(d) = y /\ Month(d) = m <=> Months(d) = Months(s) + k
  <2>1. PICK v \in Int, c \in 1 .. 12 : v = Year(d) /\ c = Month(d)
    BY <1>8, Parts
  <2>2. Months(d) = v * 12 + c /\ Months(s) = yy * 12 + mm
    BY <1>1, <2>1 DEF Months
  <2> QED BY <1>5, <2>1, <2>2
<1> QED BY <1>4, <1>7, <1>8

(* A period of years: the birthday, clamped in a common year.              *)
LEMMA YearlyPeriod ==
    ASSUME NEW r, IsDate(r.dtstart), NEW y \in Int, NEW d
    PROVE  d = YearlyDate(y, Month(r.dtstart), Day(r.dtstart)) <=>
               IsDate(d) /\ Year(d) = y /\ PicksYearly(r, d)
<1>1. PICK m \in 1 .. 12, k \in 1 .. 31 :
         m = Month(r.dtstart) /\ k = Day(r.dtstart) /\ k <= DaysInMonth(Year(r.dtstart), m)
  BY Parts
<1>2. PICK e \in 28 .. 31 : e = DaysInMonth(y, m)
  BY MonthLengths
<1>3. PicksYearly(r, d) <=> \/ Month(d) = m /\ Day(d) = k
                            \/ m = 2 /\ k = 29 /\ Month(d) = 2 /\ Day(d) = 28 /\ EndsMonth(d)
  BY <1>1 DEF PicksYearly
<1>4. CASE k <= e
  <2>1. YearlyDate(y, m, k) = <<y, m, k>>
    BY <1>2, <1>4 DEF YearlyDate
  <2>2. IsDate(<<y, m, k>>) /\ Year(<<y, m, k>>) = y /\ Month(<<y, m, k>>) = m /\ Day(<<y, m, k>>) = k
    BY <1>2, <1>4, Made
  <2>3. IsDate(d) /\ Year(d) = y /\ Month(d) = m /\ Day(d) = k => d = <<y, m, k>>
    BY <2>2, SameDate
  <2>4. ASSUME IsDate(d), Year(d) = y, m = 2, k = 29, Month(d) = 2, Day(d) = 28, EndsMonth(d)
        PROVE  FALSE
    <3>1. DaysInMonth(y, m) = 28
      BY <2>4, EndsMonthIs
    <3> QED BY <1>2, <1>4, <2>4, <3>1
  <2> QED BY <1>1, <1>3, <2>1, <2>2, <2>3, <2>4
<1>5. CASE k > e
  <2>1. YearlyDate(y, m, k) = LastDayOfMonth(y, m)
    BY <1>2, <1>5 DEF YearlyDate
  <2>2. m = 2 /\ k = 29 /\ e = 28
    BY <1>1, <1>2, <1>5, SMT DEF DaysInMonth
  <2>3. DateOf(LastDayOfMonth(y, m), y, m) /\ Day(LastDayOfMonth(y, m)) = 28
    BY <1>2, <2>2, LastOfMonth
  <2>4. EndsMonth(LastDayOfMonth(y, m))
    BY <1>2, <2>2, <2>3, EndsMonthIs DEF DateOf
  <2>5. IsDate(d) /\ Year(d) = y /\ Month(d) = m => Day(d) <= 28
    BY <1>2, <2>2, Parts
  <2>6. IsDate(d) /\ Year(d) = y /\ Month(d) = 2 /\ Day(d) = 28 => d = LastDayOfMonth(y, m)
    BY <2>2, <2>3, SameDate DEF DateOf
  <2>7. d = LastDayOfMonth(y, m) => IsDate(d) /\ Year(d) = y /\ Month(d) = 2 /\ Day(d) = 28 /\ EndsMonth(d)
    BY <2>2, <2>3, <2>4 DEF DateOf
  <2> QED BY <1>1, <1>3, <2>1, <2>2, <2>5, <2>6, <2>7
<1> QED BY <1>4, <1>5

(* A period holds the dates of its unit that the rule picks.               *)
LEMMA PeriodIs ==
    ASSUME NEW r, IsRule(r), NEW n \in Int, NEW d
    PROVE  d \in InPeriod(r, n) <=>
               /\ IsDate(d) /\ Unit(r, d) = Unit(r, r.dtstart) + n * r.interval
               /\ Picks(r, d)
<1>1. PICK k \in Int : k = n * r.interval
  BY RuleFields, SMT
<1>2. IsDate(r.dtstart) /\ r.weekdays \subseteq 0 .. 6
  BY RuleFields
<1>3. CASE r.freq = "daily"
  <2>1. d \in InPeriod(r, n) <=> d = AddDays(r.dtstart, k)
    BY <1>1, <1>3 DEF InPeriod
  <2>2. d = AddDays(r.dtstart, k) <=> IsDate(d) /\ DayNumber(d) = DayNumber(r.dtstart) + k
    BY <1>2, DailyPeriod
  <2> QED BY <1>1, <1>3, <2>1, <2>2 DEF Unit, Picks
<1>4. CASE r.freq = "weekly"
  <2> DEFINE W == IF r.weekdays = {} THEN {Weekday(r.dtstart)} ELSE r.weekdays
  <2>1. W \in SUBSET (0 .. 6)
    BY <1>2, Weeks
  <2>2. InPeriod(r, n) = {AddDays(MondayOf(r.dtstart), 7 * k + o) : o \in {MondayOffset(wd) : wd \in W}}
    BY <1>1, <1>4 DEF InPeriod, WeeklyOffsets
  <2>3. Picks(r, d) <=> Weekday(d) \in W
    BY <1>4 DEF Picks
  <2>4. Unit(r, d) = Week(d) /\ Unit(r, r.dtstart) = Week(r.dtstart)
    BY <1>4 DEF Unit
  <2> HIDE DEF W
  <2> QED BY <1>1, <1>2, <2>1, <2>2, <2>3, <2>4, WeeklyPeriod
<1>5. CASE r.freq = "monthly"
  <2> DEFINE f == ShiftMonth(r.dtstart, k)
  <2>1. InPeriod(r, n) = MonthDates(r, Year(f), Month(f))
    BY <1>1, <1>5 DEF InPeriod
  <2>2. Picks(r, d) <=> PicksMonthly(r, d)
    BY <1>5 DEF Picks
  <2>3. Unit(r, d) = Months(d) /\ Unit(r, r.dtstart) = Months(r.dtstart)
    BY <1>5 DEF Unit
  <2>4. /\ Year(f) \in Int /\ Month(f) \in 1 .. 12
        /\ \A o : IsDate(o) =>
             (Year(o) = Year(f) /\ Month(o) = Month(f) <=> Months(o) = Months(r.dtstart) + k)
    BY <1>2, MonthlyPeriod
  <2> HIDE DEF f
  <2>5. d \in InPeriod(r, n) <=> DateOf(d, Year(f), Month(f)) /\ PicksMonthly(r, d)
    BY <1>5, <2>1, <2>4, MonthDatesIs
  <2>6. DateOf(d, Year(f), Month(f)) <=> IsDate(d) /\ Months(d) = Months(r.dtstart) + k
    BY <2>4 DEF DateOf
  <2> QED BY <1>1, <2>2, <2>3, <2>5, <2>6
<1>6. CASE r.freq = "yearly"
  <2>1. PICK y \in Int : y = Year(r.dtstart) + k
    BY <1>2, Parts
  <2>2. InPeriod(r, n) = {YearlyDate(y, Month(r.dtstart), Day(r.dtstart))}
    BY <1>1, <1>6, <2>1 DEF InPeriod
  <2>3. Picks(r, d) <=> PicksYearly(r, d)
    BY <1>6 DEF Picks
  <2>4. Unit(r, d) = Year(d) /\ Unit(r, r.dtstart) = Year(r.dtstart)
    BY <1>6 DEF Unit
  <2> QED BY <1>1, <1>2, <2>1, <2>2, <2>3, <2>4, YearlyPeriod
<1> QED BY <1>3, <1>4, <1>5, <1>6, RuleFields

-----------------------------------------------------------------------------
(* The periods an expansion walks.                                         *)

(* Multiples keep the order.                                               *)
LEMMA Multiples ==
    ASSUME NEW p \in Nat, p >= 1, NEW n \in Int, NEW m \in Int
    PROVE  /\ n * p \in Int /\ m * p \in Int
           /\ n < m => n * p + p <= m * p
           /\ n <= m <=> n * p <= m * p
           /\ n * p = m * p => n = m
<1>1. ASSUME NEW a \in Int, NEW b \in Int, a < b PROVE a * p + p <= b * p
  <2>1. (a + 1) * p <= b * p
    <3>1. a + 1 <= b
      BY <1>1
    <3> QED BY <3>1, SMT
  <2>2. (a + 1) * p = a * p + p
    BY SMT
  <2> QED BY <2>1, <2>2
<1>2. n * p \in Int /\ m * p \in Int
  BY SMT
<1>3. n < m \/ n = m \/ m < n
  OBVIOUS
<1> QED BY <1>1, <1>2, <1>3

(* Division rounds down.                                                   *)
LEMMA Quotient ==
    ASSUME NEW t \in Int, NEW p \in Nat, p >= 1
    PROVE  /\ t \div p \in Int
           /\ (t \div p) * p <= t /\ t < (t \div p) * p + p
           /\ \A n \in Int : n * p <= t <=> n <= t \div p
           /\ t % p = 0 => (t \div p) * p = t
<1>1. PICK q \in Int : q = t \div p
  BY SMT
<1>2. q * p <= t /\ t < q * p + p /\ (t % p = 0 => q * p = t)
  BY <1>1, SMT
<1>3. ASSUME NEW n \in Int PROVE n * p <= t <=> n <= q
  <2>1. n * p \in Int /\ q * p \in Int
    BY Multiples
  <2>2. CASE n <= q
    <3>1. n * p <= q * p
      BY <2>2, Multiples
    <3> QED BY <1>2, <2>1, <2>2, <3>1
  <2>3. CASE q < n
    <3>1. q * p + p <= n * p
      BY <2>3, Multiples
    <3> QED BY <1>2, <2>1, <2>3, <3>1
  <2> QED BY <2>2, <2>3
<1> QED BY <1>1, <1>2, <1>3

LEMMA MultipleOf ==
    ASSUME NEW n \in Int, NEW p \in Nat, p >= 1
    PROVE  (n * p) % p = 0
<1>1. n * p \in Int
  BY Multiples
<1>2. PICK t \in Int : t = n * p
  BY <1>1
<1>3. PICK q \in Int : q = t \div p
  BY SMT
<1>4. q * p <= t /\ t < q * p + p
  BY <1>3, Quotient
<1>5. n <= q
  BY <1>2, <1>3, Quotient
<1>6. ~(n < q)
  BY <1>2, <1>4, Multiples
<1>7. t = q * p + (t % p) /\ t % p \in Int
  BY <1>3, SMT
<1>8. n = q
  BY <1>5, <1>6
<1> QED BY <1>2, <1>7, <1>8

(* Skip is the first period that is not all before lo.                     *)
LEMMA SkipIs ==
    ASSUME NEW r, IsRule(r), NEW lo, IsDate(lo), ~Before(lo, r.dtstart)
    PROVE  /\ Skip(r, lo) \in Nat
           /\ \A n \in Int : n >= Skip(r, lo) <=>
                  Unit(r, r.dtstart) + n * r.interval >= Unit(r, lo)
<1>1. IsDate(r.dtstart) /\ r.interval \in Nat /\ r.interval >= 1
  BY RuleFields
<1>2. PICK u, v \in Int : u = Unit(r, r.dtstart) /\ v = Unit(r, lo)
  BY <1>1, UnitIs
<1>3. u <= v
  BY <1>1, <1>2, UnitsApart
<1>4. PICK p \in Nat : p = r.interval /\ p >= 1
  BY <1>1
<1>5. Skip(r, lo) = CeilDiv(Max0(v - u), p)
  <2>1. CASE r.freq = "daily"
    BY <1>2, <1>4, <2>1 DEF Skip, Unit, DaysUntil
  <2>2. CASE r.freq = "weekly"
    <3>1. PICK a, b \in Int : a = Week(r.dtstart) /\ b = Week(lo)
      BY <1>1, Weeks
    <3>2. DaysUntil(MondayOf(r.dtstart), MondayOf(lo)) = (7 * b - 3) - (7 * a - 3)
      BY <1>1, <3>1, Weeks DEF DaysUntil
    <3>3. DaysUntil(MondayOf(r.dtstart), MondayOf(lo)) \div 7 = b - a
      BY <3>2, SMT
    <3>4. a = u /\ b = v
      BY <1>2, <2>2, <3>1 DEF Unit
    <3> QED BY <1>4, <2>2, <3>3, <3>4 DEF Skip
  <2>3. CASE r.freq = "monthly"
    <3>1. PICK a, b, x, y \in Int : a = Year(r.dtstart) /\ b = Year(lo)
            /\ x = Month(r.dtstart) /\ y = Month(lo)
      BY <1>1, Parts
    <3>2. u = a * 12 + x /\ v = b * 12 + y
      BY <1>2, <2>3, <3>1 DEF Unit, Months
    <3>3. (b - a) * 12 + y - x = v - u
      BY <3>2
    <3> QED BY <1>4, <2>3, <3>1, <3>3 DEF Skip
  <2>4. CASE r.freq = "yearly"
    BY <1>2, <1>4, <2>4 DEF Skip, Unit
  <2> QED BY <2>1, <2>2, <2>3, <2>4, RuleFields
<1>6. PICK g \in Nat : g = v - u
  BY <1>3
<1>7. PICK t \in Nat : t = g + p - 1
  BY <1>4
<1>8. Skip(r, lo) = t \div p
  <2>1. Max0(v - u) = g
    BY <1>6 DEF Max0
  <2>2. g + p - 1 = t
    BY <1>7
  <2> QED BY <1>5, <2>1, <2>2 DEF CeilDiv
<1>9. PICK k \in Int : k = t \div p
  BY <1>4, Quotient
<1>10. k * p <= t /\ t < k * p + p
  <2>1. (t \div p) * p <= t /\ t < (t \div p) * p + p
    <3>1. t \in Int
      BY <1>7
    <3> QED BY <1>4, <3>1, Quotient, Zenon
  <2> QED BY <1>9, <2>1
<1>11. k \in Nat
  <2>1. 0 * p <= t
    BY <1>4
  <2> QED BY <1>4, <1>9, <2>1, Quotient
<1>12. ASSUME NEW n \in Int PROVE n >= k <=> u + n * p >= v
  <2>1. n * p \in Int /\ k * p \in Int
    BY <1>4, Multiples
  <2>2. CASE k <= n
    <3>1. k * p <= n * p
      BY <1>4, <2>2, Multiples
    <3> QED BY <1>6, <1>7, <1>10, <2>1, <2>2, <3>1
  <2>3. CASE n < k
    <3>1. n * p + p <= k * p
      BY <1>4, <2>3, Multiples
    <3> QED BY <1>4, <1>6, <1>7, <1>10, <2>1, <2>3, <3>1
  <2> QED BY <2>2, <2>3
<1> QED BY <1>2, <1>4, <1>8, <1>9, <1>11, <1>12

(* The periods walked are consecutive, and how many.                       *)
LEMMA PeriodsAre ==
    ASSUME NEW r, IsRule(r), NEW lo, IsDate(lo), ~Before(lo, r.dtstart), NEW hi, IsDate(hi)
    PROVE  \E last \in Int : last >= Skip(r, lo) /\ Periods(r, lo, hi) = Skip(r, lo) .. last
               /\ last = Skip(r, lo) + Max0(DaysUntil(lo, hi)) \div PeriodDays(r) + 2
               /\ PeriodDays(r) = r.interval * UnitDays(r) /\ PeriodDays(r) \in Nat /\ PeriodDays(r) >= 1
<1>1. Skip(r, lo) \in Nat
  BY SkipIs
<1>2. PeriodDays(r) = r.interval * UnitDays(r)
  BY DEF PeriodDays, UnitDays
<1>3. UnitDays(r) \in Nat \ {0}
  BY RuleFields DEF UnitDays
<1>4. PICK p, q \in Nat : p = r.interval /\ q = UnitDays(r) /\ p >= 1 /\ q >= 1
  BY <1>3, RuleFields
<1>5. PICK w \in Nat : w = p * q /\ w >= 1
  BY <1>4, SMT
<1>6. PICK x \in Nat : x = Max0(DaysUntil(lo, hi))
  BY DateOfNumber DEF Max0, DaysUntil
<1>7. PICK e \in Int : e = x \div w
  BY <1>5, Quotient
<1>8. 0 <= e
  <2>1. 0 * w <= x
    BY <1>5
  <2> QED BY <1>5, <1>7, <2>1, Quotient
<1>9. PICK last \in Int : last = Skip(r, lo) + e + 2
  BY <1>1
<1> QED BY <1>1, <1>2, <1>4, <1>5, <1>6, <1>7, <1>8, <1>9 DEF Periods

(* What is kept of a period: its dates in the window. (Daily rules need no *)
(* test against lo.)                                                       *)
LEMMA WithinIs ==
    ASSUME NEW r, IsRule(r), NEW lo, IsDate(lo), ~Before(lo, r.dtstart), NEW hi,
           NEW n \in Int, n >= Skip(r, lo), NEW d
    PROVE  d \in Within(r, n, lo, hi) <=>
               /\ IsDate(d) /\ Unit(r, d) = Unit(r, r.dtstart) + n * r.interval /\ Picks(r, d)
               /\ ~Before(d, lo) /\ ~Before(hi, d)
<1>1. d \in InPeriod(r, n) <=>
               /\ IsDate(d) /\ Unit(r, d) = Unit(r, r.dtstart) + n * r.interval /\ Picks(r, d)
  BY PeriodIs
<1>2. ASSUME r.freq = "daily", IsDate(d), Unit(r, d) = Unit(r, r.dtstart) + n * r.interval
      PROVE  ~Before(d, lo)
  <2>1. Unit(r, d) >= Unit(r, lo)
    BY <1>2, SkipIs
  <2>2. DayNumber(d) >= DayNumber(lo)
    BY <1>2, <2>1 DEF Unit
  <2>3. DayNumber(d) \in Int /\ DayNumber(lo) \in Int
    BY <1>2, DateOfNumber
  <2> QED BY <1>2, <2>2, <2>3, BeforeIs
<1>3. d \in Within(r, n, lo, hi) <=>
         d \in InPeriod(r, n) /\ (r.freq = "daily" \/ ~Before(d, lo)) /\ ~Before(hi, d)
  BY DEF Within, After
<1> QED BY <1>1, <1>2, <1>3

(* What an expansion looks for: the dates of the rule from lo to hi. *)
FallsIn(r, d, lo, hi) == IsDate(d) /\ Falls(r, d) /\ ~Before(d, lo) /\ ~Before(hi, d)

(* What a period keeps is of the rule and in the window ...                *)
LEMMA WithinFalls ==
    ASSUME NEW r, IsRule(r), NEW lo, IsDate(lo), ~Before(lo, r.dtstart), NEW hi,
           NEW n \in Int, n >= Skip(r, lo), NEW d \in Within(r, n, lo, hi)
    PROVE  FallsIn(r, d, lo, hi)
<1>1. /\ IsDate(d) /\ Unit(r, d) = Unit(r, r.dtstart) + n * r.interval /\ Picks(r, d)
      /\ ~Before(d, lo) /\ ~Before(hi, d)
  BY WithinIs
<1>2. r.interval \in Nat /\ r.interval >= 1 /\ IsDate(r.dtstart)
  BY RuleFields
<1>3. Unit(r, d) - Unit(r, r.dtstart) = n * r.interval
  BY <1>1, <1>2, UnitIs, Multiples
<1>4. (n * r.interval) % r.interval = 0
  BY <1>2, MultipleOf
<1> QED BY <1>1, <1>3, <1>4 DEF FallsIn, Falls

(* ... and every such date is kept by one of the periods walked.           *)
LEMMA FallsWithin ==
    ASSUME NEW r, IsRule(r), NEW lo, IsDate(lo), ~Before(lo, r.dtstart), NEW hi, IsDate(hi),
           NEW d, FallsIn(r, d, lo, hi)
    PROVE  \E n \in Periods(r, lo, hi) : d \in Within(r, n, lo, hi)
<1>1. PICK p \in Nat : p = r.interval /\ p >= 1
  BY RuleFields
<1>2. PICK s, u, v, h \in Int :
         s = Unit(r, r.dtstart) /\ u = Unit(r, lo) /\ v = Unit(r, d) /\ h = Unit(r, hi)
  BY UnitIs, RuleFields DEF FallsIn
<1>3. PICK n \in Int : v - s = n * p
  <2>1. (v - s) % p = 0 /\ v - s \in Int
    BY <1>1, <1>2 DEF FallsIn, Falls
  <2> QED BY <1>1, <2>1, Quotient
<1>4. PICK k \in Nat : k = Skip(r, lo)
  BY SkipIs
<1>5. u <= v /\ v <= h
  BY <1>2, UnitsApart DEF FallsIn
<1>6. n * p \in Int /\ k * p \in Int
  BY <1>1, Multiples
<1>7. n >= k
  <2>1. s + n * p >= u
    BY <1>3, <1>5, <1>6
  <2> QED BY <1>1, <1>2, <1>4, <2>1, SkipIs
<1>8. d \in Within(r, n, lo, hi)
  <2>1. v = s + n * p
    BY <1>3, <1>6
  <2> QED BY <1>1, <1>2, <1>4, <1>7, <2>1, WithinIs DEF FallsIn, Falls
<1>9. PICK last \in Int : /\ Periods(r, lo, hi) = k .. last
               /\ last = k + Max0(DaysUntil(lo, hi)) \div PeriodDays(r) + 2
               /\ PeriodDays(r) = r.interval * UnitDays(r) /\ PeriodDays(r) \in Nat /\ PeriodDays(r) >= 1
  BY <1>4, PeriodsAre
<1>10. n <= last
  <2>1. PICK q \in Nat : q = UnitDays(r) /\ q >= 1
    BY UnitsApart, RuleFields DEF UnitDays
  <2>2. PICK x \in Int : x = DayNumber(hi) - DayNumber(lo)
    BY DateOfNumber
  <2>3. ~Before(hi, lo)
    BY BeforeIs, DateOfNumber DEF FallsIn
  <2>4. q * (h - u - 1) <= x
    BY <1>2, <2>1, <2>2, <2>3, UnitsApart
  <2>5. x >= 0
    BY <2>2, <2>3, BeforeIs, DateOfNumber
  <2>6. Max0(DaysUntil(lo, hi)) = x
    BY <2>2, <2>5 DEF Max0, DaysUntil
  <2>7. PICK w \in Nat : w = PeriodDays(r) /\ w = p * q /\ w >= 1
    BY <1>1, <1>9, <2>1
  <2>8. (n - k - 1) * p <= h - u - 1
    <3>1. s + k * p >= u
      BY <1>1, <1>2, <1>4, SkipIs
    <3>2. (n - k - 1) * p = n * p - k * p - p
      BY SMT
    <3> QED BY <1>1, <1>3, <1>5, <1>6, <3>1, <3>2
  <2>9. (n - k - 1) * w <= x
    <3>1. PICK a, b \in Int : a = (n - k - 1) * p /\ b = h - u - 1
      BY SMT
    <3>2. a <= b
      BY <2>8, <3>1
    <3>3. a * q <= b * q
      BY <2>1, <3>2, Multiples
    <3>4. (n - k - 1) * w = a * q
      BY <2>7, <3>1, SMT
    <3>5. b * q = q * (h - u - 1) /\ a * q \in Int /\ b * q \in Int
      BY <3>1, SMT
    <3> QED BY <2>4, <3>3, <3>4, <3>5
  <2>10. n - k - 1 <= x \div w
    <3>1. n - k - 1 \in Int
      OBVIOUS
    <3> QED BY <2>7, <2>9, <3>1, Quotient
  <2>11. x \div w \in Int
    BY <2>7, Quotient
  <2>12. last = k + (x \div w) + 2
    BY <1>9, <2>6, <2>7
  <2> QED BY <2>10, <2>11, <2>12
<1> QED BY <1>7, <1>8, <1>9, <1>10

-----------------------------------------------------------------------------
(* What a period yields, in order.                                         *)

(* A set of natural numbers has a least one.                               *)
LEMMA LeastOf ==
    ASSUME NEW S \in SUBSET Nat, S # {}
    PROVE  \E m \in S : \A n \in S : m <= n
<1>1. \E m \in S : \A n \in S : ~ (<<n, m>> \in OpToRel(<, Nat))
  BY NatLessThanWellFounded, WFMin
<1>2. PICK m \in S : \A n \in S : ~ (<<n, m>> \in OpToRel(<, Nat))
  BY <1>1
<1>3. \A n \in S : <<n, m>> \in Nat \X Nat
  OBVIOUS
<1>4. \A n \in S : ~ (n < m)
  BY <1>2, <1>3 DEF OpToRel
<1> QED BY <1>4

Ascending(s) == \A i, j \in 1 .. Len(s) : i < j => Before(s[i], s[j])
Holds(s, d) == \E i \in 1 .. Len(s) : s[i] = d

(* Before is a strict total order on dates. *)
LEMMA BeforeOrders ==
    ASSUME NEW d, IsDate(d), NEW e, IsDate(e)
    PROVE  /\ ~Before(d, d)
           /\ Before(d, e) => ~Before(e, d) /\ d # e
           /\ d # e => Before(d, e) \/ Before(e, d)
           /\ \A f : IsDate(f) /\ Before(d, e) /\ Before(e, f) => Before(d, f)
           /\ \A f : IsDate(f) /\ ~Before(d, e) /\ ~Before(e, f) => ~Before(d, f)
<1>1. DayNumber(d) \in Int /\ DayNumber(e) \in Int
  BY DateOfNumber
<1>2. ASSUME NEW f, IsDate(f)
      PROVE  /\ Before(d, e) /\ Before(e, f) => Before(d, f)
             /\ ~Before(d, e) /\ ~Before(e, f) => ~Before(d, f)
  <2>1. DayNumber(f) \in Int
    BY <1>2, DateOfNumber
  <2> QED BY <1>1, <1>2, <2>1, BeforeIs
<1>3. d # e => DayNumber(d) # DayNumber(e)
  BY SameNumber
<1> QED BY <1>1, <1>2, <1>3, BeforeIs

(* A finite set of dates has one ascending enumeration: its dates by rank. *)
Below(D, d) == {e \in D : Before(e, d)}
Rank(D, d) == Cardinality(Below(D, d))

(* InOrder enumerates a set of dates upwards.                              *)
LEMMA InOrderIs ==
    ASSUME NEW D, IsFiniteSet(D), \A d \in D : IsDate(d)
    PROVE  /\ InOrder(D) \in Seq(D) /\ Ascending(InOrder(D))
           /\ \A d : Holds(InOrder(D), d) <=> d \in D
<1>1. PICK n \in Nat : n = Cardinality(D)
  BY FS_CardinalityType
<1>2. ASSUME NEW d \in D PROVE IsFiniteSet(Below(D, d)) /\ Rank(D, d) \in 0 .. n - 1
  <2>1. Below(D, d) \in SUBSET D
    BY DEF Below
  <2>2. d \in D /\ d \notin Below(D, d)
    BY BeforeOrders DEF Below
  <2>3. D # Below(D, d)
    BY <2>2
  <2>4. IsFiniteSet(Below(D, d)) /\ Cardinality(Below(D, d)) <= Cardinality(D)
        /\ (Cardinality(D) = Cardinality(Below(D, d)) => D = Below(D, d))
    BY <2>1, FS_Subset
  <2>5. Cardinality(Below(D, d)) \in Nat
    BY <2>4, FS_CardinalityType
  <2> QED BY <1>1, <2>3, <2>4, <2>5 DEF Rank
<1>3. ASSUME NEW d \in D, NEW e \in D, Before(d, e) PROVE Rank(D, d) < Rank(D, e)
  <2>1. Below(D, d) \in SUBSET Below(D, e)
    <3>1. ASSUME NEW x \in D, Before(x, d) PROVE Before(x, e)
      BY <1>3, <3>1, BeforeOrders
    <3> QED BY <3>1 DEF Below
  <2>2. d \in Below(D, e) /\ d \notin Below(D, d)
    BY <1>3, BeforeOrders DEF Below
  <2>3. Below(D, e) # Below(D, d)
    BY <2>2
  <2>4. IsFiniteSet(Below(D, e)) /\ IsFiniteSet(Below(D, d))
    BY <1>2
  <2>5. Cardinality(Below(D, d)) <= Cardinality(Below(D, e))
        /\ (Cardinality(Below(D, e)) = Cardinality(Below(D, d)) => Below(D, e) = Below(D, d))
    BY <2>1, <2>4, FS_Subset
  <2>6. Cardinality(Below(D, d)) \in Nat /\ Cardinality(Below(D, e)) \in Nat
    BY <2>4, FS_CardinalityType
  <2> QED BY <2>3, <2>5, <2>6 DEF Rank
<1> DEFINE f == [d \in D |-> Rank(D, d) + 1]
<1>4. f \in Injection(D, 1 .. n)
  <2>1. \A d \in D : Rank(D, d) + 1 \in 1 .. n
    BY <1>2
  <2>2. ASSUME NEW d \in D, NEW e \in D, f[d] = f[e] PROVE d = e
    <3>1. Rank(D, d) = Rank(D, e) /\ Rank(D, d) \in Int
      BY <1>2, <2>2
    <3>2. ~Before(d, e) /\ ~Before(e, d)
      BY <1>2, <1>3, <3>1
    <3> QED BY <3>2, BeforeOrders
  <2> QED BY <2>1, <2>2 DEF Injection, IsInjective
<1>5. IsFiniteSet(1 .. n) /\ Cardinality(1 .. n) = n
  BY FS_Interval
<1>6. f \in Surjection(D, 1 .. n)
  <2> HIDE DEF f
  <2> QED BY <1>1, <1>4, <1>5, FS_Injection
<1>7. \A i \in 1 .. n : \E d \in D : f[d] = i
  <2> HIDE DEF f
  <2> QED BY <1>6 DEF Surjection
<1> DEFINE byRank == [i \in 1 .. n |-> CHOOSE d \in D : f[d] = i]
           Good(s) == s \in [1 .. n -> D] /\ \A i, j \in DOMAIN s : i < j => Before(s[i], s[j])
<1>8. Good(byRank)
  <2>1. ASSUME NEW i \in 1 .. n PROVE byRank[i] \in D /\ f[byRank[i]] = i
    <3> HIDE DEF f
    <3> QED BY <1>7, <2>1
  <2>2. ASSUME NEW i \in 1 .. n, NEW j \in 1 .. n, i < j PROVE Before(byRank[i], byRank[j])
    <3>1. PICK d \in D, e \in D : d = byRank[i] /\ e = byRank[j]
      BY <2>1
    <3>2. Rank(D, d) + 1 = i /\ Rank(D, e) + 1 = j /\ Rank(D, d) \in Int /\ Rank(D, e) \in Int
      <4>1. f[d] = i /\ f[e] = j
        <5> HIDE DEF byRank, f
        <5> QED BY <2>1, <3>1
      <4>2. f[d] = Rank(D, d) + 1 /\ f[e] = Rank(D, e) + 1
        OBVIOUS
      <4>3. Rank(D, d) \in Int /\ Rank(D, e) \in Int
        BY <1>2
      <4> HIDE DEF byRank, f
      <4> QED BY <4>1, <4>2, <4>3
    <3>3. Rank(D, d) < Rank(D, e)
      BY <2>2, <3>2
    <3>4. ~Before(e, d) /\ d # e
      BY <1>3, <3>2, <3>3
    <3> QED BY <3>1, <3>4, BeforeOrders
  <2> HIDE DEF f
  <2> QED BY <2>1, <2>2
<1>9. InOrder(D) = CHOOSE s \in [1 .. n -> D] : \A i, j \in DOMAIN s : i < j => Before(s[i], s[j])
  BY <1>1 DEF InOrder
<1>10. Good(InOrder(D))
  <2> HIDE DEF byRank, f
  <2> QED BY <1>8, <1>9
<1>11. PICK s : s = InOrder(D)
  OBVIOUS
<1>12. s \in [1 .. n -> D] /\ s \in Seq(D) /\ Len(s) = n
  BY <1>10, <1>11
<1>13. \A i, j \in 1 .. n : i < j => Before(s[i], s[j])
  BY <1>10, <1>11, <1>12
<1>14. s \in Injection(1 .. n, D)
  <2>1. ASSUME NEW i \in 1 .. n, NEW j \in 1 .. n, s[i] = s[j] PROVE i = j
    <3>1. IsDate(s[i]) /\ IsDate(s[j])
      BY <1>12
    <3>2. ~Before(s[i], s[j]) /\ ~Before(s[j], s[i])
      BY <2>1, <3>1, BeforeOrders
    <3>3. i < j \/ i = j \/ j < i
      OBVIOUS
    <3> QED BY <1>13, <3>2, <3>3
  <2> QED BY <1>12, <2>1 DEF Injection, IsInjective
<1>15. s \in Surjection(1 .. n, D)
  BY <1>1, <1>5, <1>14, FS_Injection
<1>16. \A d \in D : \E i \in 1 .. n : s[i] = d
  BY <1>15 DEF Surjection
<1> QED BY <1>11, <1>12, <1>13, <1>16 DEF Ascending, Holds

(* A period keeps finitely many dates, all of the calendar.                *)
LEMMA WithinFinite ==
    ASSUME NEW r, IsRule(r), NEW lo, IsDate(lo), ~Before(lo, r.dtstart), NEW hi, IsDate(hi),
           NEW n \in Int, n >= Skip(r, lo)
    PROVE  IsFiniteSet(Within(r, n, lo, hi)) /\ \A d \in Within(r, n, lo, hi) : IsDate(d)
<1> DEFINE D == Within(r, n, lo, hi)
           f == [d \in D |-> DayNumber(d)]
<1>1. \A d \in D : IsDate(d) /\ ~Before(d, lo) /\ ~Before(hi, d)
  BY WithinFalls DEF FallsIn
<1>2. PICK i, j \in Int : i = DayNumber(lo) /\ j = DayNumber(hi)
  BY DateOfNumber
<1>3. \A d \in D : DayNumber(d) \in i .. j
  BY <1>1, <1>2, BeforeIs, DateOfNumber
<1>4. f \in Injection(D, i .. j)
  <2> HIDE DEF D
  <2>1. \A d, e \in D : f[d] = f[e] => d = e
    BY <1>1, SameNumber
  <2> QED BY <1>3, <2>1 DEF Injection, IsInjective
<1>5. IsFiniteSet(i .. j)
  BY FS_Interval
<1>6. IsFiniteSet(D)
  <2> HIDE DEF D, f
  <2> QED BY <1>4, <1>5, FS_Injection
<1> QED BY <1>1, <1>6

(* A period yields what it keeps, upwards.                                 *)
LEMMA YieldedIs ==
    ASSUME NEW r, IsRule(r), NEW lo, IsDate(lo), ~Before(lo, r.dtstart), NEW hi, IsDate(hi),
           NEW n \in Int, n >= Skip(r, lo)
    PROVE  /\ Yielded(r, n, lo, hi) \in Seq({d \in Int \X Int \X Int : IsDate(d)})
           /\ Ascending(Yielded(r, n, lo, hi))
           /\ \A d : Holds(Yielded(r, n, lo, hi), d) <=> d \in Within(r, n, lo, hi)
<1> DEFINE D == Within(r, n, lo, hi)
<1>1. IsFiniteSet(D) /\ \A d \in D : IsDate(d)
  BY WithinFinite
<1>2. /\ InOrder(D) \in Seq(D) /\ Ascending(InOrder(D))
      /\ \A d : Holds(InOrder(D), d) <=> d \in D
  <2> HIDE DEF D
  <2> QED BY <1>1, InOrderIs
<1>3. D \subseteq {d \in Int \X Int \X Int : IsDate(d)}
  <2> HIDE DEF D
  <2> QED BY <1>1 DEF IsDate
<1>4. InOrder(D) \in Seq({d \in Int \X Int \X Int : IsDate(d)})
  <2> HIDE DEF D
  <2> QED BY <1>2, <1>3
<1> QED BY <1>2, <1>4 DEF Yielded

-----------------------------------------------------------------------------
(* Joining what the periods yield.                                         *)

(* FlattenSeq's recursive function exists, and its i-th value joins the    *)
(* first i sequences.                                                      *)
JoinsOf(ss, n, f) == f = [i \in 1 .. n |-> IF i = 1 THEN ss[i] ELSE f[i - 1] \o ss[i]]

LEMMA JoinsOfExist ==
    ASSUME NEW ss, NEW n \in Nat
    PROVE  \E f : JoinsOf(ss, n, f)
<1> DEFINE S == {m \in Nat : ~\E f : JoinsOf(ss, m, f)}
<1>1. SUFFICES ASSUME S # {} PROVE FALSE
  OBVIOUS
<1>2. PICK m \in S : \A k \in S : m <= k
  <2>1. S \in SUBSET Nat
    OBVIOUS
  <2> HIDE DEF S
  <2> QED BY <1>1, <2>1, LeastOf
<1>3. m \in Nat /\ ~\E f : JoinsOf(ss, m, f)
  OBVIOUS
<1>4. m # 0
  <2>1. JoinsOf(ss, 0, [i \in 1 .. 0 |-> i])
    BY DEF JoinsOf
  <2> QED BY <1>3, <2>1
<1>5. PICK f : JoinsOf(ss, m - 1, f)
  <2>1. m - 1 \in Nat
    BY <1>3, <1>4
  <2>2. m - 1 \notin S
    <3> HIDE DEF S
    <3> QED BY <1>2, <1>3, <2>1
  <2> QED BY <2>1, <2>2
<1> DEFINE g == [i \in 1 .. m |-> IF i = 1 THEN ss[i] ELSE f[i - 1] \o ss[i]]
<1>6. ASSUME NEW i \in 1 .. m - 1 PROVE f[i] = g[i]
  <2>1. i \in 1 .. m
    BY <1>3
  <2>2. f[i] = [j \in 1 .. m - 1 |-> IF j = 1 THEN ss[j] ELSE f[j - 1] \o ss[j]][i]
    BY <1>5 DEF JoinsOf
  <2> QED BY <2>1, <2>2
<1>7. ASSUME NEW i \in 1 .. m
      PROVE  g[i] = IF i = 1 THEN ss[i] ELSE g[i - 1] \o ss[i]
  <2>1. CASE i = 1
    BY <2>1
  <2>2. CASE i # 1
    <3>1. i - 1 \in 1 .. m - 1
      BY <1>3, <2>2
    <3>2. f[i - 1] = g[i - 1]
      BY <1>6, <3>1
    <3>3. g[i] = f[i - 1] \o ss[i]
      BY <2>2
    <3> HIDE DEF g
    <3> QED BY <2>2, <3>2, <3>3
  <2> QED BY <2>1, <2>2
<1>8. JoinsOf(ss, m, g)
  <2>1. g = [i \in 1 .. m |-> g[i]]
    OBVIOUS
  <2> HIDE DEF g
  <2>2. g = [i \in 1 .. m |-> IF i = 1 THEN ss[i] ELSE g[i - 1] \o ss[i]]
    BY <1>7, <2>1
  <2> QED BY <2>2 DEF JoinsOf
<1> QED BY <1>3, <1>8

LEMMA FlattenIs ==
    ASSUME NEW ss, NEW n \in Nat, n # 0, Len(ss) = n
    PROVE  \E f : JoinsOf(ss, n, f) /\ FlattenSeq(ss) = f[n]
<1> DEFINE g == CHOOSE f : f = [i \in 1 .. n |-> IF i = 1 THEN ss[i] ELSE f[i - 1] \o ss[i]]
<1>1. \E f : f = [i \in 1 .. n |-> IF i = 1 THEN ss[i] ELSE f[i - 1] \o ss[i]]
  BY JoinsOfExist DEF JoinsOf
<1>2. g = [i \in 1 .. n |-> IF i = 1 THEN ss[i] ELSE g[i - 1] \o ss[i]]
  BY <1>1
<1>3. FlattenSeq(ss) = g[n]
  BY DEF FlattenSeq
<1> HIDE DEF g
<1> QED BY <1>2, <1>3 DEF JoinsOf

(* s joins the first i of ss: their elements, in one ascending order. *)
Joined(ss, s, i) ==
    /\ \A d : Holds(s, d) <=> \E k \in 1 .. i : Holds(ss[k], d)
    /\ Ascending(s)

(* Joining two ascending sequences, one before the other.                  *)
LEMMA JoinOne ==
    ASSUME NEW T, NEW s \in Seq(T), NEW t \in Seq(T), Ascending(s), Ascending(t),
           \A d, e : Holds(s, d) /\ Holds(t, e) => Before(d, e)
    PROVE  /\ s \o t \in Seq(T) /\ Ascending(s \o t)
           /\ \A d : Holds(s \o t, d) <=> Holds(s, d) \/ Holds(t, d)
<1>1. PICK a, b \in Nat : a = Len(s) /\ b = Len(t)
  OBVIOUS
<1>2. s \o t \in Seq(T) /\ Len(s \o t) = a + b
  BY <1>1
<1>3. \A i \in 1 .. a + b : (s \o t)[i] = IF i <= a THEN s[i] ELSE t[i - a]
  BY <1>1
<1>4. PICK u : u = s \o t
  OBVIOUS
<1>5. ASSUME NEW i \in 1 .. a + b, NEW j \in 1 .. a + b, i < j PROVE Before(u[i], u[j])
  <2>1. CASE j <= a
    <3>1. i \in 1 .. a /\ j \in 1 .. a
      BY <1>5, <2>1
    <3>2. u[i] = s[i] /\ u[j] = s[j]
      <4>1. i <= a /\ j <= a
        BY <3>1
      <4> QED BY <1>3, <1>4, <4>1
    <3> QED BY <1>1, <1>5, <3>1, <3>2 DEF Ascending
  <2>2. CASE i <= a /\ a < j
    <3>1. i \in 1 .. a /\ j - a \in 1 .. b
      BY <1>5, <2>2
    <3>2. u[i] = s[i] /\ u[j] = t[j - a]
      <4>1. i <= a /\ ~(j <= a)
        BY <2>2
      <4> QED BY <1>3, <1>4, <4>1
    <3>3. Holds(s, u[i]) /\ Holds(t, u[j])
      BY <1>1, <3>1, <3>2 DEF Holds
    <3> QED BY <3>3
  <2>3. CASE a < i
    <3>1. i - a \in 1 .. b /\ j - a \in 1 .. b /\ i - a < j - a
      BY <1>5, <2>3
    <3>2. u[i] = t[i - a] /\ u[j] = t[j - a]
      <4>1. ~(i <= a) /\ ~(j <= a)
        BY <1>5, <2>3
      <4> QED BY <1>3, <1>4, <4>1
    <3>3. PICK p, q \in 1 .. b : p = i - a /\ q = j - a
      BY <3>1
    <3>4. Before(t[p], t[q])
      BY <1>1, <3>1, <3>3 DEF Ascending
    <3> QED BY <3>2, <3>3, <3>4
  <2> QED BY <2>1, <2>2, <2>3
<1>6. ASSUME NEW d PROVE Holds(u, d) <=> Holds(s, d) \/ Holds(t, d)
  <2>1. ASSUME NEW i \in 1 .. a + b, u[i] = d PROVE Holds(s, d) \/ Holds(t, d)
    <3>1. CASE i <= a
      <4>1. i \in 1 .. a
        BY <3>1
      <4>2. s[i] = d
        BY <1>3, <1>4, <2>1, <3>1
      <4> QED BY <1>1, <4>1, <4>2 DEF Holds
    <3>2. CASE ~(i <= a)
      <4>1. PICK p \in 1 .. b : p = i - a
        BY <3>2
      <4>2. t[p] = d
        BY <1>3, <1>4, <2>1, <3>2, <4>1
      <4> QED BY <1>1, <4>2 DEF Holds
    <3> QED BY <3>1, <3>2
  <2>2. ASSUME NEW i \in 1 .. a, s[i] = d PROVE \E j \in 1 .. a + b : u[j] = d
    <3>1. i \in 1 .. a + b /\ i <= a
      OBVIOUS
    <3>2. u[i] = d
      BY <1>3, <1>4, <2>2, <3>1
    <3> QED BY <3>1, <3>2
  <2>3. ASSUME NEW i \in 1 .. b, t[i] = d PROVE \E j \in 1 .. a + b : u[j] = d
    <3>1. PICK j \in 1 .. a + b : j = i + a
      OBVIOUS
    <3>2. ~(j <= a) /\ j - a = i
      BY <3>1
    <3>3. u[j] = t[j - a]
      BY <1>3, <1>4, <3>2
    <3> QED BY <2>3, <3>2, <3>3
  <2> QED BY <1>1, <1>2, <1>4, <2>1, <2>2, <2>3 DEF Holds
<1> QED BY <1>2, <1>4, <1>5, <1>6 DEF Ascending

(* Flattening ascending sequences that follow each other.                  *)
LEMMA FlattenJoins ==
    ASSUME NEW T, NEW ss, NEW n \in Nat, n # 0, Len(ss) = n,
           \A i \in 1 .. n : ss[i] \in Seq(T) /\ Ascending(ss[i]),
           \A i, j \in 1 .. n : i < j =>
               \A d, e : Holds(ss[i], d) /\ Holds(ss[j], e) => Before(d, e)
    PROVE  FlattenSeq(ss) \in Seq(T) /\ Joined(ss, FlattenSeq(ss), n)
<1>1. PICK f : JoinsOf(ss, n, f) /\ FlattenSeq(ss) = f[n]
  BY FlattenIs
<1> DEFINE Good(i) == f[i] \in Seq(T) /\ Joined(ss, f[i], i)
           S == {i \in Nat : i \in 1 .. n /\ ~Good(i)}
<1>2. SUFFICES ASSUME S # {} PROVE FALSE
  <2>1. n \in 1 .. n
    OBVIOUS
  <2> QED BY <1>1, <2>1
<1>3. PICK m \in S : \A k \in S : m <= k
  <2>1. S \in SUBSET Nat
    OBVIOUS
  <2> HIDE DEF S
  <2> QED BY <1>2, <2>1, LeastOf
<1>4. m \in 1 .. n /\ ~Good(m)
  OBVIOUS
<1>5. f[m] = IF m = 1 THEN ss[m] ELSE f[m - 1] \o ss[m]
  BY <1>1, <1>4 DEF JoinsOf
<1>6. CASE m = 1
  <2>1. f[1] = ss[1] /\ 1 \in 1 .. n
    BY <1>4, <1>5, <1>6
  <2>2. \A d : Holds(f[1], d) <=> \E k \in 1 .. 1 : Holds(ss[k], d)
    BY <2>1
  <2>3. Good(1)
    BY <2>1, <2>2 DEF Joined
  <2> HIDE DEF Good, S
  <2> QED BY <1>4, <1>6, <2>3
<1>7. CASE m # 1
  <2>1. PICK p \in 1 .. n : p = m - 1 /\ p < m
    BY <1>4, <1>7
  <2>2. Good(p)
    <3>1. p \notin S
      <4> HIDE DEF S
      <4> QED BY <1>3, <1>4, <2>1
    <3> QED BY <3>1
  <2>3. f[p] \in Seq(T) /\ Ascending(f[p]) /\ \A d : Holds(f[p], d) <=> \E k \in 1 .. p : Holds(ss[k], d)
    BY <2>2 DEF Joined
  <2>4. ss[m] \in Seq(T) /\ Ascending(ss[m])
    BY <1>4
  <2>5. \A d, e : Holds(f[p], d) /\ Holds(ss[m], e) => Before(d, e)
    <3>1. ASSUME NEW d, NEW e, Holds(f[p], d), Holds(ss[m], e) PROVE Before(d, e)
      <4>1. PICK k \in 1 .. p : Holds(ss[k], d)
        BY <2>3, <3>1
      <4>2. k \in 1 .. n /\ k < m
        BY <2>1, <4>1
      <4> QED BY <1>4, <3>1, <4>1, <4>2
    <3> QED BY <3>1
  <2>6. /\ f[p] \o ss[m] \in Seq(T) /\ Ascending(f[p] \o ss[m])
        /\ \A d : Holds(f[p] \o ss[m], d) <=> Holds(f[p], d) \/ Holds(ss[m], d)
    <3> HIDE DEF S
    <3> QED BY <2>3, <2>4, <2>5, JoinOne
  <2>7. f[m] = f[p] \o ss[m]
    BY <1>5, <1>7, <2>1
  <2>8. \A d : Holds(f[m], d) <=> \E k \in 1 .. m : Holds(ss[k], d)
    <3>1. \A k : k \in 1 .. m <=> k \in 1 .. p \/ k = m
      BY <1>4, <2>1
    <3> HIDE DEF S
    <3> QED BY <2>3, <2>6, <2>7, <3>1
  <2>9. Good(m)
    BY <2>6, <2>7, <2>8 DEF Joined
  <2> HIDE DEF Good, S
  <2> QED BY <1>4, <2>9
<1> QED BY <1>6, <1>7

-----------------------------------------------------------------------------
(* Each and FirstOf.                                                       *)

CivilDate == {d \in Int \X Int \X Int : IsDate(d)}

(* Later periods keep later dates.                                         *)
LEMMA PeriodsAscend ==
    ASSUME NEW r, IsRule(r), NEW lo, IsDate(lo), ~Before(lo, r.dtstart), NEW hi,
           NEW n \in Int, n >= Skip(r, lo), NEW m \in Int, n < m,
           NEW d \in Within(r, n, lo, hi), NEW e \in Within(r, m, lo, hi)
    PROVE  Before(d, e)
<1>1. Skip(r, lo) \in Nat /\ r.interval \in Nat /\ r.interval >= 1 /\ IsDate(r.dtstart)
  BY SkipIs, RuleFields
<1>2. m >= Skip(r, lo)
  BY <1>1
<1>3. /\ IsDate(d) /\ Unit(r, d) = Unit(r, r.dtstart) + n * r.interval
      /\ IsDate(e) /\ Unit(r, e) = Unit(r, r.dtstart) + m * r.interval
  BY <1>2, WithinIs
<1>4. n * r.interval + r.interval <= m * r.interval /\ n * r.interval \in Int
      /\ m * r.interval \in Int
  BY <1>1, Multiples
<1>5. Unit(r, r.dtstart) \in Int
  BY <1>1, UnitIs
<1>6. Unit(r, d) < Unit(r, e)
  BY <1>1, <1>3, <1>4, <1>5
<1>7. ~Before(d, e) => Unit(r, e) <= Unit(r, d)
  BY <1>3, UnitsApart
<1>8. Unit(r, d) \in Int /\ Unit(r, e) \in Int
  BY <1>3, UnitIs
<1> QED BY <1>6, <1>7, <1>8

(* Each yields the dates of the rule from lo to hi, upwards.               *)
LEMMA EachIs ==
    ASSUME NEW r, IsRule(r), NEW lo, IsDate(lo), ~Before(lo, r.dtstart), NEW hi, IsDate(hi)
    PROVE  /\ Each(r, lo, hi) \in Seq(CivilDate) /\ Ascending(Each(r, lo, hi))
           /\ \A d : Holds(Each(r, lo, hi), d) <=> FallsIn(r, d, lo, hi)
<1>1. PICK first \in Nat : first = Skip(r, lo)
  BY SkipIs
<1>2. PICK last \in Int : last >= first /\ Periods(r, lo, hi) = first .. last
  BY <1>1, PeriodsAre
<1>3. PICK n \in Nat : n = last - first + 1 /\ n # 0
  BY <1>2
<1>4. Cardinality(Periods(r, lo, hi)) = n
  BY <1>2, <1>3, FS_Interval
<1> DEFINE ss == [i \in 1 .. n |-> Yielded(r, first + i - 1, lo, hi)]
<1>5. Each(r, lo, hi) = FlattenSeq(ss)
  BY <1>1, <1>4 DEF Each
<1>6. ASSUME NEW i \in 1 .. n
      PROVE  /\ first + i - 1 \in Int /\ first + i - 1 >= Skip(r, lo)
             /\ ss[i] \in Seq(CivilDate) /\ Ascending(ss[i])
             /\ \A d : Holds(ss[i], d) <=> d \in Within(r, first + i - 1, lo, hi)
  <2>1. PICK k \in Int : k = first + i - 1 /\ k >= Skip(r, lo)
    BY <1>1
  <2>2. ss[i] = Yielded(r, k, lo, hi)
    BY <2>1
  <2> HIDE DEF ss
  <2> QED BY <2>1, <2>2, YieldedIs DEF CivilDate
<1>7. ASSUME NEW i \in 1 .. n, NEW j \in 1 .. n, i < j, NEW d, NEW e, Holds(ss[i], d), Holds(ss[j], e)
      PROVE  Before(d, e)
  <2>1. PICK a, b \in Int : a = first + i - 1 /\ b = first + j - 1 /\ a < b
    BY <1>7
  <2>2. d \in Within(r, a, lo, hi) /\ e \in Within(r, b, lo, hi) /\ a >= Skip(r, lo)
    BY <1>6, <1>7, <2>1
  <2> QED BY <2>1, <2>2, PeriodsAscend
<1>8. Len(ss) = n
  OBVIOUS
<1>9. FlattenSeq(ss) \in Seq(CivilDate) /\ Joined(ss, FlattenSeq(ss), n)
  <2>1. \A i \in 1 .. n : ss[i] \in Seq(CivilDate) /\ Ascending(ss[i])
    BY <1>6
  <2>2. \A i, j \in 1 .. n : i < j => \A d, e : Holds(ss[i], d) /\ Holds(ss[j], e) => Before(d, e)
    BY <1>7
  <2> HIDE DEF ss
  <2> QED BY <1>3, <1>8, <2>1, <2>2, FlattenJoins
<1>10. ASSUME NEW d PROVE Holds(FlattenSeq(ss), d) <=> FallsIn(r, d, lo, hi)
  <2>1. Holds(FlattenSeq(ss), d) <=> \E i \in 1 .. n : d \in Within(r, first + i - 1, lo, hi)
    <3> HIDE DEF ss
    <3> QED BY <1>6, <1>9 DEF Joined
  <2>2. ASSUME NEW i \in 1 .. n, d \in Within(r, first + i - 1, lo, hi) PROVE FallsIn(r, d, lo, hi)
    BY <1>6, <2>2, WithinFalls
  <2>3. ASSUME FallsIn(r, d, lo, hi) PROVE \E i \in 1 .. n : d \in Within(r, first + i - 1, lo, hi)
    <3>1. PICK k \in first .. last : d \in Within(r, k, lo, hi)
      BY <1>2, <2>3, FallsWithin
    <3>2. PICK i \in 1 .. n : i = k - first + 1
      BY <1>3
    <3>3. first + i - 1 = k
      BY <3>2
    <3> QED BY <3>1, <3>3
  <2> QED BY <2>1, <2>2, <2>3
<1>11. Ascending(FlattenSeq(ss))
  BY <1>9 DEF Joined
<1> HIDE DEF ss
<1> QED BY <1>5, <1>9, <1>10, <1>11

(* FirstOf is the first of them, or none when there is none.               *)
LEMMA FirstIs ==
    ASSUME NEW r, IsRule(r), NEW lo, IsDate(lo), ~Before(lo, r.dtstart), NEW hi, IsDate(hi)
    PROVE  \/ FirstOf(r, lo, hi) = NoDate /\ \A d : ~FallsIn(r, d, lo, hi)
           \/ /\ FirstOf(r, lo, hi) # NoDate /\ FallsIn(r, FirstOf(r, lo, hi), lo, hi)
              /\ \A d : FallsIn(r, d, lo, hi) => ~Before(d, FirstOf(r, lo, hi))
<1>1. PICK first \in Nat : first = Skip(r, lo)
  BY SkipIs
<1>2. PICK last \in Int : last >= first /\ Periods(r, lo, hi) = first .. last
  BY <1>1, PeriodsAre
<1> DEFINE Hit(n) == Yielded(r, n, lo, hi) # <<>>
<1>3. ASSUME NEW n \in Int, n >= first
      PROVE  /\ Hit(n) <=> \E d : d \in Within(r, n, lo, hi)
             /\ Hit(n) => /\ Yielded(r, n, lo, hi)[1] \in Within(r, n, lo, hi)
                          /\ \A d \in Within(r, n, lo, hi) : ~Before(d, Yielded(r, n, lo, hi)[1])
  <2>1. PICK s : s = Yielded(r, n, lo, hi)
    OBVIOUS
  <2>2. s \in Seq(CivilDate) /\ Ascending(s) /\ \A d : Holds(s, d) <=> d \in Within(r, n, lo, hi)
    BY <1>1, <1>3, <2>1, YieldedIs DEF CivilDate
  <2>3. s = <<>> => ~\E d : Holds(s, d)
    BY DEF Holds
  <2>4. ASSUME s # <<>>
        PROVE  Holds(s, s[1]) /\ \A d : Holds(s, d) => ~Before(d, s[1])
    <3>1. 1 \in 1 .. Len(s)
      BY <2>2, <2>4
    <3>2. ASSUME NEW i \in 1 .. Len(s) PROVE ~Before(s[i], s[1])
      <4>1. IsDate(s[i]) /\ IsDate(s[1])
        BY <2>2, <3>1 DEF CivilDate
      <4>2. i = 1 \/ 1 < i
        BY <2>2
      <4>3. i = 1 \/ Before(s[1], s[i])
        BY <2>2, <3>1, <4>2 DEF Ascending
      <4> QED BY <4>1, <4>3, BeforeOrders
    <3> QED BY <3>1, <3>2 DEF Holds
  <2> QED BY <2>1, <2>2, <2>3, <2>4
<1> HIDE DEF Hit
<1>4. FirstOf(r, lo, hi) =
        IF \E n \in first .. last : Hit(n)
        THEN Yielded(r, CHOOSE n \in first .. last : Hit(n) /\ \A m \in first .. n - 1 : ~Hit(m), lo, hi)[1]
        ELSE NoDate
  BY <1>1, <1>2 DEF FirstOf, Hit
<1>5. ASSUME NEW d, FallsIn(r, d, lo, hi)
      PROVE  \E n \in first .. last : Hit(n) /\ d \in Within(r, n, lo, hi)
  <2>1. PICK n \in first .. last : d \in Within(r, n, lo, hi)
    BY <1>2, <1>5, FallsWithin
  <2> QED BY <1>3, <2>1
<1>6. CASE ~\E n \in first .. last : Hit(n)
  BY <1>4, <1>5, <1>6
<1>7. CASE \E n \in first .. last : Hit(n)
  <2> DEFINE S == {n \in first .. last : Hit(n)}
             k == CHOOSE n \in first .. last : Hit(n) /\ \A m \in first .. n - 1 : ~Hit(m)
  <2>1. \E n \in first .. last : Hit(n) /\ \A m \in first .. n - 1 : ~Hit(m)
    <3>1. S \in SUBSET Nat /\ S # {}
      BY <1>7
    <3>2. PICK n \in S : \A m \in S : n <= m
      <4> HIDE DEF S
      <4> QED BY <3>1, LeastOf
    <3>3. ASSUME NEW m \in first .. n - 1 PROVE ~Hit(m)
      <4>1. n \in Int /\ n <= last
        OBVIOUS
      <4>2. m \in first .. last /\ ~(n <= m)
        BY <4>1
      <4> QED BY <3>2, <4>2
    <3> QED BY <3>3
  <2>2. k \in first .. last /\ Hit(k) /\ \A m \in first .. k - 1 : ~Hit(m)
    BY <2>1
  <2>3. FirstOf(r, lo, hi) = Yielded(r, k, lo, hi)[1]
    BY <1>4, <1>7
  <2> HIDE DEF k
  <2>4. PICK f : f = FirstOf(r, lo, hi)
    OBVIOUS
  <2>5. f \in Within(r, k, lo, hi) /\ \A d \in Within(r, k, lo, hi) : ~Before(d, f)
    BY <1>3, <2>2, <2>3, <2>4
  <2>6. FallsIn(r, f, lo, hi)
    BY <1>1, <2>2, <2>5, WithinFalls
  <2>7. f # NoDate
    BY <2>6, Parts DEF FallsIn
  <2>8. ASSUME NEW d, FallsIn(r, d, lo, hi) PROVE ~Before(d, f)
    <3>1. PICK n \in first .. last : Hit(n) /\ d \in Within(r, n, lo, hi)
      BY <1>5, <2>8
    <3>2. n = k \/ k < n
      BY <2>2, <3>1
    <3>3. CASE k < n
      <4>1. Before(f, d)
        BY <1>1, <2>2, <2>5, <3>1, <3>3, PeriodsAscend
      <4> QED BY <2>6, <2>8, <4>1, BeforeOrders DEF FallsIn
    <3> QED BY <2>5, <3>1, <3>2, <3>3
  <2> QED BY <2>4, <2>6, <2>7, <2>8
<1> QED BY <1>6, <1>7

-----------------------------------------------------------------------------
(* Expand, Next and Last against the table.                                *)

(* The window cut to the rule's own start and end.                         *)
LEMMA Bounds ==
    ASSUME NEW r, IsRule(r), NEW from, IsDate(from), NEW to, IsDate(to)
    PROVE  /\ IsDate(Lo(r, from)) /\ IsDate(Hi(r, to)) /\ ~Before(Lo(r, from), r.dtstart)
           /\ \A d : IsDate(d) =>
                /\ ~Before(d, Lo(r, from)) <=> ~Before(d, from) /\ ~Before(d, r.dtstart)
                /\ ~Before(Hi(r, to), d) <=> ~Before(to, d) /\ (r.until = NoDate \/ ~Before(r.until, d))
<1>1. IsDate(r.dtstart) /\ (r.until = NoDate \/ IsDate(r.until))
  BY RuleFields
<1>2. DayNumber(from) \in Int /\ DayNumber(to) \in Int /\ DayNumber(r.dtstart) \in Int
  BY <1>1, DateOfNumber
<1>3. Lo(r, from) = IF Before(from, r.dtstart) THEN r.dtstart ELSE from
  BY DEF Lo, Latest
<1>4. Hi(r, to) = IF r.until = NoDate THEN to ELSE IF Before(to, r.until) THEN to ELSE r.until
  BY DEF Hi, Earliest
<1>5. IsDate(Lo(r, from)) /\ IsDate(Hi(r, to)) /\ ~Before(Lo(r, from), r.dtstart)
  BY <1>1, <1>3, <1>4, BeforeOrders
<1>6. ASSUME NEW d, IsDate(d)
      PROVE  ~Before(d, Lo(r, from)) <=> ~Before(d, from) /\ ~Before(d, r.dtstart)
  <2>1. DayNumber(d) \in Int
    BY <1>6, DateOfNumber
  <2> QED BY <1>1, <1>2, <1>3, <1>6, <2>1, BeforeIs
<1>7. ASSUME NEW d, IsDate(d)
      PROVE  ~Before(Hi(r, to), d) <=> ~Before(to, d) /\ (r.until = NoDate \/ ~Before(r.until, d))
  <2>1. CASE r.until = NoDate
    BY <1>4, <2>1
  <2>2. CASE r.until # NoDate
    <3>1. IsDate(r.until) /\ DayNumber(d) \in Int /\ DayNumber(r.until) \in Int
      BY <1>1, <1>7, <2>2, DateOfNumber
    <3> QED BY <1>2, <1>4, <1>7, <2>2, <3>1, BeforeIs
  <2> QED BY <2>1, <2>2
<1> QED BY <1>5, <1>6, <1>7

(* Expand yields the due dates of its window, in order. *)
THEOREM ExpandIs ==
    ASSUME NEW r, IsRule(r), NEW from, IsDate(from), NEW to, IsDate(to)
    PROVE  /\ Expand(r, from, to) \in Seq(CivilDate) /\ Ascending(Expand(r, from, to))
           /\ \A d : Holds(Expand(r, from, to), d) <=>
                  IsDate(d) /\ DueUnder(r, d) /\ ~Before(d, from) /\ ~Before(to, d)
<1>1. PICK lo, hi : lo = Lo(r, from) /\ hi = Hi(r, to)
  OBVIOUS
<1>2. IsDate(lo) /\ IsDate(hi) /\ ~Before(lo, r.dtstart)
  BY <1>1, Bounds
<1>3. ASSUME NEW d
      PROVE  FallsIn(r, d, lo, hi) <=>
                  IsDate(d) /\ DueUnder(r, d) /\ ~Before(d, from) /\ ~Before(to, d)
  BY <1>1, Bounds DEF FallsIn, DueUnder, After
<1>4. CASE Window(r, from, to)
  <2>1. Expand(r, from, to) = Each(r, lo, hi)
    BY <1>1, <1>4 DEF Expand
  <2> QED BY <1>2, <1>3, <2>1, EachIs
<1>5. CASE ~Window(r, from, to)
  <2>1. Expand(r, from, to) = <<>>
    BY <1>5 DEF Expand
  <2>2. Before(hi, lo)
    BY <1>1, <1>5, RuleFields DEF Window, After
  <2>3. ASSUME NEW d PROVE ~FallsIn(r, d, lo, hi)
    <3>1. ASSUME IsDate(d), ~Before(d, lo), ~Before(hi, d) PROVE FALSE
      BY <1>2, <2>2, <3>1, BeforeOrders
    <3> QED BY <3>1 DEF FallsIn
  <2>4. <<>> \in Seq(CivilDate) /\ Ascending(<<>>) /\ \A d : ~Holds(<<>>, d)
    BY DEF Ascending, Holds
  <2> QED BY <1>3, <2>1, <2>3, <2>4
<1> QED BY <1>4, <1>5

(* The window of Next: a whole century beyond the day after. *)
LEMMA YearAhead ==
    ASSUME NEW d, IsDate(d), NEW n \in Nat, n # 0
    PROVE  LET to == <<Year(d) + n, 12, 31>>
           IN  IsDate(to) /\ DayNumber(to) >= DayNumber(d) + 365
<1>1. PICK y \in Int : y = Year(d)
  BY Parts
<1> DEFINE e == <<y, 12, 31>>
           to == <<y + n, 12, 31>>
<1>2. IsDate(e) /\ Year(e) = y /\ Month(e) = 12 /\ Day(e) = 31
  <2>1. 12 \in 1 .. 12 /\ 31 \in 1 .. 31 /\ 31 <= DaysInMonth(y, 12)
    BY SMT DEF DaysInMonth
  <2> QED BY <2>1, Made
<1>3. IsDate(to) /\ Year(to) = y + n /\ Month(to) = 12 /\ Day(to) = 31
  <2>1. 12 \in 1 .. 12 /\ 31 \in 1 .. 31 /\ 31 <= DaysInMonth(y + n, 12) /\ y + n \in Int
    BY SMT DEF DaysInMonth
  <2> QED BY <2>1, Made
<1>4. ~Before(e, d)
  BY <1>1, <1>2, Parts DEF Before
<1>5. PICK i, j, k \in Int : i = DayNumber(d) /\ j = DayNumber(e) /\ k = DayNumber(to)
  BY <1>2, <1>3, DateOfNumber
<1>6. i <= j
  BY <1>2, <1>4, <1>5, BeforeIs
<1>7. k - j >= 365
  <2>1. /\ MarchYear(e) = y /\ MarchYear(to) = y + n /\ MonthOfYear(e) = 9 /\ MonthOfYear(to) = 9
    BY <1>2, <1>3, SMT DEF MarchYear, MonthOfYear
  <2>2. PICK a, b, m \in Int : a = YearStart(y) /\ b = YearStart(y + n) /\ m = MonthStart(9)
    BY SMT DEF YearStart, MonthStart
  <2>3. j = a + m + 31 - 719469 /\ k = b + m + 31 - 719469
    BY <1>2, <1>3, <1>5, <2>1, <2>2, NumberFlat
  <2>4. b - a >= 365 * ((y + n) - y)
    <3>1. y + n \in Int /\ y < y + n
      OBVIOUS
    <3> QED BY <2>2, <3>1, YearsApart
  <2> QED BY <2>3, <2>4
<1> QED BY <1>1, <1>3, <1>5, <1>6, <1>7

(* Next finds the first due date after a day, and when it finds none the   *)
(* year and a day after has none.                                          *)
LEMMA NextIs ==
    ASSUME NEW r, IsRule(r), NEW d, IsDate(d)
    PROVE  LET next == NextDate(r, d)
           IN  /\ next # NoDate => IsDate(next) /\ DueUnder(r, next) /\ Before(d, next)
               /\ \A e : /\ IsDate(e) /\ DueUnder(r, e) /\ Before(d, e)
                         /\ next = NoDate => DayNumber(e) <= DayNumber(d) + 366
                         => next # NoDate /\ ~Before(e, next)
<1>1. PICK tomorrow : tomorrow = AddDays(d, 1)
  OBVIOUS
<1>2. IsDate(tomorrow) /\ DayNumber(tomorrow) = DayNumber(d) + 1
  BY <1>1, AddDaysIs
<1>3. PICK from : from = Latest(tomorrow, r.dtstart)
  OBVIOUS
<1>4. PICK to : to = <<Year(from) + SearchHorizonYears, 12, 31>>
  OBVIOUS
<1>5. IsDate(r.dtstart)
  BY RuleFields
<1>6. IsDate(from) /\ from = IF Before(tomorrow, r.dtstart) THEN r.dtstart ELSE tomorrow
  BY <1>2, <1>3, <1>5 DEF Latest
<1>7. IsDate(to) /\ DayNumber(to) >= DayNumber(from) + 365
  BY <1>4, <1>6, YearAhead, RecurrenceConstants
<1>8. PICK lo, hi : lo = Lo(r, from) /\ hi = Hi(r, to)
  OBVIOUS
<1>9. IsDate(lo) /\ IsDate(hi) /\ ~Before(lo, r.dtstart)
  BY <1>6, <1>7, <1>8, Bounds
<1>10. NextDate(r, d) = IF Window(r, from, to) THEN FirstOf(r, lo, hi) ELSE NoDate
  BY <1>1, <1>3, <1>4, <1>8 DEF NextDate
<1>11. PICK i, j, k, s \in Int : i = DayNumber(d) /\ j = DayNumber(from) /\ k = DayNumber(to)
                                  /\ s = DayNumber(r.dtstart)
  BY <1>5, <1>6, <1>7, DateOfNumber
<1>12. j = IF i + 1 < s THEN s ELSE i + 1
  BY <1>2, <1>5, <1>6, <1>11, BeforeIs
<1>13. ASSUME NEW e, IsDate(e), ~Before(e, r.dtstart)
       PROVE  ~Before(e, from) <=> Before(d, e)
  <2>1. PICK x \in Int : x = DayNumber(e)
    BY <1>13, DateOfNumber
  <2>2. ~(x < s)
    BY <1>5, <1>11, <1>13, <2>1, BeforeIs
  <2>3. ~(x < j) <=> i < x
    BY <1>12, <2>2
  <2> QED BY <1>6, <1>11, <1>13, <2>1, <2>3, BeforeIs
<1>14. ASSUME NEW e
       PROVE  FallsIn(r, e, lo, hi) <=>
                IsDate(e) /\ DueUnder(r, e) /\ Before(d, e) /\ ~Before(to, e)
  <2>1. FallsIn(r, e, lo, hi) <=>
           IsDate(e) /\ DueUnder(r, e) /\ ~Before(e, from) /\ ~Before(to, e)
    BY <1>6, <1>7, <1>8, Bounds DEF FallsIn, DueUnder, After
  <2> QED BY <1>13, <2>1 DEF DueUnder
<1>15. \/ NextDate(r, d) = NoDate /\ \A e : ~FallsIn(r, e, lo, hi)
       \/ /\ NextDate(r, d) # NoDate /\ FallsIn(r, NextDate(r, d), lo, hi)
          /\ \A e : FallsIn(r, e, lo, hi) => ~Before(e, NextDate(r, d))
  <2>1. CASE Window(r, from, to)
    BY <1>9, <1>10, <2>1, FirstIs
  <2>2. CASE ~Window(r, from, to)
    <3>1. Before(hi, lo)
      BY <1>8, <2>2, RuleFields DEF Window, After
    <3>2. ASSUME NEW e PROVE ~FallsIn(r, e, lo, hi)
      <4>1. ASSUME IsDate(e), ~Before(e, lo), ~Before(hi, e) PROVE FALSE
        BY <1>9, <3>1, <4>1, BeforeOrders
      <4> QED BY <4>1 DEF FallsIn
    <3> QED BY <1>10, <2>2, <3>2
  <2> QED BY <2>1, <2>2
<1>16. ASSUME NextDate(r, d) # NoDate
       PROVE  /\ IsDate(NextDate(r, d)) /\ DueUnder(r, NextDate(r, d)) /\ Before(d, NextDate(r, d))
              /\ ~Before(to, NextDate(r, d))
  BY <1>14, <1>15, <1>16
<1>17. ASSUME NEW e, IsDate(e), DueUnder(r, e), Before(d, e),
              NextDate(r, d) = NoDate => DayNumber(e) <= DayNumber(d) + 366
       PROVE  NextDate(r, d) # NoDate /\ ~Before(e, NextDate(r, d))
  <2>1. CASE Before(to, e)
    <3>1. NextDate(r, d) # NoDate
      <4>1. PICK x \in Int : x = DayNumber(e)
        BY <1>17, DateOfNumber
      <4>2. k < x
        BY <1>7, <1>11, <1>17, <2>1, <4>1, BeforeIs
      <4>3. ~(x <= i + 366)
        BY <1>7, <1>11, <1>12, <4>2
      <4> QED BY <1>11, <1>17, <4>1, <4>3
    <3>2. ~Before(e, NextDate(r, d))
      BY <1>7, <1>16, <1>17, <2>1, <3>1, BeforeOrders
    <3> QED BY <3>1, <3>2
  <2>2. CASE ~Before(to, e)
    <3>1. FallsIn(r, e, lo, hi)
      BY <1>14, <1>17, <2>2
    <3> QED BY <1>15, <3>1
  <2> QED BY <2>1, <2>2
<1> QED BY <1>16, <1>17

(* The probes reach back by whole numbers.                                 *)
LEMMA Powers == \A k \in 0 .. MaxProbes : 4 ^ k \in Nat
<1>1. 4 ^ 0 \in Nat /\ 4 ^ 1 \in Nat /\ 4 ^ 2 \in Nat /\ 4 ^ 3 \in Nat /\ 4 ^ 4 \in Nat
      /\ 4 ^ 5 \in Nat
  BY SMT
<1>2. 4 ^ 6 \in Nat /\ 4 ^ 7 \in Nat /\ 4 ^ 8 \in Nat /\ 4 ^ 9 \in Nat /\ 4 ^ 10 \in Nat
  BY SMT
<1>3. \A k \in 0 .. 10 : \/ k = 0 \/ k = 1 \/ k = 2 \/ k = 3 \/ k = 4 \/ k = 5
                         \/ k = 6 \/ k = 7 \/ k = 8 \/ k = 9 \/ k = 10
  BY SMT
<1> QED BY <1>1, <1>2, <1>3 DEF MaxProbes

(* Each probe of Last ends on the last due date, if it yields any; the     *)
(* farthest starts at the rule's own start.                                *)
LEMMA LastIs ==
    ASSUME NEW r, IsRule(r), r.until # NoDate, Reached(r.dtstart, r.until)
    PROVE  LET last == LastDate(r)
           IN  /\ last # NoDate => IsDate(last) /\ DueUnder(r, last)
               /\ \A e : IsDate(e) /\ DueUnder(r, e) => last # NoDate /\ ~Before(last, e)
<1>1. IsDate(r.dtstart) /\ IsDate(r.until) /\ Valid(r) /\ LastProbeDays \in Nat \ {0}
  BY RuleFields, RecurrenceConstants
<1> DEFINE S == {Each(r, lo, r.until) : lo \in ProbeStarts(r)} \ {<<>>}
<1>2. LastDate(r) = EndOf(S)
  BY <1>1 DEF LastDate
<1>3. ASSUME NEW lo \in ProbeStarts(r)
      PROVE  IsDate(lo) /\ ~Before(lo, r.dtstart)
  <2>1. PICK k \in 0 .. MaxProbes : lo = Latest(AddDays(r.until, -LastProbeDays * 4 ^ k), r.dtstart)
    BY <1>3 DEF ProbeStarts
  <2>2. PICK x \in Int : x = -LastProbeDays * 4 ^ k
    <3>1. PICK p, q \in Nat : p = LastProbeDays /\ q = 4 ^ k
      BY <1>1, Powers
    <3>2. -p * q \in Int
      BY <3>1, SMT
    <3> QED BY <3>1, <3>2
  <2>3. IsDate(AddDays(r.until, x))
    BY <1>1, <2>2, AddDaysIs
  <2> QED BY <1>1, <2>1, <2>2, <2>3, BeforeOrders DEF Latest
<1>4. ASSUME NEW lo \in ProbeStarts(r)
      PROVE  /\ Each(r, lo, r.until) \in Seq(CivilDate) /\ Ascending(Each(r, lo, r.until))
             /\ \A d : Holds(Each(r, lo, r.until), d) <=> FallsIn(r, d, lo, r.until)
  BY <1>1, <1>3, EachIs
<1>5. ASSUME NEW lo, IsDate(lo), NEW d, FallsIn(r, d, lo, r.until), ~Before(lo, r.dtstart)
      PROVE  IsDate(d) /\ DueUnder(r, d)
  <2>1. ~Before(d, r.dtstart)
    BY <1>1, <1>5, BeforeOrders DEF FallsIn
  <2> QED BY <1>5, <2>1 DEF FallsIn, DueUnder, After
<1>6. ASSUME NEW s \in S
      PROVE  LET last == s[Len(s)]
             IN  /\ IsDate(last) /\ DueUnder(r, last)
                 /\ \A e : IsDate(e) /\ DueUnder(r, e) => ~Before(last, e)
  <2>1. PICK lo \in ProbeStarts(r) : s = Each(r, lo, r.until) /\ s # <<>>
    OBVIOUS
  <2> HIDE DEF S
  <2>2. s \in Seq(CivilDate) /\ Ascending(s) /\ \A d : Holds(s, d) <=> FallsIn(r, d, lo, r.until)
    BY <1>4, <2>1
  <2>3. PICK n \in Nat : n = Len(s) /\ n \in 1 .. Len(s)
    BY <2>1, <2>2
  <2>4. Holds(s, s[n])
    BY <2>3 DEF Holds
  <2>5. FallsIn(r, s[n], lo, r.until)
    BY <2>2, <2>4
  <2>6. IsDate(s[n]) /\ DueUnder(r, s[n])
    BY <1>3, <1>5, <2>5
  <2>7. ASSUME NEW e, IsDate(e), DueUnder(r, e) PROVE ~Before(s[n], e)
    <3>1. CASE Before(e, lo)
      <4>1. ~Before(s[n], lo) /\ IsDate(lo)
        BY <1>3, <2>5 DEF FallsIn
      <4>2. PICK x, y, z \in Int : x = DayNumber(e) /\ y = DayNumber(lo) /\ z = DayNumber(s[n])
        BY <2>6, <2>7, <4>1, DateOfNumber
      <4> QED BY <2>6, <2>7, <3>1, <4>1, <4>2, BeforeIs
    <3>2. CASE ~Before(e, lo)
      <4>1. FallsIn(r, e, lo, r.until)
        BY <1>1, <2>7, <3>2, Parts DEF FallsIn, DueUnder, After
      <4>2. PICK i \in 1 .. Len(s) : s[i] = e
        BY <2>2, <4>1 DEF Holds
      <4>3. i = n \/ i < n
        BY <2>3
      <4>4. i = n \/ Before(e, s[n])
        BY <2>2, <2>3, <4>2, <4>3 DEF Ascending
      <4> QED BY <2>6, <2>7, <4>2, <4>4, BeforeOrders
    <3> QED BY <3>1, <3>2
  <2> QED BY <2>3, <2>6, <2>7
<1>7. S # {} => Shortest(S) \in S
  <2> DEFINE L == {Len(s) : s \in S}
  <2>1. ASSUME S # {} PROVE \E p \in S : \A q \in S : Len(p) <= Len(q)
    <3>1. \A s \in S : Len(s) \in Nat
      BY <1>4
    <3> HIDE DEF S
    <3>2. L \in SUBSET Nat /\ L # {}
      BY <2>1, <3>1
    <3>3. PICK m \in L : \A n \in L : m <= n
      <4> HIDE DEF L
      <4> QED BY <3>2, LeastOf
    <3> QED BY <3>3
  <2> HIDE DEF S, L
  <2> QED BY <2>1 DEF Shortest
<1>8. CASE S = {}
  <2>1. LastDate(r) = NoDate
    <3> HIDE DEF S
    <3> QED BY <1>2, <1>8 DEF EndOf
  <2>2. r.dtstart \in ProbeStarts(r)
    <3>1. PICK p, q, i, j \in Int : p = LastProbeDays /\ q = 4 ^ MaxProbes
             /\ i = DayNumber(r.until) /\ j = DayNumber(r.dtstart)
      BY <1>1, Powers, DateOfNumber DEF MaxProbes
    <3>2. PICK x \in Int : x = -p * q
      BY SMT
    <3>3. i - j <= p * q
      BY <1>1, <3>1, Parts DEF Reached, DaysUntil
    <3>4. -p * q = -(p * q) /\ p * q \in Int
      BY SMT
    <3>5. IsDate(AddDays(r.until, x)) /\ DayNumber(AddDays(r.until, x)) = i + x
      BY <1>1, <3>1, AddDaysIs
    <3>6. i + x <= j
      BY <3>2, <3>3, <3>4
    <3>7. Before(AddDays(r.until, x), r.dtstart) \/ AddDays(r.until, x) = r.dtstart
      <4>1. i + x < j \/ i + x = j
        BY <3>6
      <4> QED BY <1>1, <3>1, <3>5, <4>1, BeforeIs, SameNumber
    <3>8. Latest(AddDays(r.until, x), r.dtstart) = r.dtstart
      BY <3>7 DEF Latest
    <3>9. x = -LastProbeDays * 4 ^ MaxProbes /\ MaxProbes \in 0 .. MaxProbes
      BY <3>1, <3>2 DEF MaxProbes
    <3> QED BY <3>8, <3>9 DEF ProbeStarts
  <2>3. Each(r, r.dtstart, r.until) = <<>>
    BY <1>8, <2>2
  <2>4. ASSUME NEW e, IsDate(e), DueUnder(r, e) PROVE FALSE
    <3>1. FallsIn(r, e, r.dtstart, r.until)
      BY <1>1, <2>4, Parts DEF FallsIn, DueUnder, After
    <3>2. Holds(<<>>, e)
      BY <1>4, <2>2, <2>3, <3>1
    <3> QED BY <3>2 DEF Holds
  <2> QED BY <2>1, <2>4
<1>9. CASE S # {}
  <2>1. LastDate(r) = Shortest(S)[Len(Shortest(S))]
    <3> HIDE DEF S
    <3> QED BY <1>2, <1>9 DEF EndOf
  <2>2. PICK last : last = LastDate(r)
    OBVIOUS
  <2>3. /\ IsDate(last) /\ DueUnder(r, last)
        /\ \A e : IsDate(e) /\ DueUnder(r, e) => ~Before(last, e)
    <3> HIDE DEF S
    <3> QED BY <1>6, <1>7, <1>9, <2>1, <2>2
  <2>4. last # NoDate
    BY <2>3, Parts
  <2> QED BY <2>2, <2>3, <2>4
<1> QED BY <1>8, <1>9

-----------------------------------------------------------------------------
(* Dragging an occurrence.                                                 *)

(* Reanchoring moves the selectors with the occurrence: the rule stays     *)
(* valid, starts on the new day, picks it, and has not ended before it.    *)
LEMMA MovedPicks ==
    ASSUME NEW r, IsRule(r), NEW d, IsDate(d), DueUnder(r, d), NEW to, IsDate(to)
    PROVE  LET m == Moved(r, d, to)
           IN  IsRule(m) /\ m.dtstart = to /\ Picks(m, to)
               /\ (m.until = NoDate \/ ~Before(m.until, to))
<1> DEFINE q == [r EXCEPT !.dtstart = to,
                          !.until = IF @ # NoDate /\ Before(@, to) THEN to ELSE @]
<1>1. r \in Rules /\ Valid(r) /\ IsDate(r.dtstart) /\ (r.until = NoDate \/ IsDate(r.until))
  BY RuleFields DEF IsRule
<1>2. to \in Int \X Int \X Int /\ to # NoDate
  <2>1. to \in Int \X Int \X Int
    BY DEF IsDate
  <2> QED BY <2>1, Parts
<1>3. PICK u : u = IF r.until # NoDate /\ Before(r.until, to) THEN to ELSE r.until
  OBVIOUS
<1>4. /\ u \in {x \in Int \X Int \X Int : x = NoDate \/ IsDate(x)}
      /\ u = NoDate \/ ~Before(u, to)
  BY <1>1, <1>2, <1>3, BeforeOrders DEF Rules
<1>5. /\ q \in Rules /\ q.dtstart = to /\ q.until = u
      /\ q.freq = r.freq /\ q.interval = r.interval /\ q.weekdays = r.weekdays
      /\ q.ordinal = r.ordinal /\ q.monthday = r.monthday /\ q.lastDay = r.lastDay
  BY <1>1, <1>2, <1>3, <1>4 DEF Rules
<1>6. Moved(r, d, to) = Reanchor(q, d, to)
  BY DEF Moved
<1> HIDE DEF q
<1>7. PICK m : m = Reanchor(q, d, to)
  OBVIOUS
<1>8. Picks(r, d)
  BY DEF DueUnder, Falls
<1>9. Weekday(to) \in 0 .. 6 /\ Weekday(d) \in 0 .. 6
  BY Weeks
<1>10. r.interval >= 1 /\ r.freq \in {"daily", "weekly", "monthly", "yearly"}
       /\ r.weekdays \subseteq 0 .. 6
  BY RuleFields
<1>11. ASSUME m \in Rules, m.freq = r.freq, m.interval = r.interval, m.dtstart = to, m.until = u,
              m.freq = "monthly" => ValidMonthly(m)
       PROVE  IsRule(m) /\ (m.until = NoDate \/ ~Before(m.until, to))
  <2>1. m.weekdays \subseteq 0 .. 6
    BY <1>11 DEF Rules
  <2>2. Valid(m)
    BY <1>2, <1>4, <1>10, <1>11, <2>1 DEF Valid
  <2> QED BY <1>4, <1>11, <2>2 DEF IsRule
<1>12. CASE r.freq = "weekly"
  <2> DEFINE W == {(wd + Weekday(to) - Weekday(d)) % 7 : wd \in r.weekdays}
  <2>1. W \subseteq 0 .. 6
    <3>1. ASSUME NEW wd \in r.weekdays PROVE (wd + Weekday(to) - Weekday(d)) % 7 \in 0 .. 6
      <4>1. wd \in 0 .. 6
        BY <1>10
      <4> QED BY <1>9, <4>1, SMT
    <3> QED BY <3>1
  <2>2. m = [q EXCEPT !.weekdays = W]
    BY <1>5, <1>7, <1>12 DEF Reanchor
  <2>3. (r.weekdays = {} => W = {}) /\ (r.weekdays # {} => W # {} /\ Weekday(to) \in W)
    <3>1. ASSUME r.weekdays # {} PROVE Weekday(to) \in W
      <4>1. Weekday(d) \in r.weekdays
        BY <1>8, <1>12, <3>1 DEF Picks
      <4>2. (Weekday(d) + Weekday(to) - Weekday(d)) % 7 = Weekday(to)
        BY <1>9, SMT
      <4> QED BY <4>1, <4>2
    <3> QED BY <3>1
  <2> HIDE DEF W
  <2>4. /\ m \in Rules /\ m.freq = r.freq /\ m.interval = r.interval /\ m.dtstart = to
        /\ m.until = u /\ m.weekdays = W
    BY <1>5, <2>1, <2>2 DEF Rules
  <2>5. Picks(m, to)
    BY <1>12, <2>3, <2>4 DEF Picks
  <2> QED BY <1>6, <1>7, <1>11, <1>12, <2>4, <2>5
<1>13. CASE r.freq \in {"daily", "yearly"}
  <2>1. m = q
    BY <1>5, <1>7, <1>13 DEF Reanchor
  <2>2. Picks(m, to)
    BY <1>5, <1>13, <2>1 DEF Picks, PicksYearly
  <2> QED BY <1>5, <1>6, <1>7, <1>11, <1>13, <2>1, <2>2
<1>14. CASE r.freq = "monthly"
  <2>1. ValidMonthly(r) /\ r.lastDay \in BOOLEAN /\ q.lastDay \in BOOLEAN
    BY <1>1, <1>5, <1>14 DEF Valid, Rules
  <2>2. /\ r.monthday \in (1 .. 31) \cup {Unset}
        /\ r.ordinal \in (1 .. 5) \cup {-1, Unset}
        /\ \/ r.monthday # Unset /\ r.ordinal = Unset /\ r.weekdays = {} /\ ~r.lastDay
           \/ r.monthday = Unset /\ r.ordinal # Unset /\ r.weekdays # {} /\ ~r.lastDay
           \/ r.monthday = Unset /\ r.ordinal = Unset /\ r.weekdays = {} /\ r.lastDay
    BY <2>1, ValidMonthlyIs
  <2>3. PicksMonthly(r, d)
    BY <1>8, <1>14 DEF Picks
  <2>4. Day(to) \in 1 .. 31 /\ Day(to) # Unset
    BY Parts DEF Unset
  <2>5. CASE d # to /\ r.monthday # Unset
    <3>1. m = [q EXCEPT !.monthday = Day(to)]
      BY <1>5, <1>7, <1>14, <2>2, <2>5 DEF Reanchor
    <3>2. /\ m \in Rules /\ m.freq = r.freq /\ m.interval = r.interval /\ m.dtstart = to
          /\ m.until = u
          /\ m.monthday = Day(to) /\ m.ordinal = Unset /\ m.weekdays = {} /\ ~m.lastDay
          /\ m.lastDay \in BOOLEAN
      BY <1>5, <2>1, <2>2, <2>4, <2>5, <3>1 DEF Rules
    <3>3. ValidMonthly(m)
      BY <2>4, <3>2, ValidMonthlyIs
    <3>4. PicksMonthly(m, to)
      BY <2>4, <3>2 DEF PicksMonthly, Unset
    <3>5. Picks(m, to)
      BY <1>14, <3>2, <3>4 DEF Picks
    <3> QED BY <1>6, <1>7, <1>11, <3>2, <3>3, <3>5
  <2>6. CASE d # to /\ r.ordinal # Unset
    <3>1. PICK o \in 1 .. 5 : o = (Day(to) - 1) \div 7 + 1 /\ o = (Day(to) + 6) \div 7
      BY <2>4, SMT
    <3>2. m = [q EXCEPT !.ordinal = o, !.weekdays = {Weekday(to)}]
      BY <1>5, <1>7, <1>14, <2>2, <2>6, <3>1 DEF Reanchor
    <3>3. /\ m \in Rules /\ m.freq = r.freq /\ m.interval = r.interval /\ m.dtstart = to
          /\ m.until = u
          /\ m.monthday = Unset /\ m.ordinal = o /\ m.weekdays = {Weekday(to)} /\ ~m.lastDay
          /\ m.lastDay \in BOOLEAN
      <4>1. {Weekday(to)} \in SUBSET (0 .. 6) /\ o \in Int
        BY <1>9, <3>1
      <4>2. r.monthday = Unset /\ ~r.lastDay
        BY <2>2, <2>6
      <4>3. q.monthday = Unset /\ ~q.lastDay
        BY <1>5, <4>2
      <4>4. m \in Rules
        BY <1>5, <3>2, <4>1 DEF Rules
      <4>5. /\ m.freq = q.freq /\ m.interval = q.interval /\ m.dtstart = q.dtstart
            /\ m.until = q.until
            /\ m.monthday = q.monthday /\ m.lastDay = q.lastDay /\ m.ordinal = o
            /\ m.weekdays = {Weekday(to)}
        BY <1>5, <3>2 DEF Rules
      <4> QED BY <1>5, <2>1, <4>3, <4>4, <4>5
    <3>4. ValidMonthly(m)
      BY <3>3, ValidMonthlyIs DEF Unset
    <3>5. PicksMonthly(m, to)
      BY <3>1, <3>3 DEF PicksMonthly, Unset
    <3>6. Picks(m, to)
      BY <1>14, <3>3, <3>5 DEF Picks
    <3> QED BY <1>6, <1>7, <1>11, <3>3, <3>4, <3>6
  <2>7. CASE d # to /\ r.lastDay /\ to # LastDayOfMonth(Year(to), Month(to))
    <3>1. m = [q EXCEPT !.lastDay = FALSE, !.monthday = Day(to)]
      BY <1>5, <1>7, <1>14, <2>2, <2>7 DEF Reanchor
    <3>2. /\ m \in Rules /\ m.freq = r.freq /\ m.interval = r.interval /\ m.dtstart = to
          /\ m.until = u
          /\ m.monthday = Day(to) /\ m.ordinal = Unset /\ m.weekdays = {} /\ ~m.lastDay
          /\ m.lastDay \in BOOLEAN
      <4>1. Day(to) \in Int
        BY <2>4
      <4>2. r.ordinal = Unset /\ r.weekdays = {}
        BY <2>2, <2>7
      <4>3. q.ordinal = Unset /\ q.weekdays = {}
        BY <1>5, <4>2
      <4>4. m \in Rules
        BY <1>5, <3>1, <4>1 DEF Rules
      <4>5. /\ m.freq = q.freq /\ m.interval = q.interval /\ m.dtstart = q.dtstart
            /\ m.until = q.until
            /\ m.ordinal = q.ordinal /\ m.weekdays = q.weekdays /\ m.lastDay = FALSE
            /\ m.monthday = Day(to)
        BY <1>5, <3>1 DEF Rules
      <4> QED BY <1>5, <4>3, <4>4, <4>5
    <3>3. ValidMonthly(m)
      BY <2>4, <3>2, ValidMonthlyIs
    <3>4. PicksMonthly(m, to)
      BY <2>4, <3>2 DEF PicksMonthly, Unset
    <3>5. Picks(m, to)
      BY <1>14, <3>2, <3>4 DEF Picks
    <3> QED BY <1>6, <1>7, <1>11, <3>2, <3>3, <3>5
  <2>8. CASE d = to \/ (r.lastDay /\ to = LastDayOfMonth(Year(to), Month(to)))
    <3>1. m = q
      BY <1>5, <1>7, <1>14, <2>2, <2>8 DEF Reanchor
    <3>2. ValidMonthly(m)
      BY <1>5, <2>1, <2>2, <3>1, ValidMonthlyIs
    <3>3. PicksMonthly(m, to) <=> PicksMonthly(r, to)
      BY <1>5, <3>1 DEF PicksMonthly
    <3>4. PicksMonthly(r, to)
      <4>1. CASE d = to
        BY <2>3, <4>1
      <4>2. CASE r.lastDay /\ to = LastDayOfMonth(Year(to), Month(to))
        <5>1. Year(to) \in Int /\ Month(to) \in 1 .. 12
          BY Parts
        <5>2. Day(to) = DaysInMonth(Year(to), Month(to))
          BY <4>2, <5>1, LastOfMonth
        <5>3. EndsMonth(to)
          BY <5>2, EndsMonthIs
        <5> QED BY <2>2, <4>2, <5>3 DEF PicksMonthly, Unset
      <4> QED BY <2>8, <4>1, <4>2
    <3>5. Picks(m, to)
      BY <1>5, <1>14, <3>1, <3>3, <3>4 DEF Picks
    <3>6. m \in Rules /\ m.freq = r.freq /\ m.interval = r.interval /\ m.dtstart = to /\ m.until = u
      BY <1>5, <3>1
    <3>7. IsRule(m) /\ (m.until = NoDate \/ ~Before(m.until, to))
      BY <1>11, <3>2, <3>6
    <3>8. Moved(r, d, to) = m
      BY <1>6, <1>7
    <3> QED BY <3>5, <3>6, <3>7, <3>8
  <2> QED BY <2>2, <2>5, <2>6, <2>7, <2>8
<1> QED BY <1>10, <1>12, <1>13, <1>14

(* So the moved rule occurs on the day it was moved to.                    *)
THEOREM MovedOccurs ==
    ASSUME NEW r, IsRule(r), NEW d, IsDate(d), DueUnder(r, d), NEW to, IsDate(to)
    PROVE  Valid(Moved(r, d, to)) /\ Occurs(Moved(r, d, to), to)
<1>1. PICK m : m = Moved(r, d, to)
  OBVIOUS
<1>2. IsRule(m) /\ m.dtstart = to /\ Picks(m, to) /\ (m.until = NoDate \/ ~Before(m.until, to))
  BY <1>1, MovedPicks
<1>3. ~Before(to, to)
  BY BeforeOrders
<1>4. Falls(m, to)
  <2>1. Unit(m, to) - Unit(m, to) = 0
    BY <1>2, UnitIs
  <2>2. m.interval \in Nat /\ m.interval >= 1
    BY <1>2, RuleFields
  <2>3. 0 % m.interval = 0
    <3>1. 0 * m.interval = 0
      BY <2>2
    <3> QED BY <2>2, <3>1, MultipleOf
  <2> QED BY <1>2, <2>1, <2>3 DEF Falls
<1>5. FallsIn(m, to, to, to)
  BY <1>3, <1>4 DEF FallsIn
<1>6. FirstOf(m, to, to) # NoDate
  BY <1>2, <1>3, <1>5, FirstIs
<1>7. ~Before(to, Lo(m, to)) /\ ~Before(Hi(m, to), to) /\ IsDate(Lo(m, to)) /\ IsDate(Hi(m, to))
  BY <1>2, <1>3, Bounds
<1>8. ~Before(Hi(m, to), Lo(m, to))
  BY <1>7, BeforeOrders
<1>9. Lo(m, to) = to
  BY <1>2, <1>3 DEF Lo, Latest
<1>10. Hi(m, to) = to
  <2>1. CASE m.until = NoDate
    BY <2>1 DEF Hi
  <2>2. CASE m.until # NoDate
    <3>1. IsDate(m.until)
      BY <1>2, <2>2, RuleFields
    <3> QED BY <1>2, <2>2, <3>1, BeforeOrders DEF Hi, Earliest
  <2> QED BY <2>1, <2>2
<1>11. Window(m, to, to)
  BY <1>2, <1>8, RuleFields DEF Window, After
<1> QED BY <1>1, <1>2, <1>6, <1>11, RuleFields DEF Occurs

-----------------------------------------------------------------------------
(* The inductive invariant: the diary holds a date, a rule that validate   *)
(* accepts, an event that starts on the rule's first day and a zone of the *)
(* kind date.go speaks of.                                                 *)

Inv ==
    /\ IsDate(day) /\ looks \in 1 .. MaxLooks
    /\ IsRule(rule) /\ Reached(rule.dtstart, rule.until)
    /\ IsZone(zone) /\ ZoneOK(zone)
    /\ event.allDay \in BOOLEAN /\ event.starts \in Int
    /\ event.length \in Nat /\ event.span \in Nat
    /\ event.allDay \/ DateIn(event.starts, zone) = rule.dtstart

(* A pattern of the store, begun on a date, is a rule once validate has    *)
(* accepted it.                                                            *)
LEMMA Entered ==
    ASSUME NEW p, IsPattern(p), NEW d, IsDate(d), NEW r, Valid(r),
           r = [freq |-> p.freq, interval |-> p.interval, weekdays |-> p.weekdays,
                ordinal |-> p.ordinal, monthday |-> p.monthday, lastDay |-> p.lastDay,
                until |-> p.until, dtstart |-> d]
    PROVE  IsRule(r) /\ r.dtstart = d /\ r.until = p.until
<1>1. /\ p.freq \in STRING /\ p.interval \in Int /\ p.ordinal \in Int
      /\ p.monthday \in Int /\ p.lastDay \in BOOLEAN /\ p.until \in Int \X Int \X Int
      /\ p.until = NoDate \/ IsDate(p.until)
  BY DEF IsPattern
<1>2. d \in Int \X Int \X Int
  BY DEF IsDate
<1>3. /\ r.freq = p.freq /\ r.interval = p.interval /\ r.weekdays = p.weekdays
      /\ r.until = p.until /\ r.dtstart = d
  OBVIOUS
<1>4. /\ r.freq \in {"daily", "weekly", "monthly", "yearly"} /\ r.interval >= 1
      /\ r.weekdays \subseteq 0 .. 6
  BY DEF Valid
<1>5. /\ p.freq \in {"daily", "weekly", "monthly", "yearly"} /\ p.interval \in Nat \ {0}
      /\ p.weekdays \in SUBSET (0 .. 6)
  BY <1>1, <1>3, <1>4
<1>6. p.until \in {x \in Int \X Int \X Int : x = NoDate \/ IsDate(x)}
  BY <1>1
<1>7. r \in Rules
  BY <1>1, <1>2, <1>5, <1>6 DEF Rules
<1> QED BY <1>3, <1>7 DEF IsRule

(* The invariant holds at the start ...                                    *)
LEMMA InvInit == Init => Inv
<1> SUFFICES ASSUME Init PROVE Inv
  OBVIOUS
<1>1. day \in Beginnings /\ looks = 1
  BY DEF Init
<1>2. IsDate(day) /\ looks \in 1 .. MaxLooks
  BY <1>1, DiaryConstants
<1>3. PICK k \in Diaries :
          \/ \E n \in Spans : Enter(AllDay(n), k[1], k[2])
          \/ \E c \in Hours, n \in Lengths :
                \E t \in {i \in Reads(day, k[2]) : ClockIn(i, k[2]) = c} :
                    Enter(Timed(t, n), k[1], k[2])
  BY DEF Init
<1>4. IsPattern(k[1]) /\ IsZone(k[2]) /\ ZoneOK(k[2]) /\ Reached(day, k[1].until)
  BY <1>1, DiaryConstants
<1>5. CASE \E n \in Spans : Enter(AllDay(n), k[1], k[2])
  <2>1. PICK n \in Spans : Enter(AllDay(n), k[1], k[2])
    BY <1>5
  <2>2. /\ event.allDay = TRUE /\ event.starts = 0 /\ event.length = 0 /\ event.span = n
        /\ n \in Nat /\ zone = k[2]
    BY <2>1, DiaryConstants DEF Enter, AllDay
  <2>3. /\ Valid(rule)
        /\ rule = [freq |-> k[1].freq, interval |-> k[1].interval, weekdays |-> k[1].weekdays,
                   ordinal |-> k[1].ordinal, monthday |-> k[1].monthday,
                   lastDay |-> k[1].lastDay, until |-> k[1].until, dtstart |-> day]
    BY <2>1 DEF Enter, AllDay
  <2>4. IsRule(rule) /\ rule.dtstart = day /\ rule.until = k[1].until
    BY <1>2, <1>4, <2>3, Entered
  <2>5. IsZone(zone) /\ ZoneOK(zone) /\ Reached(rule.dtstart, rule.until)
    BY <1>4, <2>2, <2>4
  <2>6. event.allDay \in BOOLEAN /\ (event.allDay \/ DateIn(event.starts, zone) = rule.dtstart)
    BY <2>2
  <2>7. event.starts \in Int /\ event.length \in Nat /\ event.span \in Nat
    BY <2>2
  <2> QED BY <1>2, <2>4, <2>5, <2>6, <2>7, Zenon DEF Inv
<1>6. CASE \E c \in Hours, n \in Lengths :
               \E t \in {i \in Reads(day, k[2]) : ClockIn(i, k[2]) = c} :
                   Enter(Timed(t, n), k[1], k[2])
  <2>1. PICK n \in Lengths, t \in Reads(day, k[2]) : Enter(Timed(t, n), k[1], k[2])
    BY <1>6
  <2>2. /\ event.allDay = FALSE /\ event.starts = t /\ event.length = n /\ event.span = 0
        /\ n \in Nat /\ zone = k[2]
    BY <2>1, DiaryConstants DEF Enter, Timed
  <2>3. t \in Int /\ DateIn(t, k[2]) = day
    BY <1>2, <1>4, ReadsIs
  <2>4. /\ Valid(rule)
        /\ rule = [freq |-> k[1].freq, interval |-> k[1].interval, weekdays |-> k[1].weekdays,
                   ordinal |-> k[1].ordinal, monthday |-> k[1].monthday,
                   lastDay |-> k[1].lastDay, until |-> k[1].until, dtstart |-> day]
    BY <2>1, <2>3 DEF Enter, Timed
  <2>5. IsRule(rule) /\ rule.dtstart = day /\ rule.until = k[1].until
    BY <1>2, <1>4, <2>4, Entered
  <2>6. IsZone(zone) /\ ZoneOK(zone) /\ Reached(rule.dtstart, rule.until)
    BY <1>4, <2>2, <2>5
  <2>7. event.starts \in Int /\ DateIn(event.starts, zone) = rule.dtstart
    BY <2>2, <2>3, <2>5
  <2>8. event.allDay \in BOOLEAN
    BY <2>2
  <2>9. event.length \in Nat /\ event.span \in Nat
    BY <2>2
  <2> QED BY <1>2, <2>5, <2>6, <2>7, <2>8, <2>9, Zenon DEF Inv
<1> QED BY <1>3, <1>5, <1>6

(* ... and every look keeps it: an edit is a new behaviour, a look moves   *)
(* the day only.                                                           *)
LEMMA InvNext == Inv /\ [Next]_vars => Inv'
<1> SUFFICES ASSUME Inv, [Next]_vars PROVE Inv'
  OBVIOUS
<1>1. ASSUME NEW d, IsDate(d), Look(d) PROVE Inv'
  <2>1. day' = d /\ looks' \in 1 .. MaxLooks
    BY <1>1, DiaryConstants DEF Inv, Look
  <2>2. event' = event /\ rule' = rule /\ zone' = zone
    BY <1>1 DEF Look
  <2> QED BY <1>1, <2>1, <2>2 DEF Inv
<1>2. CASE Turn
  <2>1. IsDate(AddDays(day, 1))
    BY AddDaysIs DEF Inv
  <2> QED BY <1>1, <1>2, <2>1 DEF Turn
<1>3. CASE Jump
  <2>1. NextDate(rule, day) # NoDate
    BY <1>3 DEF Jump
  <2>2. IsDate(NextDate(rule, day))
    BY <2>1, NextIs DEF Inv
  <2> QED BY <1>1, <1>3, <2>2 DEF Jump
<1>4. CASE UNCHANGED vars
  BY <1>4 DEF vars, Inv
<1> QED BY <1>2, <1>3, <1>4 DEF Next

-----------------------------------------------------------------------------
(* What the invariant implies, property by property.                       *)

(* In a reachable state Due is DueUnder.                                   *)
LEMMA DueMeans ==
    ASSUME Inv, NEW d
    PROVE  Due(d) <=> DueUnder(rule, d)
BY RuleFields, DueIs DEF Inv

(* The first instant of the day looked at.                                 *)
LEMMA DaysStart == Inv => DayStarts
<1> SUFFICES ASSUME Inv, Reads(day, zone) # {}
             PROVE  In(day, zone) \in Reads(day, zone) /\ \A t \in Reads(day, zone) : In(day, zone) <= t
  BY DEF DayStarts
<1>1. Happens(day, zone)
  BY DEF Happens
<1>2. IsZone(zone) /\ ZoneOK(zone) /\ IsDate(day)
  BY DEF Inv
<1> QED BY <1>1, <1>2, InIsFirst

(* A dragged occurrence.                                                   *)
LEMMA DragsLand == Inv => DragLands
<1> SUFFICES ASSUME Inv, Due(day), NEW k \in Drags
             PROVE  LET to == AddDays(day, k)
                    IN  Valid(Moved(rule, day, to)) /\ Occurs(Moved(rule, day, to), to)
  BY DEF DragLands
<1>1. IsDate(AddDays(day, k))
  BY DiaryConstants, AddDaysIs DEF Inv
<1>2. IsRule(rule) /\ IsDate(day) /\ DueUnder(rule, day)
  BY DueMeans DEF Inv
<1> QED BY <1>1, <1>2, MovedOccurs

(* A date from another, and the order, by the days between.                *)
LEMMA DaysAhead ==
    ASSUME NEW d, IsDate(d), NEW o, IsDate(o)
    PROVE  /\ DaysUntil(d, o) \in Int
           /\ o = AddDays(d, DaysUntil(d, o))
           /\ ~Before(o, d) <=> DaysUntil(d, o) >= 0
           /\ Before(d, o) <=> DaysUntil(d, o) >= 1
<1>1. DayNumber(d) \in Int /\ DayNumber(o) \in Int
  BY DateOfNumber
<1>2. DaysUntil(d, o) = DayNumber(o) - DayNumber(d)
  BY DEF DaysUntil
<1>3. PICK n \in Int : n = DaysUntil(d, o)
  BY <1>1, <1>2
<1>4. IsDate(AddDays(d, n)) /\ DayNumber(AddDays(d, n)) = DayNumber(d) + n
  BY AddDaysIs
<1>5. o = AddDays(d, n)
  BY <1>1, <1>2, <1>3, <1>4, SameNumber
<1>6. Before(o, d) <=> DayNumber(o) < DayNumber(d)
  BY BeforeIs
<1>7. Before(d, o) <=> DayNumber(d) < DayNumber(o)
  BY BeforeIs
<1> QED BY <1>1, <1>2, <1>3, <1>5, <1>6, <1>7

(* Forty-one days from the day looked at.                                  *)
LEMMA Expands == Inv => ExpandIsRight
<1> SUFFICES ASSUME Inv PROVE ExpandIsRight
  OBVIOUS
<1> DEFINE to == AddDays(day, 40)
           ds == Expand(rule, day, to)
<1>1. IsRule(rule) /\ IsDate(day) /\ IsDate(to) /\ DayNumber(to) = DayNumber(day) + 40
  BY AddDaysIs DEF Inv
<1> HIDE DEF to
<1>2. /\ ds \in Seq(CivilDate) /\ Ascending(ds)
      /\ \A d : Holds(ds, d) <=>
            IsDate(d) /\ DueUnder(rule, d) /\ ~Before(d, day) /\ ~Before(to, d)
  BY <1>1, ExpandIs
<1>3. \A i \in 1 .. Len(ds) - 1 : Before(ds[i], ds[i + 1])
  <2>1. PICK n \in Nat : n = Len(ds) /\ DOMAIN ds = 1 .. n
    BY <1>2
  <2> HIDE DEF ds
  <2>2. ASSUME NEW i \in 1 .. n - 1 PROVE Before(ds[i], ds[i + 1])
    <3>1. i \in 1 .. n /\ i + 1 \in 1 .. n /\ i < i + 1
      BY <2>1
    <3> QED BY <1>2, <2>1, <3>1 DEF Ascending
  <2> QED BY <2>1, <2>2
<1>4. ASSUME NEW d
      PROVE  d \in Dated(day, to) <=> d \in {x \in Around(40) : Due(x)}
  <2>1. d \in Dated(day, to) <=> Holds(ds, d)
    BY DEF Dated, Holds
  <2>2. d \in Around(40) <=> IsDate(d) /\ ~Before(d, day) /\ ~Before(to, d)
    <3>1. ASSUME NEW k \in 0 .. 40, d = AddDays(day, k)
          PROVE  IsDate(d) /\ ~Before(d, day) /\ ~Before(to, d)
      <4>1. IsDate(d) /\ DayNumber(d) = DayNumber(day) + k
        BY <1>1, <3>1, AddDaysIs
      <4>2. Before(d, day) <=> DayNumber(d) < DayNumber(day)
        BY <1>1, <4>1, BeforeIs
      <4>3. Before(to, d) <=> DayNumber(to) < DayNumber(d)
        BY <1>1, <4>1, BeforeIs
      <4>4. DayNumber(day) \in Int
        BY <1>1, DateOfNumber
      <4> QED BY <1>1, <4>1, <4>2, <4>3, <4>4
    <3>2. ASSUME IsDate(d), ~Before(d, day), ~Before(to, d)
          PROVE  \E k \in 0 .. 40 : d = AddDays(day, k)
      <4>1. DaysUntil(day, d) \in Int /\ d = AddDays(day, DaysUntil(day, d)) /\ DaysUntil(day, d) >= 0
        BY <1>1, <3>2, DaysAhead
      <4>2. ~(DayNumber(to) < DayNumber(d))
        BY <1>1, <3>2, BeforeIs
      <4>3. DayNumber(day) \in Int /\ DayNumber(d) \in Int
        BY <1>1, <3>2, DateOfNumber
      <4>4. DaysUntil(day, d) \in 0 .. 40
        BY <1>1, <4>1, <4>2, <4>3 DEF DaysUntil
      <4> QED BY <4>1, <4>4
    <3> QED BY <3>1, <3>2 DEF Around
  <2>3. Due(d) <=> DueUnder(rule, d)
    BY DueMeans
  <2> QED BY <1>2, <2>1, <2>2, <2>3
<1>5. Dated(day, to) = {x \in Around(40) : Due(x)}
  BY <1>4
<1> QED BY <1>3, <1>5 DEF ExpandIsRight, to

(* The search forward.                                                     *)
LEMMA NextFinds == Inv => NextIsRight
<1> SUFFICES ASSUME Inv PROVE NextIsRight
  OBVIOUS
<1> DEFINE next == NextDate(rule, day)
           ahead == IF next = NoDate THEN 366 ELSE DaysUntil(day, next) - 1
<1>1. IsRule(rule) /\ IsDate(day) /\ DayNumber(day) \in Int
  BY DateOfNumber DEF Inv
<1>2. /\ next # NoDate => IsDate(next) /\ DueUnder(rule, next) /\ Before(day, next)
      /\ \A e : /\ IsDate(e) /\ DueUnder(rule, e) /\ Before(day, e)
                /\ next = NoDate => DayNumber(e) <= DayNumber(day) + 366
                => next # NoDate /\ ~Before(e, next)
  BY <1>1, NextIs
<1> HIDE DEF next
<1>3. next # NoDate => Due(next) /\ Before(day, next)
  BY <1>2, DueMeans
<1>4. ASSUME NEW k \in 1 .. ahead, Due(AddDays(day, k)) PROVE FALSE
  <2>1. PICK e : e = AddDays(day, k)
    OBVIOUS
  <2>2. next # NoDate => DaysUntil(day, next) \in Int
    BY <1>1, <1>2, DaysAhead
  <2>3. k \in Int /\ k >= 1
    BY <2>2
  <2>4. IsDate(e) /\ DayNumber(e) = DayNumber(day) + k
    BY <1>1, <2>1, <2>3, AddDaysIs
  <2>5. DueUnder(rule, e)
    BY <1>4, <2>1, DueMeans
  <2>6. Before(day, e)
    BY <1>1, <2>3, <2>4, BeforeIs
  <2>7. next = NoDate => DayNumber(e) <= DayNumber(day) + 366
    BY <1>1, <2>3, <2>4
  <2>8. next # NoDate /\ ~Before(e, next)
    BY <1>2, <2>4, <2>5, <2>6, <2>7
  <2>9. IsDate(next) /\ DayNumber(next) \in Int /\ ~(DayNumber(e) < DayNumber(next))
    BY <1>2, <2>4, <2>8, BeforeIs, DateOfNumber
  <2>10. k <= DayNumber(next) - DayNumber(day) - 1
    BY <1>1, <2>8, <2>9 DEF DaysUntil
  <2> QED BY <1>1, <2>3, <2>4, <2>9, <2>10
<1> QED BY <1>3, <1>4 DEF NextIsRight, next

(* The search back from the end.                                           *)
LEMMA LastFinds == Inv /\ rule.until # NoDate => LastIsRight
<1> SUFFICES ASSUME Inv, rule.until # NoDate PROVE LastIsRight
  OBVIOUS
<1> DEFINE last == LastDate(rule)
           from == IF last = NoDate THEN rule.dtstart ELSE AddDays(last, 1)
<1>1. IsRule(rule) /\ Reached(rule.dtstart, rule.until) /\ IsDate(rule.dtstart) /\ IsDate(rule.until)
  BY RuleFields DEF Inv
<1>2. /\ last # NoDate => IsDate(last) /\ DueUnder(rule, last)
      /\ \A e : IsDate(e) /\ DueUnder(rule, e) => last # NoDate /\ ~Before(last, e)
  BY <1>1, LastIs
<1> HIDE DEF last
<1>3. last # NoDate => Due(last)
  BY <1>2, DueMeans
<1>4. ASSUME NEW k \in 0 .. DaysUntil(from, rule.until), Due(AddDays(from, k)) PROVE FALSE
  <2>1. PICK e : e = AddDays(from, k)
    OBVIOUS
  <2>2. IsDate(from)
    <3>1. last # NoDate => IsDate(AddDays(last, 1))
      BY <1>2, AddDaysIs
    <3> QED BY <1>1, <3>1
  <2>3. last # NoDate => DayNumber(from) = DayNumber(last) + 1
    BY <1>2, AddDaysIs
  <2> HIDE DEF from
  <2>4. k \in Int /\ k >= 0 /\ DayNumber(from) \in Int
    BY <1>1, <2>2, DaysAhead, DateOfNumber
  <2>5. IsDate(e) /\ DayNumber(e) = DayNumber(from) + k
    BY <2>1, <2>2, <2>4, AddDaysIs
  <2>6. last # NoDate /\ ~Before(last, e)
    BY <1>2, <1>4, <2>1, <2>5, DueMeans
  <2>7. DayNumber(last) \in Int /\ ~(DayNumber(last) < DayNumber(e))
    BY <1>2, <2>5, <2>6, BeforeIs, DateOfNumber
  <2> QED BY <2>3, <2>4, <2>5, <2>6, <2>7
<1> QED BY <1>3, <1>4 DEF LastIsRight, last

LEMMA SearchFinds == Inv => SearchIsRight
BY NextFinds, LastFinds DEF SearchIsRight

(* An occurrence of a day that happens starts on it. *)
LEMMA StartsOnItsDay ==
    ASSUME Inv, NEW d, IsDate(d), event.allDay \/ Happens(d, zone)
    PROVE  /\ FirstDay(Shift(d)) = d
           /\ ~event.allDay => /\ Shift(d).starts \in Int /\ DateIn(Shift(d).starts, zone) = d
                               /\ Shift(d).starts = At(d, ClockIn(event.starts, zone), zone)
<1>1. CASE event.allDay
  BY <1>1 DEF FirstDay, Shift
<1>2. CASE ~event.allDay
  <2>1. ClockIn(event.starts, zone) \in 0 .. PerDay - 1
    BY ReadAs DEF Inv
  <2>2. Shift(d).starts = At(d, ClockIn(event.starts, zone), zone)
    BY <1>2 DEF Shift, AtTimeOf
  <2>3. At(d, ClockIn(event.starts, zone), zone) \in Int
        /\ DateIn(At(d, ClockIn(event.starts, zone), zone), zone) = d
    BY <1>2, <2>1, AtInDay DEF Inv
  <2> QED BY <1>2, <2>2, <2>3 DEF FirstDay
<1> QED BY <1>1, <1>2

(* At keeps the clock on every day that happens.                           *)
LEMMA AtKeeps ==
    ASSUME NEW d, IsDate(d), IsZone(zone), ZoneOK(zone), Happens(d, zone), NEW c \in 0 .. PerDay - 1
    PROVE  Keeps(At(d, c, zone), Reads(d, zone), c)
<1>1. At(d, c, zone) \in Reads(d, zone)
  BY AtInDay, ReadsIs
<1>2. ASSUME NEW i \in Reads(d, zone), ClockIn(i, zone) = c
      PROVE  ClockIn(At(d, c, zone), zone) = c
  <2>1. i \in Int /\ DateIn(i, zone) = d
    BY ReadsIs
  <2> QED BY <1>2, <2>1, AtOnClock
<1> QED BY <1>1, <1>2 DEF Keeps

(* Occurrences and reminders keep their clocks.                            *)
LEMMA ClockKept == Inv => ClockIsKept
<1> SUFFICES ASSUME Inv, Happens(day, zone), Due(day)
             PROVE  /\ event.allDay \/ Keeps(Shift(day).starts, Reads(day, zone), ClockIn(event.starts, zone))
                    /\ \A n \in {0, 1} :
                          LET reads == Reads(AddDays(day, -n), zone)
                          IN  reads # {} => \A c \in Hours : Keeps(ReminderDue(day, n, c), reads, c)
  BY DEF ClockIsKept
<1>1. IsDate(day) /\ IsZone(zone) /\ ZoneOK(zone) /\ event.starts \in Int
  BY DEF Inv
<1>2. event.allDay \/ Keeps(Shift(day).starts, Reads(day, zone), ClockIn(event.starts, zone))
  <2>1. CASE ~event.allDay
    <3>1. ClockIn(event.starts, zone) \in 0 .. PerDay - 1
      BY <1>1, ReadAs
    <3>2. Shift(day).starts = At(day, ClockIn(event.starts, zone), zone)
      BY <1>1, <2>1, StartsOnItsDay
    <3> QED BY <1>1, <3>1, <3>2, AtKeeps
  <2> QED BY <2>1
<1>3. ASSUME NEW n \in {0, 1}, Reads(AddDays(day, -n), zone) # {}, NEW c \in Hours
      PROVE  Keeps(ReminderDue(day, n, c), Reads(AddDays(day, -n), zone), c)
  <2>1. PICK d : d = AddDays(day, -n)
    OBVIOUS
  <2>2. IsDate(d) /\ Happens(d, zone) /\ c \in 0 .. PerDay - 1
    BY <1>1, <1>3, <2>1, AddDaysIs, DiaryConstants DEF Happens
  <2>3. FirstDay(Shift(day)) = day
    BY <1>1, StartsOnItsDay
  <2>4. ReminderDue(day, n, c) = At(d, c, zone)
    BY <2>1, <2>3 DEF ReminderDue
  <2> QED BY <1>1, <2>1, <2>2, <2>4, AtKeeps
<1> QED BY <1>2, <1>3

-----------------------------------------------------------------------------
(* The day view.                                                           *)

(* Midnights add up like days.                                             *)
LEMMA MidnightsAdd ==
    /\ \A x, y \in Int : Midnight(x + y) = Midnight(x) + Midnight(y)
    /\ \A x, y \in Int : x <= y => Midnight(x) <= Midnight(y)
    /\ Midnight(1) = PerDay /\ Midnight(2) = PerDay + PerDay
<1>1. ASSUME NEW x \in Int, NEW y \in Int PROVE Midnight(x + y) = Midnight(x) + Midnight(y)
  BY Midnights, SMT DEF Midnight
<1>2. ASSUME NEW x \in Int, NEW y \in Int, x <= y PROVE Midnight(x) <= Midnight(y)
  <2>1. CASE x = y
    BY <2>1, Midnights
  <2>2. CASE x < y
    <3>1. Midnight(x) + PerDay <= Midnight(y)
      BY <2>2, Midnights
    <3> QED BY <3>1, Midnights
  <2> QED BY <1>2, <2>1, <2>2
<1>3. Midnight(1) = PerDay /\ Midnight(2) = PerDay + PerDay
  BY Midnights, SMT DEF Midnight
<1> QED BY <1>1, <1>2, <1>3

(* An event that starts by a day that happens, and ends on it or later, is *)
(* read on it in between: the clocks skip no whole day that happens.       *)
LEMMA ReadBetween ==
    ASSUME NEW z, IsZone(z), NEW s \in Int, NEW l \in Int, s <= l, NEW x, IsDate(x), Happens(x, z),
           ~Before(x, DateIn(s, z)), ~Before(DateIn(l, z), x)
    PROVE  \E t \in s .. l : DateIn(t, z) = x
<1>1. PICK i \in Int : DateIn(i, z) = x
  BY ReadsIs DEF Happens
<1>2. PICK p, m, a, b, e \in Int :
         p = PerDay /\ m = Midnight(DayNumber(x)) /\ a = z.at /\ b = z.before /\ e = z.after
  <2>1. PerDay \in Int /\ z.at \in Int /\ z.before \in Int /\ z.after \in Int
    BY LocalIs, Midnights, 0 \in Int
  <2>2. DayNumber(x) \in Int
    BY DateOfNumber
  <2>3. Midnight(DayNumber(x)) \in Int
    BY <2>2, Midnights
  <2> QED BY <2>1, <2>3
<1>3. p >= 1
  BY <1>2, Midnights
<1>4. ASSUME NEW t \in Int
      PROVE  DateIn(t, z) = x <=> m <= Local(z, t) /\ Local(z, t) < m + p
  BY <1>2, ReadAs
<1>5. ASSUME NEW t \in Int PROVE Local(z, t) = IF t < a THEN t + b ELSE t + e
  BY <1>2, LocalIs
<1>6. Local(z, s) < m + p
  <2>1. IsDate(DateIn(s, z)) /\ Local(z, s) < Midnight(DayNumber(DateIn(s, z))) + p
    BY <1>2, ReadAs
  <2>2. DayNumber(DateIn(s, z)) <= DayNumber(x) /\ DayNumber(x) \in Int
        /\ DayNumber(DateIn(s, z)) \in Int
    BY <2>1, BeforeIs, DateOfNumber
  <2>3. Midnight(DayNumber(DateIn(s, z))) <= m /\ Midnight(DayNumber(DateIn(s, z))) \in Int
    BY <1>2, <2>2, MidnightsAdd, Midnights
  <2>4. Local(z, s) \in Int
    BY LocalIs
  <2> QED BY <2>1, <2>3, <2>4
<1>7. m <= Local(z, l)
  <2>1. IsDate(DateIn(l, z)) /\ Midnight(DayNumber(DateIn(l, z))) <= Local(z, l)
    BY ReadAs
  <2>2. DayNumber(x) <= DayNumber(DateIn(l, z)) /\ DayNumber(x) \in Int
        /\ DayNumber(DateIn(l, z)) \in Int
    BY <2>1, BeforeIs, DateOfNumber
  <2>3. m <= Midnight(DayNumber(DateIn(l, z))) /\ Midnight(DayNumber(DateIn(l, z))) \in Int
    BY <1>2, <2>2, MidnightsAdd, Midnights
  <2>4. Local(z, l) \in Int
    BY LocalIs
  <2> QED BY <2>1, <2>3, <2>4
<1>8. m <= Local(z, i) /\ Local(z, i) < m + p
  BY <1>1, <1>4
<1>9. \E t \in s .. l : m <= Local(z, t) /\ Local(z, t) < m + p
  <2>1. CASE m <= Local(z, s)
    BY <1>6, <2>1
  <2>2. CASE Local(z, l) < m + p
    BY <1>7, <2>2
  <2>3. CASE Local(z, s) < m /\ m + p <= Local(z, l)
    <3>1. m - b \in Int /\ m - e \in Int
      OBVIOUS
    <3>2. CASE m - b < a /\ s < a
      <4>1. m - b \in s .. l /\ Local(z, m - b) = m
        BY <1>3, <1>5, <2>3, <3>1, <3>2
      <4> QED BY <1>3, <4>1
    <3>3. CASE a <= m - e /\ ~(m - b < a /\ s < a)
      <4>1. m - e \in s .. l /\ Local(z, m - e) = m
        BY <1>3, <1>5, <2>3, <3>1, <3>3
      <4> QED BY <1>3, <4>1
    <3>4. CASE a <= m - b /\ m - e < a
      <4>1. s < a /\ a <= l
        BY <1>3, <1>5, <2>3, <3>4
      <4>2. m <= a + e /\ a + e < m + p
        BY <1>5, <1>8, <3>4
      <4>3. Local(z, a) = a + e
        BY <1>5
      <4> QED BY <4>1, <4>2, <4>3
    <3>5. CASE a <= s /\ m - e < a
      BY <1>5, <2>3, <3>5
    <3> QED BY <3>2, <3>3, <3>4, <3>5
  <2>4. Local(z, s) \in Int /\ Local(z, l) \in Int
    BY LocalIs
  <2> QED BY <2>1, <2>2, <2>3, <2>4
<1> QED BY <1>4, <1>9

(* How late an event of n steps ends on the day's clock: a change put      *)
(* forward adds what it skips, one put back adds nothing.                  *)
LEMMA AtNear ==
    ASSUME NEW z, IsZone(z), NEW d, IsDate(d), NEW c \in 0 .. PerDay - 1, NEW n \in Nat
    PROVE  LET s == At(d, c, z)
               u == Midnight(DayNumber(d)) + c
           IN  /\ s \in Int /\ u \in Int
               /\ z.after >= z.before => Local(z, s + n) <= u + (z.after - z.before) + n
               /\ z.after < z.before => Local(z, s + n) <= u + n
<1>1. PICK u, first, t, alt \in Int :
              /\ u = Midnight(DayNumber(d)) + c
              /\ first = u - Offset(z, u)
              /\ t = IF Offset(z, first) = Offset(z, u) THEN first ELSE u - Offset(z, first)
              /\ alt = u - Offset(z, t)
              /\ At(d, c, z) = IF DateIn(t, z) # d /\ DateIn(alt, z) = d THEN alt ELSE t
  BY AtIs
<1>2. PICK p, m, a, b, e \in Int :
         p = PerDay /\ m = Midnight(DayNumber(d)) /\ a = z.at /\ b = z.before /\ e = z.after
  <2>1. PerDay \in Int /\ z.at \in Int /\ z.before \in Int /\ z.after \in Int
    BY LocalIs, Midnights, 0 \in Int
  <2>2. DayNumber(d) \in Int
    BY DateOfNumber
  <2>3. Midnight(DayNumber(d)) \in Int
    BY <2>2, Midnights
  <2> QED BY <2>1, <2>3
<1>3. PICK s \in Int : s = At(d, c, z)
  BY <1>1
<1>4. ASSUME NEW i \in Int
      PROVE  /\ Local(z, i) = IF i < a THEN i + b ELSE i + e
             /\ Offset(z, i) = IF i < a THEN b ELSE e
  BY <1>2, LocalIs DEF Offset
<1>5. s = u - b \/ s = u - e
  BY <1>1, <1>2, <1>3, <1>4
<1>6. ASSUME e >= b PROVE Local(z, s + n) <= u + (e - b) + n
  BY <1>4, <1>5, <1>6
<1>7. ASSUME e < b PROVE Local(z, s + n) <= u + n
  <2>1. Local(z, t) = u
    BY <1>1, <1>4, <1>7
  <2>2. m <= u /\ u < m + p
    BY <1>1, <1>2
  <2>3. DateIn(t, z) = d
    BY <1>2, <2>1, <2>2, ReadAs
  <2>4. s = t
    BY <1>1, <1>3, <2>3
  <2> QED BY <1>4, <1>7, <2>1, <2>4
<1> QED BY <1>1, <1>2, <1>3, <1>6, <1>7

(* The last instant of an event, wherever it starts.                       *)
LEMMA LastInstants ==
    ASSUME NEW s \in Int, NEW n \in Nat
    PROVE  \E k \in Nat : /\ LastInstant(s, n) = s + k
                          /\ \A i \in Int : LastInstant(i, n) = i + k
<1>1. PICK k \in Nat : k = IF n > 0 THEN n - 1 ELSE 0
  OBVIOUS
<1> QED BY <1>1 DEF LastInstant

(* SpanDays covers the days the template touches.                          *)
LEMMA SpansAre ==
    ASSUME Inv
    PROVE  /\ SpanDays \in Nat
           /\ event.allDay => SpanDays = event.span
           /\ ~event.allDay => DaysUntil(DateIn(event.starts, zone), LastDay(event)) <= SpanDays
<1>1. CASE event.allDay
  BY <1>1 DEF SpanDays, Inv
<1>2. CASE ~event.allDay
  <2>1. LastInstant(event.starts, event.length) \in Int
    <3>1. event.starts \in Int /\ event.length \in Nat
      BY DEF Inv
    <3> QED BY <3>1 DEF LastInstant
  <2>2. IsDate(DateIn(event.starts, zone)) /\ IsDate(LastDay(event))
    BY <2>1, ReadAs DEF Inv, LastDay
  <2>3. PICK n \in Int : n = DaysUntil(DateIn(event.starts, zone), LastDay(event))
    BY <2>2, DaysAhead
  <2>4. SpanDays = Max0(n)
    BY <1>2, <2>3 DEF SpanDays
  <2> QED BY <1>2, <2>3, <2>4 DEF Max0
<1> QED BY <1>1, <1>2

(* An occurrence ends at most one day later than its template would, so    *)
(* the window of ExpandSeries, one day wider, reaches every one that       *)
(* touches the day looked at.                                              *)
LEMMA WindowReaches ==
    ASSUME Inv, ~event.allDay, NEW d, IsDate(d), Happens(d, zone)
    PROVE  DayNumber(LastDay(Shift(d))) <= DayNumber(d) + SpanDays + 1
<1>1. /\ IsZone(zone) /\ event.starts \in Int /\ event.length \in Nat
      /\ PerDay \in Int /\ zone.before \in Int /\ zone.after \in Int
  BY LocalIs, Midnights DEF Inv
<1>2. PICK k \in Nat : \A i \in Int : LastInstant(i, event.length) = i + k
  BY <1>1, LastInstants
<1>3. PICK c \in 0 .. PerDay - 1 : c = ClockIn(event.starts, zone)
  BY <1>1, ReadAs
<1>4. PICK s \in Int : s = At(d, c, zone) /\ s = Shift(d).starts
  BY <1>3, StartsOnItsDay
<1>5. PICK w \in Nat : w = SpanDays
  BY SpansAre
<1>6. LastDay(Shift(d)) = DateIn(s + k, zone) /\ LastDay(event) = DateIn(event.starts + k, zone)
  BY <1>1, <1>2, <1>4 DEF LastDay, Shift
<1>7. PICK n, f, g, h \in Int :
         /\ n = DayNumber(d) /\ h = DayNumber(DateIn(s + k, zone))
         /\ f = DayNumber(DateIn(event.starts, zone)) /\ g = DayNumber(DateIn(event.starts + k, zone))
  <2>1. event.starts + k \in Int /\ s + k \in Int
    BY <1>1
  <2>2. /\ IsDate(DateIn(s + k, zone)) /\ IsDate(DateIn(event.starts, zone))
        /\ IsDate(DateIn(event.starts + k, zone))
    BY <1>1, <2>1, ReadAs
  <2>3. /\ DayNumber(d) \in Int /\ DayNumber(DateIn(s + k, zone)) \in Int
        /\ DayNumber(DateIn(event.starts, zone)) \in Int
        /\ DayNumber(DateIn(event.starts + k, zone)) \in Int
    BY <2>2, DateOfNumber
  <2> QED BY <2>3
<1>8. g - f <= w
  BY <1>5, <1>6, <1>7, SpansAre DEF DaysUntil
<1>9. PICK x, y, q \in Int :
         x = Local(zone, event.starts) /\ y = Local(zone, event.starts + k) /\ q = Local(zone, s + k)
  <2>1. event.starts + k \in Int /\ s + k \in Int
    BY <1>1
  <2>2. /\ Local(zone, event.starts) \in Int /\ Local(zone, event.starts + k) \in Int
        /\ Local(zone, s + k) \in Int
    BY <1>1, <2>1, LocalIs
  <2> QED BY <2>2
<1>10. PICK mn, mf, mg, mh, mw \in Int :
          mn = Midnight(n) /\ mf = Midnight(f) /\ mg = Midnight(g) /\ mh = Midnight(h) /\ mw = Midnight(w)
  <2>1. /\ Midnight(n) \in Int /\ Midnight(f) \in Int /\ Midnight(g) \in Int
        /\ Midnight(h) \in Int /\ Midnight(w) \in Int
    <3>1. w \in Int /\ \A i \in Int : Midnight(i) \in Int
      BY Midnights
    <3> QED BY <3>1
  <2> QED BY <2>1
<1>11. x = mf + c
  BY <1>1, <1>3, <1>7, <1>9, <1>10, ReadAs
<1>12. y < mg + PerDay
  <2>1. event.starts + k \in Int
    BY <1>1
  <2>2. y = mg + ClockIn(event.starts + k, zone)
        /\ ClockIn(event.starts + k, zone) \in 0 .. PerDay - 1
    BY <1>1, <1>7, <1>9, <1>10, <2>1, ReadAs
  <2> QED BY <1>1, <2>2
<1>13. mh <= q
  <2>1. q = mh + ClockIn(s + k, zone) /\ ClockIn(s + k, zone) \in 0 .. PerDay - 1
    BY <1>1, <1>7, <1>9, <1>10, ReadAs
  <2> QED BY <1>1, <2>1
<1>14. mg - mf <= mw
  <2>1. g <= f + w /\ f + w \in Int
    BY <1>8
  <2>2. Midnight(g) <= Midnight(f + w)
    BY <2>1, MidnightsAdd
  <2>3. Midnight(f + w) = mf + mw
    BY <1>10, MidnightsAdd
  <2> QED BY <1>10, <2>2, <2>3
<1>15. /\ zone.after - zone.before <= PerDay /\ zone.before - zone.after <= PerDay
       /\ zone.after >= zone.before => q <= mn + c + (zone.after - zone.before) + k
       /\ zone.after < zone.before => q <= mn + c + k
  <2>1. zone.after - zone.before <= PerDay /\ zone.before - zone.after <= PerDay
    BY <1>1 DEF IsZone
  <2> QED BY <1>1, <1>4, <1>7, <1>9, <1>10, <2>1, AtNear
<1>16. /\ zone.after >= zone.before => y >= x + k
       /\ zone.after < zone.before => y >= x + k + zone.after - zone.before
  <2>1. /\ x = IF event.starts < zone.at THEN event.starts + zone.before ELSE event.starts + zone.after
        /\ y = IF event.starts + k < zone.at THEN event.starts + k + zone.before
                                             ELSE event.starts + k + zone.after
        /\ zone.at \in Int
    BY <1>1, <1>9, LocalIs
  <2> QED BY <1>1, <2>1
<1>17. q < mn + mw + PerDay + PerDay
  BY <1>1, <1>11, <1>12, <1>14, <1>15, <1>16
<1>18. Midnight(n + w + 2) = mn + mw + PerDay + PerDay
  <2>1. n + w \in Int /\ Midnight(n + w) = mn + mw
        /\ Midnight(n + w + 2) = Midnight(n + w) + Midnight(2)
    BY <1>10, MidnightsAdd
  <2> QED BY <1>1, <1>10, <2>1, MidnightsAdd
<1>19. ~(n + w + 2 <= h)
  <2> SUFFICES ASSUME n + w + 2 <= h PROVE FALSE
    OBVIOUS
  <2>1. Midnight(n + w + 2) <= mh
    BY <1>10, MidnightsAdd
  <2> QED BY <1>1, <1>13, <1>17, <1>18, <2>1
<1> QED BY <1>5, <1>6, <1>7, <1>19

(* The dates expanded up to the day looked at.                             *)
LEMMA DatedIs ==
    ASSUME Inv, NEW n \in Int, NEW d
    PROVE  d \in Dated(AddDays(day, -n), day) <=>
               IsDate(d) /\ Due(d) /\ ~Before(d, AddDays(day, -n)) /\ ~Before(day, d)
<1>1. IsRule(rule) /\ IsDate(day)
  BY DEF Inv
<1>2. PICK from : from = AddDays(day, -n)
  OBVIOUS
<1>3. IsDate(from)
  BY <1>1, <1>2, AddDaysIs
<1>4. Holds(Expand(rule, from, day), d) <=>
          IsDate(d) /\ DueUnder(rule, d) /\ ~Before(d, from) /\ ~Before(day, d)
  BY <1>1, <1>3, ExpandIs
<1>5. d \in Dated(from, day) <=> Holds(Expand(rule, from, day), d)
  BY DEF Dated, Holds
<1> QED BY <1>2, <1>4, <1>5, DueMeans

(* A date so many days back.                                               *)
LEMMA DaysBack ==
    ASSUME NEW x, IsDate(x), NEW n \in Int, NEW d, IsDate(d)
    PROVE  /\ Before(d, AddDays(x, -n)) <=> DayNumber(d) < DayNumber(x) - n
           /\ d = AddDays(x, -n) <=> DayNumber(d) = DayNumber(x) - n
<1>1. IsDate(AddDays(x, -n)) /\ DayNumber(AddDays(x, -n)) = DayNumber(x) - n
  <2>1. PICK k \in Int : k = -n
    OBVIOUS
  <2>2. IsDate(AddDays(x, k)) /\ DayNumber(AddDays(x, k)) = DayNumber(x) + k
    BY AddDaysIs
  <2>3. DayNumber(x) \in Int
    BY DateOfNumber
  <2> QED BY <2>1, <2>2, <2>3
<1> QED BY <1>1, BeforeIs, SameNumber

(* What overlaps a day touches it.                                         *)
LEMMA ShownCovers ==
    ASSUME Inv, NEW d, IsDate(d), event.allDay \/ Happens(day, zone), Happens(d, zone),
           Overlaps(Shift(d), day, day)
    PROVE  day \in Covers(d)
<1>1. IsDate(day) /\ IsZone(zone) /\ event.length \in Nat /\ event.span \in Nat
  BY DEF Inv
<1>2. ~Before(day, d)
  <2>1. FirstDay(Shift(d)) = d
    BY StartsOnItsDay
  <2> QED BY <2>1 DEF Overlaps, After
<1>3. ~Before(FinalDay(Shift(d)), day)
  BY DEF Overlaps
<1>4. CASE event.allDay
  <2>1. FinalDay(Shift(d)) = AddDays(d, event.span)
    BY <1>4 DEF FinalDay, Shift
  <2>2. PICK k \in Int : k = DaysUntil(d, day)
    BY <1>1, DaysAhead
  <2>3. day = AddDays(d, k) /\ k >= 0
    BY <1>1, <1>2, <2>2, DaysAhead
  <2>4. IsDate(AddDays(d, event.span))
        /\ DayNumber(AddDays(d, event.span)) = DayNumber(d) + event.span
    BY <1>1, AddDaysIs
  <2>5. ~(DayNumber(d) + event.span < DayNumber(day))
    BY <1>1, <1>3, <2>1, <2>4, BeforeIs
  <2>6. DayNumber(d) \in Int /\ DayNumber(day) \in Int /\ k = DayNumber(day) - DayNumber(d)
    BY <1>1, <2>2, DateOfNumber DEF DaysUntil
  <2>7. k \in 0 .. event.span
    BY <1>1, <2>3, <2>5, <2>6
  <2> QED BY <1>4, <2>3, <2>7 DEF Covers
<1>5. CASE ~event.allDay
  <2>1. PICK s \in Int : s = Shift(d).starts /\ DateIn(s, zone) = d
    BY <1>5, StartsOnItsDay
  <2>2. PICK k \in Nat : LastInstant(s, event.length) = s + k
    BY <1>1, LastInstants
  <2>3. FinalDay(Shift(d)) = DateIn(s + k, zone)
    BY <1>5, <2>1, <2>2 DEF FinalDay, LastDay, Shift
  <2>4. \E t \in s .. s + k : DateIn(t, zone) = day
    <3>1. s + k \in Int /\ s <= s + k
      OBVIOUS
    <3> QED BY <1>1, <1>2, <1>3, <1>5, <2>1, <2>3, <3>1, ReadBetween
  <2> QED BY <1>5, <2>1, <2>2, <2>4 DEF Covers, Readings
<1> QED BY <1>4, <1>5

(* What touches a day, and does not end back before it, overlaps it and    *)
(* starts in the window.                                                   *)
LEMMA CoveredIsShown ==
    ASSUME Inv, NEW d, IsDate(d), Happens(d, zone), day \in Covers(d), ~EndsBack(d),
           ~Before(day, d)
    PROVE  /\ Overlaps(Shift(d), day, day)
           /\ DayNumber(day) <= DayNumber(d) + SpanDays + 1
<1>1. IsDate(day) /\ IsZone(zone) /\ event.length \in Nat /\ event.span \in Nat
      /\ DayNumber(d) \in Int /\ DayNumber(day) \in Int
  BY DateOfNumber DEF Inv
<1>2. FirstDay(Shift(d)) = d
  BY StartsOnItsDay
<1>3. CASE event.allDay
  <2>1. FinalDay(Shift(d)) = AddDays(d, event.span) /\ SpanDays = event.span
    BY <1>3, SpansAre DEF FinalDay, Shift
  <2>2. PICK k \in 0 .. event.span : day = AddDays(d, k)
    BY <1>3 DEF Covers
  <2>3. DayNumber(day) = DayNumber(d) + k
    BY <2>2, AddDaysIs
  <2>4. IsDate(AddDays(d, event.span))
        /\ DayNumber(AddDays(d, event.span)) = DayNumber(d) + event.span
    <3>1. event.span \in Int
      BY <1>1
    <3> QED BY <3>1, AddDaysIs
  <2>5. ~Before(AddDays(d, event.span), day)
    BY <1>1, <2>2, <2>3, <2>4, BeforeIs
  <2> QED BY <1>1, <1>2, <2>1, <2>2, <2>3, <2>5 DEF Overlaps, After
<1>4. CASE ~event.allDay
  <2>1. day \in Readings(d)
    BY <1>4 DEF Covers
  <2>2. ~Before(LastDay(Shift(d)), day)
    BY <1>4, <2>1 DEF EndsBack, After
  <2>3. IsDate(LastDay(Shift(d)))
    <3>1. Shift(d).starts \in Int /\ Shift(d).length = event.length
      BY <1>4, StartsOnItsDay DEF Shift
    <3>2. LastInstant(Shift(d).starts, Shift(d).length) \in Int
      BY <1>1, <3>1 DEF LastInstant
    <3> QED BY <1>1, <3>2, ReadAs DEF LastDay
  <2>4. DayNumber(LastDay(Shift(d))) <= DayNumber(d) + SpanDays + 1
    BY <1>4, WindowReaches
  <2>5. DayNumber(day) <= DayNumber(LastDay(Shift(d))) /\ DayNumber(LastDay(Shift(d))) \in Int
    BY <1>1, <2>2, <2>3, BeforeIs, DateOfNumber
  <2>6. SpanDays \in Nat
    BY SpansAre
  <2>7. FinalDay(Shift(d)) = LastDay(Shift(d))
    BY <1>4 DEF FinalDay
  <2> QED BY <1>1, <1>2, <2>2, <2>4, <2>5, <2>6, <2>7 DEF Overlaps, After
<1> QED BY <1>3, <1>4

(* So a day's view is right.                                               *)
LEMMA DayViews == Inv => DayViewIsRight
<1> DEFINE shown == {d \in ExpandSeries(day, day) : Happens(d, zone)}
           right == {d \in {AddDays(day, -k) : k \in 0 .. SpanDays + 2} :
                        Happens(d, zone) /\ Due(d) /\ day \in Covers(d)}
<1> SUFFICES ASSUME Inv, event.allDay \/ Happens(day, zone)
             PROVE  shown \subseteq right /\ {d \in right : ~EndsBack(d)} \subseteq shown
  BY DEF DayViewIsRight
<1>1. PICK w \in Nat : w = SpanDays
  BY SpansAre
<1>2. IsDate(day) /\ DayNumber(day) \in Int
  BY DateOfNumber DEF Inv
<1>3. PICK n \in Int : n = w + 1
  OBVIOUS
<1>4. AddDays(day, -SpanDays - 1) = AddDays(day, -n)
  <2>1. -w - 1 = -n
    BY <1>3
  <2> QED BY <1>1, <2>1
<1>5. ASSUME NEW d
      PROVE  d \in ExpandSeries(day, day) <=>
                 /\ IsDate(d) /\ Due(d) /\ ~Before(d, AddDays(day, -n)) /\ ~Before(day, d)
                 /\ Overlaps(Shift(d), day, day)
  BY <1>4, DatedIs DEF ExpandSeries
<1>6. ASSUME NEW d, d \in ExpandSeries(day, day), Happens(d, zone) PROVE d \in right
  <2>1. /\ IsDate(d) /\ Due(d) /\ ~Before(d, AddDays(day, -n)) /\ ~Before(day, d)
        /\ Overlaps(Shift(d), day, day)
    BY <1>5, <1>6
  <2>2. day \in Covers(d)
    BY <1>6, <2>1, ShownCovers
  <2>3. DayNumber(d) \in Int /\ DayNumber(d) <= DayNumber(day) /\ DayNumber(d) >= DayNumber(day) - n
    BY <1>2, <2>1, BeforeIs, DaysBack, DateOfNumber
  <2>4. PICK k \in Int : k = DayNumber(day) - DayNumber(d)
    BY <1>2, <2>3
  <2>5. d = AddDays(day, -k)
    <3>1. DayNumber(d) = DayNumber(day) - k
      BY <1>2, <2>3, <2>4
    <3> QED BY <1>2, <2>1, <3>1, DaysBack
  <2>6. k \in 0 .. SpanDays + 2
    BY <1>1, <1>2, <1>3, <2>3, <2>4
  <2> QED BY <1>6, <2>1, <2>2, <2>5, <2>6
<1>7. ASSUME NEW d \in right, ~EndsBack(d) PROVE d \in ExpandSeries(day, day) /\ Happens(d, zone)
  <2>1. Happens(d, zone) /\ Due(d) /\ day \in Covers(d)
    OBVIOUS
  <2>2. PICK k \in 0 .. SpanDays + 2 : d = AddDays(day, -k)
    OBVIOUS
  <2>3. k \in Int /\ k >= 0
    BY <1>1, <2>2
  <2>4. IsDate(d)
    <3>1. -k \in Int
      BY <2>3
    <3> QED BY <1>2, <2>2, <3>1, AddDaysIs
  <2>5. DayNumber(d) = DayNumber(day) - k
    BY <1>2, <2>2, <2>3, <2>4, DaysBack
  <2>6. ~Before(day, d)
    BY <1>2, <2>3, <2>4, <2>5, BeforeIs
  <2>7. Overlaps(Shift(d), day, day) /\ DayNumber(day) <= DayNumber(d) + w + 1
    BY <1>1, <1>7, <2>1, <2>4, <2>6, CoveredIsShown
  <2>8. ~Before(d, AddDays(day, -n))
    <3>1. DayNumber(d) \in Int /\ ~(DayNumber(d) < DayNumber(day) - n)
      BY <1>2, <1>3, <2>3, <2>5, <2>7
    <3> QED BY <1>2, <2>4, <3>1, DaysBack
  <2> QED BY <1>5, <2>1, <2>4, <2>6, <2>7, <2>8
<1> QED BY <1>6, <1>7

-----------------------------------------------------------------------------
(* The theorems.                                                           *)

(* Every reachable diary has the inductive invariant.                      *)
THEOREM Invariant == Spec => []Inv
BY InvInit, InvNext, PTL DEF Spec

(* The day looked at, also one a search result opens on (Next), is a date; *)
(* the rule is one validate accepts and starts on the day its event does.  *)
THEOREM TypeCorrect == Spec => []TypeOK
<1>1. Inv => TypeOK
  BY RuleFields DEF Inv, TypeOK
<1> QED BY <1>1, Invariant, PTL

(* recur.Expand yields, upwards and without repeats, exactly the days the  *)
(* policy table names, for every frequency, interval and selector.         *)
THEOREM ExpansionRight == Spec => []ExpandIsRight
BY Expands, Invariant, PTL

(* recur.Next and recur.Last agree with the table: neither steps over a    *)
(* due day, and neither names one that is not due.                         *)
THEOREM SearchRight == Spec => []SearchIsRight
BY SearchFinds, Invariant, PTL

(* Date.In is the first instant of the day, also where midnight is skipped *)
(* or comes twice.                                                         *)
THEOREM DayStartsRight == Spec => []DayStarts
BY DaysStart, Invariant, PTL

(* An occurrence, and a reminder a day before, is on its own day and at    *)
(* its own clock wherever that day shows it.                               *)
THEOREM ClockStays == Spec => []ClockIsKept
BY ClockKept, Invariant, PTL

(* A day's view (expandSeries, overlaps) shows the occurrences that touch  *)
(* the day, also those a change of the clocks carries over a midnight, and *)
(* no others, save for the two exceptions DayViewIsRight names.            *)
THEOREM DayViewRight == Spec => []DayViewIsRight
BY DayViews, Invariant, PTL

(* reanchor: a rule split off at an occurrence dragged to another day is   *)
(* valid and occurs on that day.                                           *)
THEOREM DragStays == Spec => []DragLands
BY DragsLand, Invariant, PTL
==============================================================================
