------------------------------ MODULE CivilTime ------------------------------
(***************************************************************************)
(* Dates of the time sentences and the day they count to: a walk through    *)
(* the calendar, one day per step, against what timesync.rs computes.       *)
(***************************************************************************)
EXTENDS FixedPoint

CONSTANT LastYear \* bound: the walk starts on 1970-01-01 and ends with LastYear

VARIABLES year, month, day, n  \* n: days walked

vars == <<year, month, day, n>>
-----------------------------------------------------------------------------
(* days_from_civil.                                                          *)
DaysFromCivil(year0, m, d) ==
  LET y == IF m <= 2 THEN year0 - 1 ELSE year0
      era == Quot(IF y >= 0 THEN y ELSE y - 399, 400)
      yoe == y - era * 400
      doy == (153 * (IF m > 2 THEN m - 3 ELSE m + 9) + 2) \div 5 + d - 1
  IN  era * 146097 + yoe * 365 + yoe \div 4 - yoe \div 100 + doy - 719468

DaySeconds == 24 * 60 * 60

\* civil_to_unix, as a day and a second of it: a leap second is the next day's first
CivilToUnix(y, m, d, hh, mm, ss) ==
  LET s == hh * 3600 + mm * 60 + ss
  IN  [day |-> DaysFromCivil(y, m, d) + s \div DaySeconds, second |-> s % DaySeconds]

\* parse_hhmmss
TimeAccepted(hh, mm, ss) == hh <= 23 /\ mm <= 59 /\ ss <= 60

\* mutant: every fourth year is a leap year
DaysInMonthJulian(m, y) ==
  CASE m \in {1, 3, 5, 7, 8, 10, 12} -> 31 [] m \in {4, 6, 9, 11} -> 30
    [] m = 2 -> IF y % 4 = 0 THEN 29 ELSE 28 [] OTHER -> 0

DaysInMonth(m, y) ==
  CASE m \in {1, 3, 5, 7, 8, 10, 12} -> 31 [] m \in {4, 6, 9, 11} -> 30
    [] m = 2 -> IF (y % 4 = 0 /\ y % 100 # 0) \/ y % 400 = 0 THEN 29 ELSE 28
    [] OTHER -> 0

\* parse_zda_time_date: the whole date is checked
ZdaAccepts(y, m, d) == y >= 1980 /\ m \in 1..12 /\ d >= 1 /\ d <= DaysInMonth(m, y)

\* parse_ddmmyy: two digits of the year, and no day is too late for its month
RmcAccepts(m, d) == d \in 1..31 /\ m \in 1..12
RmcYear(yy) == 2000 + yy
-----------------------------------------------------------------------------
(* The calendar itself: a year is a leap year if it has a 366th day by the     *)
(* Gregorian count of days to the next one.                                   *)
YearLength(y) ==
  365 + ((y \div 4 - (y - 1) \div 4) - (y \div 100 - (y - 1) \div 100) + (y \div 400 - (y - 1) \div 400))
Lengths(y) == <<31, YearLength(y) - 337, 31, 30, 31, 30, 31, 31, 30, 31, 30, 31>>

NextDay ==
  /\ year <= LastYear
  /\ n' = n + 1
  /\ IF day < Lengths(year)[month] THEN day' = day + 1 /\ UNCHANGED <<month, year>>
     ELSE /\ day' = 1
          /\ IF month < 12 THEN month' = month + 1 /\ UNCHANGED year
             ELSE month' = 1 /\ year' = year + 1

Init == year = 1970 /\ month = 1 /\ day = 1 /\ n = 0
Next == NextDay
Spec == Init /\ [][Next]_vars
-----------------------------------------------------------------------------
\* Every day counts one more than the day before it, over leap years and the
\* ends of centuries, the end of a day with a leap second is the start of the
\* next, ZDA's dates are exactly those that exist, and RMC's year is right
\* in this century (timesync.rs:15-65, 107-143).
DaysCounted ==
  /\ CivilToUnix(year, month, day, 23, 59, 59) = [day |-> n, second |-> DaySeconds - 1]
  /\ TimeAccepted(23, 59, 60)
  /\ CivilToUnix(year, month, day, 23, 59, 60) = [day |-> n + 1, second |-> 0]
  /\ \A d \in 0..32 : ZdaAccepts(year, month, d) <=> year >= 1980 /\ d \in 1..Lengths(year)[month]
  /\ year \in 2000..2099 => RmcAccepts(month, day) /\ RmcYear(year % 100) = year
=============================================================================
