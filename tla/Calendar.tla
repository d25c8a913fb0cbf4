------------------------------ MODULE Calendar ------------------------------
(***************************************************************************)
(* BrazilianBankCalendar: the business days the reconciliation counts in.  *)
(* A date is the number of the day in one Year; the date strings of the    *)
(* code and the roll-over to another year are left out.                    *)
(***************************************************************************)
EXTENDS Integers, FiniteSets

CONSTANTS Year, TreatChristmasEveAsHoliday

Years == 1900..2199

ASSUME YearAssumption == Year \in Years /\ TreatChristmasEveAsHoliday \in BOOLEAN

Leap(y) == (y % 4 = 0 /\ y % 100 # 0) \/ y % 400 = 0

\* Number of a day of a month in year y.
DayOf(y, month, day) ==
  <<0, 31, 59, 90, 120, 151, 181, 212, 243, 273, 304, 334>>[month] + day
    + (IF month > 2 /\ Leap(y) THEN 1 ELSE 0)

\* The day of the week of day d of year y: 0 is Sunday.
Weekday(y, d) ==
  LET past == y - 1 IN (past + (past \div 4) - (past \div 100) + (past \div 400) + d) % 7

\* Meeus, Jones and Butcher.
easterSunday(y) ==
  LET a == y % 19
      b == y \div 100
      c == y % 100
      g == (b - ((b + 8) \div 25) + 1) \div 3
      h == ((19 * a) + b - (b \div 4) - g + 15) % 30
      l == (32 + (2 * (b % 4)) + (2 * (c \div 4)) - h - (c % 4)) % 7
      m == (a + (11 * h) + (22 * l)) \div 451
      n == h + l - (7 * m) + 114
  IN  DayOf(y, n \div 31, (n % 31) + 1)

FIXOS(y) ==
  {DayOf(y, 1, 1), DayOf(y, 4, 21), DayOf(y, 5, 1), DayOf(y, 9, 7),
   DayOf(y, 10, 12), DayOf(y, 11, 2), DayOf(y, 11, 15), DayOf(y, 12, 25)}

\* Carnival, Good Friday and Corpus Christi, from Easter.
Movable == {-48, -47, -2, 60}

holidays(y) ==
  FIXOS(y)
    \cup (IF y >= 2024 THEN {DayOf(y, 11, 20)} ELSE {})
    \cup (IF TreatChristmasEveAsHoliday THEN {DayOf(y, 12, 24), DayOf(y, 12, 31)} ELSE {})
    \cup {easterSunday(y) + offset : offset \in Movable}

isBusinessDay(d) == Weekday(Year, d) \notin {0, 6} /\ d \notin holidays(Year)

\* The first day does not count and the last one does.
businessDaysBetween(from, to) ==
  LET first == IF from < to THEN from ELSE to
      last == IF from < to THEN to ELSE from
  IN  Cardinality({d \in (first + 1)..last : isBusinessDay(d)})

\* What the computed holidays must satisfy in every year: Easter is a Sunday
\* from March 22 to April 25, and the days taken from it are working days.
ASSUME EasterAssumption ==
  \A y \in Years :
    /\ Weekday(y, easterSunday(y)) = 0
    /\ easterSunday(y) \in DayOf(y, 3, 22)..DayOf(y, 4, 25)
    /\ \A offset \in Movable : Weekday(y, easterSunday(y) + offset) \notin {0, 6}
=============================================================================
